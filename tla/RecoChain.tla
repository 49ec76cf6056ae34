------------------------------ MODULE RecoChain ------------------------------
(***************************************************************************)
(* What the reconstruction and analysis modules of one event loop share.   *)
(* A run processes the data of one chain of modules; the modules talk to   *)
(* each other only through the clipboard, so a chain starts from any       *)
(* clipboard contents that the modules before it can leave there.          *)
(***************************************************************************)
EXTENDS Detectors

CONSTANTS Chains,      \* the chains: a sequence of configuration records
          MaxEvents    \* events of a run

\* A chain names its modules and the data that they find.
ASSUME ChainsAssumption ==
    \A n \in DOMAIN Chains : {"module", "inputs"} \subseteq DOMAIN Chains[n]

VARIABLES setup,       \* the number of the chain of this run
          chain,       \* its configuration
          at,          \* what the event loop does next
          event,       \* the number of the event
          filled       \* entries of the histograms and counters of the modules

loopVars == <<setup, chain, at, event>>
chainVars == <<loopVars, filled>>

\* What the modules before this chain may leave on the clipboard in an event.
Inputs == Chains[setup].inputs

ChainInit ==
    /\ setup \in DOMAIN Chains
    /\ LET configured == Chains[setup]
       IN  chain = [key \in DOMAIN configured \ {"inputs"} |-> configured[key]]
    /\ at = "initialize" /\ event = 1 /\ filled = <<>>

\* Books histograms; what is not booked is a null pointer.
Booked(names) == [h \in names |-> 0]

\* Fills the named histograms, in a sequence.
Fill(names) ==
    LET some == ToSet(names)
        Before(h) == IF h \in DOMAIN filled THEN filled[h] ELSE 0
    IN  filled' = [h \in DOMAIN filled \cup some |->
                    IF h \in some THEN Before(h) + Cardinality({k \in DOMAIN names : names[k] = h})
                    ELSE filled[h]]

If(condition, names) == IF condition THEN names ELSE <<>>

\* The event loop goes on to a step of the same event.
Proceed(from, to) == at = from /\ at' = to /\ UNCHANGED <<setup, chain, event>>

\* After the last module of the chain: the clipboard is cleared, and the next
\* event begins or the modules are finalized.
EndOfEvent ==
    /\ at = "end"
    /\ IF event < MaxEvents /\ event < chain.events
       THEN at' = "begin" /\ event' = event + 1
       ELSE at' = "finalize" /\ UNCHANGED event
    /\ UNCHANGED <<setup, chain, filled>>
=============================================================================
