------------------------------ MODULE Detectors ------------------------------
(***************************************************************************)
(* Detectors as the modules see them: the pixel matrix (cartesian, or      *)
(* hexagonal in axial coordinates), masked channels, neighbouring pixels   *)
(* and the region of interest.  A position in the matrix is a pair         *)
(* <<column, row>>; where the code has a real number of pixels, this is an *)
(* integer number of 1/Unit pixels.                                        *)
(***************************************************************************)
EXTENDS Integers, Sequences, FiniteSets, SequencesExt

CONSTANT Unit

ASSUME UnitAssumption == Unit \in Nat \ {0} /\ Unit % 2 = 0

\* The elements of a sequence that are in S, in their order.
Kept(s, S) ==
    LET kept[i \in 0..Len(s)] ==
            IF i = 0 THEN <<>>
            ELSE IF s[i] \in S THEN Append(kept[i - 1], s[i]) ELSE kept[i - 1]
    IN  kept[Len(s)]

\* Detectors whose data is analysed (Module::get_regular_detectors, get_duts).
RegularDetectors(detectors, role, include_duts) ==
    LET roles == {"none", "reference"} \cup IF include_duts THEN {"dut"} ELSE {}
    IN  Kept(detectors, {d \in ToSet(detectors) : role[d] \in roles})

-----------------------------------------------------------------------------
(* The matrix.  det.columns, det.rows, det.hexagonal, det.roi *)

Abs(n) == IF n < 0 THEN -n ELSE n

FirstColumn(det, row) == IF det.hexagonal THEN -(row \div 2) ELSE 0

isWithinMatrix(det, p) ==
    /\ p[2] \in 0..(det.rows - 1)
    /\ p[1] \in FirstColumn(det, p[2])..(FirstColumn(det, p[2]) + det.columns - 1)

hex_distance(p, q) ==
    (Abs(p[1] - q[1]) + Abs(p[2] - q[2]) + Abs(q[1] + q[2] - p[1] - p[2])) \div 2

\* p and q are neighbours within a search radius, given per axis.
Touches(det, p, q, radius_row, radius_col) ==
    IF det.hexagonal THEN hex_distance(p, q) <= radius_col
    ELSE Abs(p[2] - q[2]) <= radius_row /\ Abs(p[1] - q[1]) <= radius_col

\* The first pixel of a cluster (a sequence of positions) that q touches, or 0.
FirstTouched(det, q, cluster, radius_row, radius_col) ==
    SelectInSeq(cluster, LAMBDA p : Touches(det, p, q, radius_row, radius_col))

\* Whether adding q makes a split cluster of it.
Splits(det, q, cluster, radius_row, radius_col) ==
    LET p == cluster[FirstTouched(det, q, cluster, radius_row, radius_col)]
    IN  ~det.hexagonal /\ (Abs(p[2] - q[2]) > 1 \/ Abs(p[1] - q[1]) > 1)

-----------------------------------------------------------------------------
(* Masks *)

channelID(det, p) == p[1] + det.columns * p[2]

maskChannel(det, masked, p) == masked \cup {channelID(det, p)}

IsMasked(det, masked, p) == channelID(det, p) \in masked

\* The positions one entry of a mask file names.
EntryPixels(det, entry) ==
    CASE entry.id = "c" -> {<<entry.col, r>> : r \in 0..(det.rows - 1)}
      [] entry.id = "r" -> {<<c, entry.row>> : c \in 0..(det.columns - 1)}
      [] entry.id = "p" -> {<<entry.col, entry.row>>}
      [] OTHER -> {}

process_mask_file(det, entries) ==
    FoldSet(LAMBDA p, masked : maskChannel(det, masked, p), {},
            UNION {EntryPixels(det, e) : e \in entries})

-----------------------------------------------------------------------------
(* Where a track goes through: x is <<column, row>> in units of 1/Unit pixel *)

\* static_cast<int>(std::round(n / Unit)): halves away from zero.
Round(n) == IF n >= 0 THEN (2 * n + Unit) \div (2 * Unit) ELSE -((Unit - 2 * n) \div (2 * Unit))

\* floor(n / Unit + 0.5)
Nearest(n) == (2 * n + Unit) \div (2 * Unit)

\* The conversion of a real number to int.
Truncate(n) == IF n >= 0 THEN n \div Unit ELSE -((-n) \div Unit)

round_to_nearest_hex(x) ==
    LET q == Round(x[1])
        r == Round(x[2])
        s == Round(-x[1] - x[2])
        q_diff == Abs(Unit * q - x[1])
        r_diff == Abs(Unit * r - x[2])
        s_diff == Abs(Unit * s + x[1] + x[2])
    IN  IF q_diff > r_diff /\ q_diff > s_diff THEN <<-r - s, r>>
        ELSE IF r_diff > s_diff THEN <<q, -q - s>> ELSE <<q, r>>

getInterceptPixel(det, x) ==
    IF det.hexagonal THEN round_to_nearest_hex(x) ELSE <<Nearest(x[1]), Nearest(x[2])>>

\* The distance to the centre of that pixel (of a hexagonal matrix, in rows).
inPixel(det, x) ==
    LET p == getInterceptPixel(det, x)
        c == x[1] - Unit * p[1]
        r == x[2] - Unit * p[2]
    IN  IF det.hexagonal THEN <<c + r \div 2, r>> ELSE <<c, r>>

\* Whether that pixel is one of a hexagonal matrix, counted in columns from the left.
hexIntercept(det, x) ==
    LET hex == round_to_nearest_hex(x)
        column == hex[1] + (IF hex[2] >= 0 THEN hex[2] \div 2 ELSE -((-hex[2]) \div 2))
    IN  hex[2] \in 0..(det.rows - 1) /\ column \in 0..(det.columns - 1)

\* The chip reaches from -0.5 to n - 0.5; the tolerance is in 1/Unit pixels.
hasIntercept(det, x, tolerance) ==
    LET edge == tolerance - Unit \div 2
        Inside(n, pixels) == n >= edge /\ n <= pixels * Unit - Unit \div 2 - tolerance
    IN  IF det.hexagonal THEN hexIntercept(det, x)
        ELSE Inside(x[2], det.rows) /\ Inside(x[1], det.columns)

hitMasked(det, masked, x, tolerance) ==
    LET p == getInterceptPixel(det, x)
    IN  \E c \in (p[1] - tolerance)..(p[1] + tolerance),
           r \in (p[2] - tolerance)..(p[2] + tolerance) : IsMasked(det, masked, <<c, r>>)

-----------------------------------------------------------------------------
(* The region of interest: a polygon, a sequence of positions *)

isLeft(p0, p1, p2) ==
    (p1[1] - p0[1]) * (p2[2] - p0[2]) - (p2[1] - p0[1]) * (p1[2] - p0[2])

winding_number(probe, polygon) ==
    LET Next(i) == polygon[(i % Len(polygon)) + 1]
        up == {i \in DOMAIN polygon : /\ polygon[i][2] <= probe[2] /\ Next(i)[2] > probe[2]
                                      /\ isLeft(polygon[i], Next(i), probe) > 0}
        down == {i \in DOMAIN polygon : /\ polygon[i][2] > probe[2] /\ Next(i)[2] <= probe[2]
                                        /\ isLeft(polygon[i], Next(i), probe) < 0}
    IN  IF Len(polygon) < 3 THEN 0 ELSE Cardinality(up) - Cardinality(down)

TrackWithinROI(det, x) ==
    det.roi = <<>> \/ winding_number(<<Truncate(x[1]), Truncate(x[2])>>, det.roi) # 0

ClusterWithinROI(det, positions) ==
    det.roi = <<>> \/ \A p \in positions : winding_number(p, det.roi) # 0
=============================================================================
