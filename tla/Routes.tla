------------------------------- MODULE Routes --------------------------------
(***************************************************************************)
(* The route a rollout shows its driver (route_generator.py and the        *)
(* polylines of utils_rs): made once from the recorded drive, as it is or  *)
(* along the lanes of the map, and asked for again and again from where    *)
(* the ego is.  A route along the map grows, lane by lane, while what is   *)
(* left of it is shorter than the distance the driver looks ahead.         *)
(*                                                                         *)
(* Routes run along the lines of a grid, so that lengths are integers; the *)
(* rigid change to the rig's frame keeps every distance and is left out.   *)
(***************************************************************************)
EXTENDS Integers, Sequences, FiniteSets, FiniteSetsExt, SequencesExt

CONSTANTS
  RecordedDrives, \* recorded drives: sequences of points <<x, y>>
  Lanes,         \* the map: number -> [points, next, headed (whether points carry headings)]
  EgoPlaces,     \* where the ego may be when the route is egoAt for
  StartOffsets,  \* route_start_offset_m
  NumWaypoints,  \* NUM_WAYPOINTS
  Spacing,       \* DISTANCE_BETWEEN_WAYPOINTS
  MinKept,       \* DOWNSAMPLE_MIN_DISTANCE_M
  OffMap,        \* OFF_MAP_THRESHOLD_M
  LaneReach,     \* the distance at which the map still finds a lane
  MinGapSq,      \* the squares of the bounds on the gaps
  MaxGapSq       \*   between the waypoints of a policy

ASSUME RoutesAssumption ==
  /\ NumWaypoints > 1 /\ Spacing > 0 /\ MinKept > 0 /\ LaneReach >= 0
  /\ MinGapSq <= Spacing * Spacing /\ Spacing * Spacing <= MaxGapSq
  /\ \A l \in DOMAIN Lanes : l > 0 /\ Len(Lanes[l].points) > 1 /\ Lanes[l].next \subseteq DOMAIN Lanes

NaN    == <<>>
NoLane == 0
Lookahead == Spacing * (NumWaypoints - 1)

VARIABLES
  route,     \* its points, and the lane it ends on
  egoAt,     \* where the ego is as the route is asked for
  routing,   \* "none", "ready", "ensuring", "sampling", or why it raised
  offset,    \* where routes start
  waypoints, \* the last route generated
  shown      \* and what the policy made of it

routeVars == <<route, egoAt, routing, offset, waypoints, shown>>

RoutesInit ==
  /\ route = [points |-> <<>>, lane |-> NoLane] /\ egoAt = <<>> /\ routing = "none"
  /\ offset = 0 /\ waypoints = <<>> /\ shown = <<>>
----------------------------------------------------------------------------
(* Polylines                                                                *)

Size(n)      == IF n < 0 THEN -n ELSE n
DistSq(a, b) == (a[1] - b[1]) * (a[1] - b[1]) + (a[2] - b[2]) * (a[2] - b[2])
Dot(a, b, c) == (b[1] - a[1]) * (c[1] - b[1]) + (b[2] - a[2]) * (c[2] - b[2])

\* The length of a piece along the grid, and the point some way along it.
PieceLength(a, b) == Size(a[1] - b[1]) + Size(a[2] - b[2])
Towards(a, b, d)  ==
  IF a = b THEN a
  ELSE [k \in 1 .. 2 |-> a[k] + (d * (b[k] - a[k])) \div PieceLength(a, b)]

\* The point of a piece that is closest to p.
OnPiece(p, a, b) ==
  [k \in 1 .. 2 |-> Max({Min({a[k], b[k]}), Min({p[k], Max({a[k], b[k]})})})]

\* The first piece of a line that is closest to p.
ClosestPiece(line, p) ==
  LET far == [i \in 1 .. Len(line) - 1 |-> DistSq(p, OnPiece(p, line[i], line[i + 1]))]
  IN  Min({i \in DOMAIN far : \A j \in DOMAIN far : far[i] <= far[j]})

Project(line, p) ==
  IF Len(line) = 1 THEN line[1]
  ELSE LET i == ClosestPiece(line, p) IN OnPiece(p, line[i], line[i + 1])

\* p lies ahead of where the line ends.
PastEnd(line, p) ==
  LET a == line[Len(line) - 1]  b == Last(line)
  IN  ClosestPiece(line, p) = Len(line) - 1 /\ a # b /\ Dot(a, b, p) > 0

\* What is left of a line from the projection of p on.
RemainingFrom(line, p) ==
  IF Len(line) <= 1 THEN line
  ELSE IF PastEnd(line, p) THEN <<>>
  ELSE LET i == ClosestPiece(line, p)  at == Project(line, p) IN
       IF i = Len(line) - 1 /\ at = Last(line) THEN <<at>>
       ELSE <<at>> \o SubSeq(line, i + 1, Len(line))

ArcLength(line, n) ==
  FoldSet(LAMBDA i, sum : sum + PieceLength(line[i], line[i + 1]), 0, 1 .. n - 1)

TotalLength(line) == ArcLength(line, Len(line))

PointAtLength(line, d) ==
  IF Len(line) = 1 THEN line[1]
  ELSE LET i == Max({j \in 1 .. Len(line) - 1 : ArcLength(line, j) <= d})
       IN  Towards(line[i], line[i + 1], d - ArcLength(line, i))

\* Points at equal distances, as many as asked for and as there is line for.
ResampleFrom(line, p) ==
  LET rest == RemainingFrom(line, p) IN
  IF rest = <<>> THEN <<>>
  ELSE [k \in 1 .. Min({NumWaypoints, TotalLength(rest) \div Spacing + 1}) |->
          PointAtLength(rest, (k - 1) * Spacing)]

\* Points closer to the last one kept are dropped.
DownsampleLine(line) ==
  FoldLeft(LAMBDA kept, p : IF DistSq(Last(kept), p) >= MinKept * MinKept THEN Append(kept, p) ELSE kept,
          <<line[1]>>, Tail(line))

\* The line turns by more than 150 degrees: 4 cos^2 > 3.
FoldsBack(line) ==
  \E i \in 2 .. Len(line) - 1 :
    LET a == line[i - 1]  b == line[i]  c == line[i + 1]  dot == Dot(a, b, c)
    IN  dot < 0 /\ 4 * dot * dot > 3 * DistSq(a, b) * DistSq(b, c)
----------------------------------------------------------------------------
(* The lanes of the recorded drive                                          *)

\* Directions count quarter turns from the east.
Heading(a, b) ==
  IF b[1] > a[1] THEN 0 ELSE IF b[2] > a[2] THEN 1 ELSE IF b[1] < a[1] THEN 2 ELSE 3

HeadingDiff(h, g) == LET d == Size(h - g) IN Min({d, 4 - d})

\* At a point of the drive: that of the last move begun, east before the first.
HeadingOf(drive, i) ==
  LET moves == {j \in 1 .. Min({i, Len(drive) - 1}) : drive[j] # drive[j + 1]}
  IN  IF moves = {} THEN 0 ELSE Heading(drive[Max(moves)], drive[Max(moves) + 1])

LaneDistSq(l, p) == DistSq(p, Project(Lanes[l].points, p))

\* The lanes nearby that go the same way, in the order of their numbers.
GetCurrentLane(p, heading) ==
  {l \in DOMAIN Lanes :
     LET line == Lanes[l].points  i == ClosestPiece(line, p)
     IN  LaneDistSq(l, p) <= LaneReach * LaneReach /\ Heading(line[i], line[i + 1]) = heading}

GetClosestLane(p) ==
  Min({l \in DOMAIN Lanes : \A m \in DOMAIN Lanes : LaneDistSq(l, p) <= LaneDistSq(m, p)})

PossibleLanes(drive) ==
  [i \in DOMAIN drive |->
     LET current == GetCurrentLane(drive[i], HeadingOf(drive, i))
     IN  IF current # {} THEN current ELSE {GetClosestLane(drive[i])}]

\* The lane that stays possible longest: of several the last to be removed,
\* or the first when several stay to the end.
ConsistentLane(possible) ==
  LET stays == [l \in possible[1] |->
                  Max({n \in 1 .. Len(possible) : \A i \in 1 .. n : l \in possible[i]})]
      best  == {l \in possible[1] : \A m \in possible[1] : stays[m] <= stays[l]}
  IN  IF \E l \in best : stays[l] = Len(possible) THEN Min(best) ELSE Max(best)

\* The last lane as long as it is possible, else its one continuation.
BestLanes(possible) ==
  FoldLeft(LAMBDA best, i :
            LET next == possible[i] \cap Lanes[Last(best)].next IN
            Append(best, IF Last(best) \in possible[i] THEN Last(best)
                         ELSE IF Cardinality(next) = 1 THEN Min(next)
                         ELSE ConsistentLane(SubSeq(possible, i, Len(possible)))),
          <<ConsistentLane(possible)>>, [i \in 1 .. Len(possible) - 1 |-> i + 1])

\* The drive on the centers of those lanes.
OnLanes(drive, best) == [i \in DOMAIN drive |-> Project(Lanes[best[i]].points, drive[i])]

TooFarOff(drive, line) == \E i \in DOMAIN drive : DistSq(drive[i], line[i]) > OffMap * OffMap
----------------------------------------------------------------------------
(* The generator                                                            *)

\* RouteGenerator.create, of either type.
CreateRoute(drive, along, start) ==
  LET best == BestLanes(PossibleLanes(drive))
      line == IF along = "map" THEN OnLanes(drive, best) ELSE drive
      kept == DownsampleLine(line)
  IN  /\ routing = "none"
      /\ routing' = IF along = "map" /\ TooFarOff(drive, line) THEN "off the map"
                    ELSE IF Len(line) < 2 THEN "too short"
                    ELSE IF FoldsBack(kept) THEN "folds back" ELSE "ready"
      /\ route' = [points |-> kept, lane |-> IF along = "map" THEN Last(best) ELSE NoLane]
      /\ offset' = start
      /\ UNCHANGED <<egoAt, waypoints, shown>>

\* generate_route, up to the first look at what is left of the route.
AskForRoute(p) ==
  /\ routing = "ready" /\ egoAt' = p
  /\ routing' = IF RemainingFrom(route.points, p) = <<>> THEN "sampling" ELSE "ensuring"
  /\ UNCHANGED <<route, offset, waypoints, shown>>

\* project_onto of the map's lanes: where the first closest piece starts.
AheadOn(line, p) == SubSeq(line, ClosestPiece(line, p) + 1, Len(line))

EntryOf(l) == Heading(Lanes[l].points[1], Lanes[l].points[2])
ExitOf(l)  == LET line == Lanes[l].points IN Heading(line[Len(line) - 1], Last(line))

\* Where a lane goes on: the smallest number without headings, else straightest.
NextLanes(l) ==
  LET next == Lanes[l].next IN
  IF next = {} THEN {NoLane}
  ELSE IF Cardinality(next) = 1 \/ ~Lanes[l].headed THEN {Min(next)}
  ELSE {m \in next : \A n \in next : HeadingDiff(ExitOf(l), EntryOf(m)) <= HeadingDiff(ExitOf(l), EntryOf(n))}

TooShort == TotalLength(RemainingFrom(route.points, egoAt)) < Lookahead

\* Mutant: the whole lane is appended.
ExtendWithWhole ==
  /\ routing = "ensuring" /\ TooShort /\ route.lane # NoLane
  /\ \E next \in NextLanes(route.lane) :
       route' = [points |-> route.points \o Lanes[route.lane].points, lane |-> next]
  /\ routing' = IF FoldsBack(route'.points) THEN "folds back"
                ELSE IF RemainingFrom(route'.points, egoAt) = <<>> THEN "nothing left" ELSE "ensuring"
  /\ UNCHANGED <<egoAt, offset, waypoints, shown>>

\* One round of the loop that extends the route; the last length of nothing
\* is an IndexError.
ExtendRoute ==
  /\ routing = "ensuring" /\ TooShort /\ route.lane # NoLane
  /\ \E next \in NextLanes(route.lane) :
       route' = [points |-> route.points \o AheadOn(Lanes[route.lane].points, Last(route.points)),
                 lane |-> next]
  /\ routing' = IF FoldsBack(route'.points) THEN "folds back"
                ELSE IF RemainingFrom(route'.points, egoAt) = <<>> THEN "nothing left" ELSE "ensuring"
  /\ UNCHANGED <<egoAt, offset, waypoints, shown>>

\* Chords in hundredths.
Chord(a, b) ==
  CHOOSE r \in 0 .. 100 * PieceLength(a, b) :
    r * r <= 10000 * DistSq(a, b) /\ 10000 * DistSq(a, b) < (r + 1) * (r + 1)

ChordSum(line, n) == FoldSet(LAMBDA i, sum : sum + Chord(line[i], line[i + 1]), 0, 1 .. n - 1)

\* The waypoints before the start offset are dropped.
TrimStart(line) ==
  IF offset = 0 \/ line = <<>> THEN line
  ELSE LET reached == {i \in DOMAIN line : ChordSum(line, i) >= 100 * offset}
       IN  IF reached = {} THEN <<>> ELSE SubSeq(line, Min(reached), Len(line))

\* Cut after the first gap out of bounds, and filled up.
PrepareForPolicy(line) ==
  LET wrong == {i \in 1 .. Len(line) - 1 : DistSq(line[i], line[i + 1]) \notin MinGapSq .. MaxGapSq}
      cut   == IF wrong = {} THEN line ELSE SubSeq(line, 1, Min(wrong))
  IN  [k \in 1 .. NumWaypoints |-> IF k <= Len(cut) THEN cut[k] ELSE NaN]

\* The rest of generate_route, and what the policy sends the driver.
GiveRoute ==
  /\ routing = "sampling" \/ (routing = "ensuring" /\ (~TooShort \/ route.lane = NoLane))
  /\ routing' = "ready"
  /\ waypoints' = TrimStart(ResampleFrom(route.points, egoAt))
  /\ shown' = PrepareForPolicy(waypoints')
  /\ UNCHANGED <<route, egoAt, offset>>

RoutesNext ==
  \/ \E drive \in RecordedDrives, along \in {"recorded", "map"}, start \in StartOffsets :
       CreateRoute(drive, along, start)
  \/ \E p \in EgoPlaces : AskForRoute(p)
  \/ ExtendRoute
  \/ GiveRoute
----------------------------------------------------------------------------
(* Properties                                                               *)

\* The last move of a line.
LastMove(line) ==
  LET i == Max({j \in 1 .. Len(line) - 1 : line[j] # line[j + 1]}) IN Heading(line[i], line[i + 1])

\* The lane to append goes on from where the route ends, not back.
GoesOn ==
  LET line == Lanes[route.lane].points  i == ClosestPiece(line, Last(route.points)) IN
  /\ Project(line, Last(route.points)) = Last(route.points)
  /\ Len(DownsampleLine(route.points)) > 1 =>
       HeadingDiff(LastMove(route.points), Heading(line[i], line[i + 1])) < 2

\* Both points are on the lane, the first no later than the second.
AlongLane(line, a, b) ==
  /\ Project(line, a) = a /\ Project(line, b) = b
  /\ TotalLength(RemainingFrom(line, b)) <= TotalLength(RemainingFrom(line, a))

\* How far ahead of the ego a point of the route lies.
AheadOfEgo(p) ==
  TotalLength(RemainingFrom(route.points, egoAt)) - TotalLength(RemainingFrom(route.points, p))

(* A route only grows, along the lanes of the map, and folds back only when *)
(* the next lane does not go on from where it ends; what is left of it is   *)
(* as long as the driver looks ahead unless the recording or the lanes end  *)
(* or the ego is past its end; and what the policy shows has its full       *)
(* number of entries, of which those that are points come first, lie on the *)
(* route no nearer than the start offset, and are as far apart as the       *)
(* driver expects.                                                          *)
(* route_generator.py RouteGenerator.generate_route, prepare_for_policy.    *)
RoutesSound ==
  [][/\ routing = "ensuring" /\ routing' # "ready" =>
          /\ IsPrefix(route.points, route'.points)
          /\ GoesOn => /\ routing' # "folds back"
                       /\ \A k \in Len(route.points) .. Len(route'.points) - 1 :
                            AlongLane(Lanes[route.lane].points, route'.points[k], route'.points[k + 1])
     /\ routing \in {"ensuring", "sampling"} /\ routing' = "ready" =>
          /\ \/ offset > 0 \/ Len(waypoints') = NumWaypoints
             \/ route.lane = NoLane \/ PastEnd(route.points, egoAt)
          /\ Len(shown') = NumWaypoints
          /\ \A k \in 1 .. NumWaypoints : shown'[k] # NaN =>
               /\ Project(route.points, shown'[k]) = shown'[k] /\ AheadOfEgo(shown'[k]) >= offset
               /\ k > 1 => shown'[k - 1] # NaN /\ DistSq(shown'[k - 1], shown'[k]) \in MinGapSq .. MaxGapSq
    ]_routeVars
=============================================================================
