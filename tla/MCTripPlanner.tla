--------------------------- MODULE MCTripPlanner ---------------------------
(* Three days and three places; the stays change on day 2 or never.        *)
EXTENDS TripPlanner

Day(start_hour, end_hour, start_time, end_time, at) ==
  [start_hour |-> start_hour, end_hour |-> end_hour, start_time |-> start_time,
   end_time |-> end_time, start_at |-> at, end_at |-> at]

Short == Day(9, 14, None, None, None)
Late == Day(9, 24, 20, None, None)       \* 20:00 until midnight
Timed == Day(9, 21, 10, 13, None)
Fixed == Day(9, 14, None, None, 5)       \* explicit start and end locations

Stay(check_in, check_out, at, check_in_from, check_out_by) ==
  [check_in |-> check_in, check_out |-> check_out, at |-> at,
   check_in_from |-> check_in_from, check_out_by |-> check_out_by]

Whole == {Stay(1, 3, 0, None, None)}
Changing == {Stay(0, 2, 0, None, None), Stay(2, 4, 10, None, None)}
Strict == {Stay(0, 2, 0, None, 10), Stay(2, 4, 10, 12, None)}

NoTransfers == [d \in Days |-> None]
Transfer(departure, arrival) ==
  [NoTransfers EXCEPT ![2] = [departure |-> departure, arrival |-> arrival]]

Trip(days, stays, transfers, at) ==
  [days |-> days, stays |-> stays, transfers |-> transfers, start_at |-> at, end_at |-> at]

MCTrips ==
  { Trip(<<Short, Late, Short>>, Whole, NoTransfers, None),
    Trip(<<Short, Short, Fixed>>, Changing, NoTransfers, 7),
    Trip(<<Short, Short, Short>>, Changing, NoTransfers, None),
    Trip(<<Short, Day(9, 24, None, None, None), Short>>, Changing, Transfer(11, 21), None),
    Trip(<<Short, Short, Short>>, Strict, Transfer(12, 13), None),
    Trip(<<Short, Timed, Short>>, Changing, Transfer(9, 13), None),
    Trip(<<Short, Late, Short>>, Changing, Transfer(22, 23), None) }

PlaceDoc(visit, priority, open, at) ==
  [visit |-> visit, priority |-> priority, open |-> open, at |-> at]

(* Each with its document and its preferred days.                          *)
MCPlaces ==
  { [doc |-> PlaceDoc(1, 0, {}, 0), pref |-> <<>>],
    [doc |-> PlaceDoc(2, 1, {2}, 5), pref |-> <<>>],
    [doc |-> PlaceDoc(3, 2, {2}, 10), pref |-> <<1, 2>>],
    [doc |-> PlaceDoc(2, 0, {}, 9), pref |-> <<2, 3>>],
    [doc |-> PlaceDoc(1, 1, {3}, 8), pref |-> <<2, 1>>],
    [doc |-> PlaceDoc(4, 1, {}, 1), pref |-> <<2>>],
    [doc |-> PlaceDoc(1, 1, {}, 10), pref |-> <<2>>],
    [doc |-> PlaceDoc(1, 1, {2}, None), pref |-> <<>>],
    [doc |-> PlaceDoc(1, 2, {}, None), pref |-> <<2>>] }

MCProblems ==
  { trip @@ [docs |-> [p \in Places |-> places[p].doc],
             prefs |-> [p \in Places |-> places[p].pref]] :
    trip \in MCTrips, places \in [Places -> MCPlaces] }
=============================================================================
