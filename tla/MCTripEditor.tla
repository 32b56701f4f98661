---------------------------- MODULE MCTripEditor ----------------------------
(* Three days, three places, two requests, and batches of up to three      *)
(* operations out of a list that has a good and a bad example of each kind. *)
EXTENDS TripEditor, TLC

CONSTANTS p1, p2, p3, walk, drive, e1

MCEditors == {e1}

Open(day) == [day |-> day, from |-> None, to |-> None]
At(day, h) == [day |-> day, from |-> h, to |-> None]
Hours(a, b) ==
  [start_hour |-> a, end_hour |-> b, start_time |-> None, end_time |-> None, at |-> None]
Stay(n, i, o) == [name |-> n, check_in |-> i, check_out |-> o, check_out_by |-> None]
Transfer(d, l) == [date |-> d, departure |-> 10, arrival |-> 12, label |-> l]

\* Two stays, listed in the reverse of their order, a transfer between them.
TwoStays ==
  [places |-> p1 :> <<>> @@ p2 :> <<At(1, 9)>> @@ p3 :> <<Open(1), At(2, 14)>>,
   days |-> <<Hours(9, 21), Hours(9, 21), Hours(9, 24)>>,
   mode |-> walk,
   stays |-> <<Stay("b", 2, 4), Stay("a", 1, 2)>>,
   transfers |-> <<Transfer(2, None)>>]

\* Two places, the fewest there may be, one stay, no transfer.
OneStay ==
  [places |-> p1 :> <<>> @@ p2 :> <<>>,
   days |-> <<Hours(9, 21), Hours(9, 21), Hours(9, 21)>>,
   mode |-> walk,
   stays |-> <<Stay("a", 1, 3)>>,
   transfers |-> <<>>]

MCRequests == {TwoStays, OneStay}

StayOpsList ==
  {[op |-> "add_accommodation", stay |-> Stay("c", 3, 5)],
   [op |-> "update_accommodation", stay_index |-> 0, set |-> [check_out |-> 3], clear |-> {}],
   [op |-> "update_accommodation", stay_index |-> 1, set |-> [check_out |-> 3], clear |-> {}],
   [op |-> "update_accommodation", stay_index |-> 1, set |-> [check_in |-> 3],
    clear |-> {"check_out_by"}],
   [op |-> "remove_accommodation", stay_index |-> 0],
   [op |-> "remove_accommodation", stay_index |-> 1]}

TransferOpsList ==
  {[op |-> "add_transfer", transfer |-> Transfer(2, "x")],
   [op |-> "add_transfer", transfer |-> Transfer(3, "x")],
   [op |-> "update_transfer", date |-> 2, set |-> [arrival |-> 9], clear |-> {}],
   [op |-> "update_transfer", date |-> 2, set |-> [departure |-> 11], clear |-> {"label"}],
   [op |-> "remove_transfer", date |-> 2]}

OtherOpsList ==
  {[op |-> "set_place_auto", place |-> p2],
   [op |-> "set_place_pinned", place |-> p2, slot |-> Open(3)],
   [op |-> "set_place_pinned", place |-> p1, slot |-> Open(4)],
   [op |-> "set_place_flexible", place |-> p3, slots |-> <<Open(2), At(3, 8)>>],
   [op |-> "set_place_flexible", place |-> p2, slots |-> <<Open(1), Open(1)>>],
   [op |-> "remove_place", place |-> p2],
   [op |-> "remove_place", place |-> p3],
   [op |-> "update_day_window", day |-> 1, set |-> [end_time |-> 12], clear |-> {}],
   [op |-> "update_day_window", day |-> 1, set |-> [start_hour |-> 13], clear |-> {"end_time"}],
   [op |-> "set_transport_mode", mode |-> drive]}

UpTo(n, S) == UNION {[1..k -> S] : k \in 1..n}

\* What one operation does and a second and a third may undo.
UndoneList ==
  {op \in OtherOpsList : \/ "place" \in DOMAIN op /\ op.place = p2 /\ op.op # "set_place_flexible"
                         \/ "day" \in DOMAIN op}

MCBatches ==
  e1 :> (UpTo(2, StayOpsList \cup TransferOpsList \cup OtherOpsList)
           \cup UpTo(3, StayOpsList \cup TransferOpsList) \cup UpTo(3, UndoneList))
=============================================================================
