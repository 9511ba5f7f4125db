----------------------------- MODULE MCSendLogs -----------------------------
(* A toy int64_t of -4..5 with a span of 3, and a request of 10 bytes, of which *)
(* an event's overhead is 2: timestamps at both ends, exactly a span apart and  *)
(* equal; messages that are empty, small, half a request, a whole one, and too  *)
(* large for any; and rows that take observed_timestamp, now, or are NULL.      *)
EXTENDS SendLogs

CONSTANT null, no_time

At(t, n) == [size |-> n, timestamp |-> t, observed_timestamp |-> no_time]

Lowest == -4

Rows ==
  {At(-4, 1), At(-1, 1), At(0, 3), At(3, 3), At(5, 1), At(3, 8), At(2, 9),
   At(no_time, 3),
   [size |-> 0, timestamp |-> no_time, observed_timestamp |-> -1]}
   \cup {[size |-> 1, timestamp |-> no_time, observed_timestamp |-> 5]}
=============================================================================
