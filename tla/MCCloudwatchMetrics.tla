------------------------ MODULE MCCloudwatchMetrics ------------------------
(* Chunks of two rows of every kind, and longer ones in which the limits of a  *)
(* request meet; a second is two milliseconds and a period two seconds.        *)
EXTENDS CloudwatchMetrics

Entry(name, value, timestamp, service_name, attributes, size) ==
  [name |-> name, value |-> value, timestamp |-> timestamp, service |-> service_name,
   attributes |-> attributes, size |-> size]
Attribute(key, value) == [Name |-> key, Value |-> value]

Plain == Entry("m", 1, 1, "", << >>, 0)
Next2 == Entry("m", 2, 2, "a", << >>, 0)
Later == Entry("m", 4, 3, "", <<Attribute("service.name", "a"), Attribute("x", Absent)>>, 0)
Large == Entry("m", 8, 3, "a", << >>, 5)
Undated == Entry("m", 3, Absent, "", << >>, 0)
Rows == {Absent, Plain, Next2, Later, Undated,
         Entry("m", Absent, 1, "", BadJson, 0), Entry("m", NaN, 1, "", << >>, 0),
         Entry("", 1, 1, "", << >>, 0), Entry("m", 1, 1, "", BadJson, 0),
         Entry("k", 1, 1, "", << >>, 0),
         Entry("m", 1, 1, "a", <<Attribute("service.name", "b")>>, 0),
         Entry("m", 1, 1, "a", <<Attribute("x", "y"), Attribute("z", "y")>>, 0)}

ChunksOf == [1 .. 2 -> Rows] \cup
  { <<Plain, Absent, Next2, Later, Plain>>, <<Plain, Large, Next2, Later>>,
    <<Large, Large, Plain, Undated>>, <<Next2, Later, Entry("m", NaN, 1, "", << >>, 0)>> }

Now == [form |-> "now"]
At(ms) == [form |-> "at", ms |-> ms]
Ago(ms) == [form |-> "ago", ms |-> ms]
Asks(start, end, order, statistic, period, dimensions, max_rows) ==
  [namespace |-> "ns", name |-> "m", start |-> start, end |-> end, order |-> order,
   statistic |-> statistic, period |-> period, dimensions |-> dimensions, max_rows |-> max_rows]
OfA == {Attribute("service.name", "a")}

SettingsOf ==
  { Asks(Ago(9), Now, "desc", "Sum", 1, {}, 0), Asks(At(3), At(7), "asc", "Average", 2, OfA, 1),
    Asks(At(2), Now, "desc", "SampleCount", 1, {}, 1), Asks(At(0), At(6), "asc", "Maximum", 2, {}, 0),
    Asks(Ago(99), Now, "asc", "Minimum", 1, OfA, 0), Asks(At(1), Now, "asc", "Minimum", 1, OfA, 0),
    Asks(At(0), Now, "asc", "Sum", 1, {Attribute("", "a")}, 0),
    Asks(At(0), Now, "asc", "p90", 1, {}, 0), Asks(Now, At(2), "asc", "Sum", 1, {}, 0) }

=============================================================================
