------------------------ MODULE MCCloudwatchReaders ------------------------
(* Two alarms that differ in type only and one with an ARN; two graphs with    *)
(* edges to a later page, to an unknown id and to none, and an id defined      *)
(* twice; two group names that differ in case, an aws and an s3 secret.        *)
EXTENDS CloudwatchReaders

AlarmsOf ==
  << [container |-> "CompositeAlarms", arn |-> "", name |-> "cpu", type |-> ""],
     [container |-> "MetricAlarms", arn |-> "", name |-> "cpu", type |-> ""],
     [container |-> "LogAlarms", arn |-> "arn", name |-> "log", type |-> "LogAlarm"] >>

Service(id, name, at, ends) == [id |-> id, name |-> name, at |-> at, edges |-> ends]
To(id, aliases, total) == [id |-> id, aliases |-> aliases, total |-> total]

GraphsOf ==
  { << Service(0, "a", 2, <<To(1, <<"x">>, 5), To(7, <<"x", "y">>, None), To(None, << >>, 0)>>),
       Service(1, "b", 3, << >>),
       Service(None, "c", 4, <<To(0, << >>, 1)>>) >>,
    << Service(0, "a", 4, <<To(1, <<"x">>, 2)>>),
       Service(1, "b", 2, <<To(None, <<"z">>, None)>>),
       Service(1, "d", 3, <<To(0, << >>, 1)>>) >> }

TimesOf == {[form |-> "now"], [form |-> "at", ms |-> 2], [form |-> "at", ms |-> 9]}
             \cup {[form |-> "ago", ms |-> n] : n \in {1, 9}}

NamesOf == <<"App", "app", "db">>
FoldOf == [App |-> "app", app |-> "app", db |-> "db"]
SecretTypeOf == [s |-> "s3", t |-> "aws"]
SecretRegionOf == [s |-> None, t |-> "r1"]
OffersOf == {<<"app", "app", "db">>}

=============================================================================
