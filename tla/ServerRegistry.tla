---------------------------- MODULE ServerRegistry ----------------------------
(***************************************************************************)
(* The life of the listeners (src/src/cloudwatch_server.cpp): the registry *)
(* CloudwatchServerExtensionInfo that cloudwatch_serve and cloudwatch_stop *)
(* share, and CloudwatchServer's constructor and Close.  What a handler    *)
(* does with its request is CloudwatchServer's module; here it runs for a  *)
(* while and uses the object's writer connection.                          *)
(*                                                                         *)
(* cloudwatch_serve holds the registry's mutex through the construction of *)
(* the object; cloudwatch_stop gives it back before it closes one.         *)
(***************************************************************************)
EXTENDS Naturals, Sequences

CONSTANTS
  Session,       \* threads that execute cloudwatch_serve or cloudwatch_stop
  Teardown,      \* the thread that destroys the database instance
  NoSession,     \* the owner of a free mutex
  Uri,           \* listen URIs
  Key,           \* their canonical forms
  Canonical,     \* CloudwatchListenUri::Canonical
  NoServer,      \* no registry entry
  Option,        \* option names cloudwatch_serve documents
  Uncompared,    \* those neither `valid' nor Start's comparison names
  Unknown,       \* any other name
  Default,       \* an option's default
  Other,         \* another value of it
  Null,          \* NULL given for an option
  Given,         \* the option STRUCTs to look at
  MaxStatements, \* bound on the statements of a behaviour
  MaxHandlers    \* bound on the requests one object serves at a time

ASSUME RegistryAssumption ==
  /\ Uri # {} /\ Canonical \in [Uri -> Key]
  /\ Teardown \notin Session /\ NoSession \notin Session \cup {Teardown}
  /\ NoServer \notin Nat

ASSUME OptionAssumption ==
  /\ Uncompared \subseteq Option /\ Unknown \notin Option
  /\ Default # Other /\ Null \notin {Default, Other}

ASSUME BoundAssumption == MaxStatements \in Nat /\ MaxHandlers \in Nat \ {0}

Thread == Session \cup {Teardown}
Config == [Option -> {Default, Other}]

\* The STRUCT given as options: some names, each with a value or NULL.
Options ==
  UNION {[names -> {Default, Other, Null}]
         : names \in SUBSET (Option \cup {Unknown})}

ASSUME GivenAssumption == Given \subseteq Options

VARIABLES
  mutex,      \* who holds the registry's mutex
  servers,    \* the registry: key -> object
  objects,    \* every CloudwatchServer constructed
  pc,         \* per thread: what it does next
  asked,      \* per thread: the key and the options of its statement
  active,     \* per thread: the objects it built or took out, to be closed
  answer,     \* per thread: how its last statement ended
  statements, \* how many were begun, against MaxStatements
  destroyed   \* the database instance is being destroyed

registry == <<mutex, servers>>
control == <<pc, asked, active, answer>>
vars == <<registry, objects, control, statements, destroyed>>

\* accepting: its listen thread accepts requests; closing: Close has begun;
\* writer: its connection exists; handlers: requests being served; died:
\* observer, its listen thread ended by itself.
Object == [key: Key, config: Config, accepting: BOOLEAN, closing: BOOLEAN,
           writer: BOOLEAN, handlers: 0..MaxHandlers, died: BOOLEAN]

Answers == {"none", "refused", "mismatch", "failed", "url", "stopped",
            "not found"}

NoOptions == [name \in {} |-> Default]
NoRequest == [uri |-> CHOOSE u \in Uri : TRUE, options |-> NoOptions]

Init ==
  /\ mutex = NoSession
  /\ servers = [k \in Key |-> NoServer]
  /\ objects = << >>
  /\ pc = [t \in Thread |-> "idle"]
  /\ asked = [t \in Thread |-> NoRequest]
  /\ active = [t \in Thread |-> {}]
  /\ answer = [t \in Thread |-> "none"]
  /\ statements = 0
  /\ destroyed = FALSE

KeyOf(t) == Canonical[asked[t].uri]

Goto(t, label) == pc' = [pc EXCEPT ![t] = label]

\* The statement returns or throws.
End(t, how) ==
  /\ Goto(t, "idle")
  /\ asked' = [asked EXCEPT ![t] = NoRequest]
  /\ answer' = [answer EXCEPT ![t] = how]

Release == mutex' = NoSession

----------------------------------------------------------------------------
(* The options.                                                            *)

\* Mutant: every documented option is accepted.
ValidAll == Option

\* The static set `valid'.
Valid == Option \ Uncompared

\* ParseOptions throws for a NULL and for a name that is not in `valid'.
Accepts(options) ==
  /\ DOMAIN options \subseteq Valid
  /\ \A name \in DOMAIN options : options[name] # Null

\* What it returns otherwise.
ParseOptions(options) ==
  [name \in Option |-> IF name \in DOMAIN options THEN options[name] ELSE Default]

\* Start's comparison of an existing object's configuration.
SameOptions(config, other) ==
  \A name \in Option \ Uncompared : config[name] = other[name]

----------------------------------------------------------------------------
(* Statements begin.                                                       *)

Begin(t, uri, options) ==
  /\ pc[t] = "idle" /\ ~destroyed
  /\ statements < MaxStatements
  /\ statements' = statements + 1
  /\ asked' = [asked EXCEPT ![t] = [uri |-> uri, options |-> options]]
  /\ UNCHANGED <<registry, objects, active, destroyed>>

\* SELECT cloudwatch_serve(uri, options): the options are parsed before the
\* registry is looked at.
Serve(t) ==
  \E uri \in Uri, options \in Given :
    /\ Begin(t, uri, options)
    /\ IF Accepts(options)
       THEN Goto(t, "start") /\ answer' = [answer EXCEPT ![t] = "none"]
       ELSE UNCHANGED pc /\ answer' = [answer EXCEPT ![t] = "refused"]

\* SELECT cloudwatch_stop(uri)
Stop(t) ==
  \E uri \in Uri :
    /\ Begin(t, uri, NoOptions)
    /\ Goto(t, "stop")
    /\ answer' = [answer EXCEPT ![t] = "none"]

\* ~CloudwatchServerExtensionInfo, when no statement runs any more.
Destroy ==
  /\ ~destroyed /\ \A t \in Thread : pc[t] = "idle"
  /\ destroyed' = TRUE
  /\ Goto(Teardown, "stop_all")
  /\ UNCHANGED <<registry, objects, asked, active, answer, statements>>

----------------------------------------------------------------------------
(* Start.                                                                  *)

\* Start takes the mutex and looks for the key: an object with the same options
\* is answered with its URL, one with others is an error.
FindExisting(t) ==
  /\ pc[t] = "start" /\ mutex = NoSession
  /\ LET o == servers[KeyOf(t)]
     IN /\ o # NoServer
        /\ IF SameOptions(objects[o].config, ParseOptions(asked[t].options))
           THEN End(t, "url") ELSE End(t, "mismatch")
  /\ UNCHANGED <<registry, objects, active, statements, destroyed>>

\* Mutant: the mutex is given back while the object is built.
FindNoneReleased(t) ==
  /\ pc[t] = "start" /\ mutex = NoSession
  /\ servers[KeyOf(t)] = NoServer
  /\ Goto(t, "construct")
  /\ UNCHANGED <<registry, objects, asked, active, answer, statements, destroyed>>

\* Without one the mutex stays locked.
FindNone(t) ==
  /\ pc[t] = "start" /\ mutex = NoSession
  /\ servers[KeyOf(t)] = NoServer
  /\ mutex' = t
  /\ Goto(t, "construct")
  /\ UNCHANGED <<servers, objects, asked, active, answer, statements, destroyed>>

\* Mutant: the exception leaves the mutex locked.
ConstructFailsLocked(t) ==
  /\ pc[t] = "construct"
  /\ End(t, "failed")
  /\ UNCHANGED <<registry, objects, active, statements, destroyed>>

\* The constructor throws: the host is not local, a table has other columns, or
\* the address cannot be bound.
ConstructFails(t) ==
  /\ pc[t] = "construct"
  /\ End(t, "failed")
  /\ Release
  /\ UNCHANGED <<servers, objects, active, statements, destroyed>>

\* The constructor opens the writer connection and starts the listen thread.
\* Whether two objects may be bound to one address is the socket library's to
\* say, so another object's socket does not matter here.
Construct(t) ==
  /\ pc[t] = "construct"
  /\ objects' = Append(objects,
       [key |-> KeyOf(t), config |-> ParseOptions(asked[t].options),
        accepting |-> TRUE, closing |-> FALSE, writer |-> TRUE,
        handlers |-> 0, died |-> FALSE])
  /\ active' = [active EXCEPT ![t] = {Len(objects) + 1}]
  /\ Goto(t, "emplace")
  /\ UNCHANGED <<registry, asked, answer, statements, destroyed>>

\* Start registers the object and returns its URL.
Emplace(t) ==
  /\ pc[t] = "emplace"
  /\ \E o \in active[t] : servers' = [servers EXCEPT ![KeyOf(t)] = o]
  /\ active' = [active EXCEPT ![t] = {}]
  /\ Release
  /\ End(t, "url")
  /\ UNCHANGED <<objects, statements, destroyed>>

----------------------------------------------------------------------------
(* Stop, StopAll and Close.                                                *)

\* Stop without an entry for the key.
NotFound(t) ==
  /\ pc[t] = "stop" /\ mutex = NoSession
  /\ servers[KeyOf(t)] = NoServer
  /\ End(t, "not found")
  /\ UNCHANGED <<registry, objects, active, statements, destroyed>>

\* Mutant: the entry is left until the object is closed.
EraseLate(t) ==
  /\ pc[t] = "stop" /\ mutex = NoSession
  /\ servers[KeyOf(t)] # NoServer
  /\ active' = [active EXCEPT ![t] = {servers[KeyOf(t)]}]
  /\ Goto(t, "close")
  /\ UNCHANGED <<registry, objects, asked, answer, statements, destroyed>>

\* Stop takes the object out of the registry and gives the mutex back.
Erase(t) ==
  /\ pc[t] = "stop" /\ mutex = NoSession
  /\ servers[KeyOf(t)] # NoServer
  /\ active' = [active EXCEPT ![t] = {servers[KeyOf(t)]}]
  /\ servers' = [servers EXCEPT ![KeyOf(t)] = NoServer]
  /\ Goto(t, "close")
  /\ UNCHANGED <<mutex, objects, asked, answer, statements, destroyed>>

\* StopAll takes out every object.
EraseAll(t) ==
  /\ pc[t] = "stop_all" /\ mutex = NoSession
  /\ active' = [active EXCEPT ![t] = {servers[k] : k \in Key} \ {NoServer}]
  /\ servers' = [k \in Key |-> NoServer]
  /\ Goto(t, "close")
  /\ UNCHANGED <<mutex, objects, asked, answer, statements, destroyed>>

\* Mutant: Close does not stop the server.
StopListeningNot(t) ==
  /\ pc[t] = "close"
  /\ \E o \in active[t] : objects' = [objects EXCEPT ![o].closing = TRUE]
  /\ Goto(t, "join")
  /\ UNCHANGED <<registry, asked, active, answer, statements, destroyed>>

\* Close: server->stop().  StopAll's order is the hash table's.
StopListening(t) ==
  /\ pc[t] = "close"
  /\ \E o \in active[t] :
       objects' = [objects EXCEPT ![o].closing = TRUE, ![o].accepting = FALSE]
  /\ Goto(t, "join")
  /\ UNCHANGED <<registry, asked, active, answer, statements, destroyed>>

\* Mutant: the connection is reset without the join.
ResetUnjoined(t) ==
  /\ pc[t] = "join"
  /\ \E o \in active[t] :
       /\ objects[o].closing
       /\ objects' = [objects EXCEPT ![o].writer = FALSE]
       /\ active' = [active EXCEPT ![t] = @ \ {o}]
  /\ Goto(t, "close")
  /\ UNCHANGED <<registry, asked, answer, statements, destroyed>>

\* Close: the join ends with the last handler, then the server and the
\* connection are reset.
Reset(t) ==
  /\ pc[t] = "join"
  /\ \E o \in active[t] :
       /\ objects[o].closing
       /\ ~objects[o].accepting /\ objects[o].handlers = 0
       /\ objects' = [objects EXCEPT ![o].writer = FALSE]
       /\ active' = [active EXCEPT ![t] = @ \ {o}]
  /\ Goto(t, "close")
  /\ UNCHANGED <<registry, asked, answer, statements, destroyed>>

\* The last object is closed.
Closed(t) ==
  /\ pc[t] = "close" /\ active[t] = {}
  /\ End(t, "stopped")
  /\ UNCHANGED <<registry, objects, active, statements, destroyed>>

----------------------------------------------------------------------------
(* The listen threads and their pools.                                     *)

\* Handle begins on a thread of the object's pool ...
AcceptRequest(o) ==
  /\ objects[o].accepting /\ objects[o].handlers < MaxHandlers
  /\ objects' = [objects EXCEPT ![o].handlers = @ + 1]
  /\ UNCHANGED <<registry, control, statements, destroyed>>

\* ... and answers.
FinishRequest(o) ==
  /\ objects[o].handlers > 0
  /\ objects' = [objects EXCEPT ![o].handlers = @ - 1]
  /\ UNCHANGED <<registry, control, statements, destroyed>>

\* listen_after_bind returns without having been stopped.
ListenEnds(o) ==
  /\ objects[o].accepting
  /\ objects' = [objects EXCEPT ![o].accepting = FALSE, ![o].died = TRUE]
  /\ UNCHANGED <<registry, control, statements, destroyed>>

Progress(t) ==
  \/ FindExisting(t) \/ FindNone(t)
  \/ ConstructFails(t) \/ Construct(t) \/ Emplace(t)
  \/ NotFound(t) \/ Erase(t) \/ EraseAll(t)
  \/ StopListening(t) \/ Reset(t) \/ Closed(t)

Next ==
  \/ \E t \in Session : Serve(t) \/ Stop(t)
  \/ Destroy
  \/ \E t \in Thread : Progress(t)
  \/ \E o \in DOMAIN objects :
       AcceptRequest(o) \/ FinishRequest(o) \/ ListenEnds(o)

Spec == Init /\ [][Next]_vars

\* A thread that can go on does, and a handler returns.
FairSpec ==
  /\ Spec
  /\ \A t \in Thread : WF_vars(Progress(t))
  /\ \A o \in 1..MaxStatements : WF_vars(o \in DOMAIN objects /\ FinishRequest(o))

----------------------------------------------------------------------------
(* Properties.                                                             *)

Pc == {"idle", "start", "construct", "emplace", "stop", "stop_all", "close",
       "join"}

\* Types, and the mutex is held exactly while an object is being built.
TypeOK ==
  /\ mutex \in Session \cup {NoSession}
  /\ objects \in Seq(Object)
  /\ servers \in [Key -> DOMAIN objects \cup {NoServer}]
  /\ pc \in [Thread -> Pc]
  /\ asked \in [Thread -> [uri: Uri, options: Options]]
  /\ active \in [Thread -> SUBSET DOMAIN objects]
  /\ answer \in [Thread -> Answers]
  /\ \A t \in Thread : pc[t] \in {"construct", "emplace"} <=> mutex = t

Registered(o) == \E k \in Key : servers[k] = o

\* t's statement returns a URL.
Returns(t) ==
  pc[t] # "idle" /\ pc'[t] = "idle" /\ answer'[t] = "url"

\* A statement that ends with a URL names a registered object whose
\* configuration is the one the statement asked for, in every option: two
\* sessions that serve one key with different options cannot both be told yes.
\* It relies on options Start does not compare being refused before.
ServedAsAsked ==
  [][\A t \in Session : Returns(t) =>
       LET o == servers'[KeyOf(t)]
       IN /\ o # NoServer
          /\ objects'[o].config = ParseOptions(asked[t].options)]_vars

\* A URL that was just returned is listened to, unless the listen thread ended
\* by itself: an object that another session is stopping is never handed out.
UrlListens ==
  [][\A t \in Session : Returns(t) =>
       LET o == servers'[KeyOf(t)]
       IN /\ o # NoServer
          /\ objects'[o].accepting \/ objects'[o].died]_vars

\* "The state owns every listener" (cloudwatch_server.hpp:14): an object with a
\* connection is either in the registry, under its own key, or in the hands of
\* one thread that builds or closes it, so that cloudwatch_stop or the
\* destructor will find it and nobody closes it twice.
ListenersOwned ==
  \A o \in DOMAIN objects :
    objects[o].writer =>
      /\ Registered(o) <=> \A t \in Thread : o \notin active[t]
      /\ Registered(o) => servers[objects[o].key] = o
      /\ \A t, u \in Thread : o \in active[t] \cap active[u] => t = u

\* No request is served or accepted by an object whose connection is gone, and
\* what cloudwatch_stop closed stays closed.
ClosedIsQuiet ==
  \A o \in DOMAIN objects :
    ~objects[o].writer => ~objects[o].accepting /\ objects[o].handlers = 0

\* Every statement ends, cloudwatch_stop included while requests keep arriving.
StatementsEnd ==
  \A t \in Thread : pc[t] # "idle" ~> pc[t] = "idle"

\* "Options (second argument, a `STRUCT`): [...] `metrics_table_name`"
\* (README.md:331-332): a documented option with a value is accepted.
DocumentedAccepted ==
  \A t \in Session :
    answer[t] = "refused" =>
      \E name \in DOMAIN asked[t].options :
        name = Unknown \/ asked[t].options[name] = Null

=============================================================================
