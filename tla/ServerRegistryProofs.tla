------------------------ MODULE ServerRegistryProofs ------------------------
(***************************************************************************)
(* Theorems about the registry of listeners: types, who owns a listener,   *)
(* and what a cloudwatch_serve that returns a URL promises.                *)
(***************************************************************************)
EXTENDS ServerRegistry, TLAPS

\* A statement that is to start a listener has options ParseOptions accepted.
AskedInv ==
  \A t \in Thread :
    pc[t] \in {"start", "construct", "emplace"} =>
      t \in Session /\ Accepts(asked[t].options)

\* Names outside `valid' have their defaults in every configuration.
ConfigInv ==
  \A o \in DOMAIN objects : \A name \in Uncompared : objects[o].config[name] = Default

\* A listener nobody has begun to close.
Serving(o) ==
  /\ objects[o].writer /\ ~objects[o].closing
  /\ objects[o].accepting \/ objects[o].died

\* What is registered serves, under its own key, and is in nobody's hands.
EntryInv ==
  \A k \in Key : servers[k] # NoServer =>
    /\ Serving(servers[k])
    /\ objects[servers[k]].key = k
    /\ \A t \in Thread : servers[k] \notin active[t]

\* What threads have in their hands.
HeldInv ==
  /\ \A t, u \in Thread : t # u => active[t] \cap active[u] = {}
  /\ \A t \in Thread : pc[t] \notin {"emplace", "close", "join"} => active[t] = {}

\* A thread that builds an object knows that its key is free.
BuildInv ==
  \A t \in Thread :
    /\ pc[t] \in {"construct", "emplace"} => servers[KeyOf(t)] = NoServer
    /\ pc[t] = "emplace" =>
         \E o \in DOMAIN objects :
           /\ active[t] = {o} /\ Serving(o)
           /\ objects[o].key = KeyOf(t)
           /\ objects[o].config = ParseOptions(asked[t].options)

\* No listener with a connection is lost.
FoundInv ==
  \A o \in DOMAIN objects :
    objects[o].writer => Registered(o) \/ \E t \in Thread : o \in active[t]

RegistryInv ==
  /\ TypeOK /\ AskedInv /\ ConfigInv /\ EntryInv /\ HeldInv /\ BuildInv
  /\ FoundInv /\ ClosedIsQuiet

----------------------------------------------------------------------------
(* Types.                                                                  *)

LEMMA NoOptionsType == NoOptions \in Options
<1>1. NoOptions \in [{} -> {Default, Other, Null}]
  BY DEF NoOptions
<1>2. {} \in SUBSET (Option \cup {Unknown})
  OBVIOUS
<1>3. QED
  BY <1>1, <1>2 DEF Options

\* What ParseOptions returns for options it accepts, with the defaults of the
\* names it does not.
LEMMA ParsedType ==
  ASSUME NEW options \in Options, Accepts(options)
  PROVE  /\ ParseOptions(options) \in Config
         /\ \A name \in Uncompared : ParseOptions(options)[name] = Default
<1>1. PICK names \in SUBSET (Option \cup {Unknown}) :
        options \in [names -> {Default, Other, Null}]
  BY DEF Options
<1>2. \A name \in DOMAIN options : options[name] \in {Default, Other}
  BY <1>1 DEF Accepts
<1>3. ParseOptions(options) \in Config
  BY <1>2 DEF ParseOptions, Config
<1>4. \A name \in Uncompared : name \in Option /\ name \notin DOMAIN options
  BY OptionAssumption DEF Accepts, Valid
<1>5. QED
  BY <1>3, <1>4 DEF ParseOptions

LEMMA TypeInit == Init => TypeOK
<1> SUFFICES ASSUME Init PROVE TypeOK
  OBVIOUS
<1>1. NoRequest \in [uri: Uri, options: Options]
  <2>1. (CHOOSE u \in Uri : TRUE) \in Uri
    BY RegistryAssumption
  <2>2. QED
    BY <2>1, NoOptionsType DEF NoRequest
<1>2. mutex \notin Thread
  BY RegistryAssumption DEF Init, Thread
<1>3. QED
  BY <1>1, <1>2 DEF Init, TypeOK, Pc, Answers, Thread

LEMMA ObjectUpdate ==
  ASSUME NEW s \in Seq(Object), NEW o \in DOMAIN s, NEW new \in Object
  PROVE  /\ [s EXCEPT ![o] = new] \in Seq(Object)
         /\ DOMAIN [s EXCEPT ![o] = new] = DOMAIN s
  OBVIOUS

\* A step of a listener or of Close changes one object and leaves its key and
\* its configuration alone.
Touches(o) ==
  /\ o \in DOMAIN objects
  /\ objects' \in Seq(Object) /\ DOMAIN objects' = DOMAIN objects
  /\ \A other \in DOMAIN objects \ {o} : objects'[other] = objects[other]
  /\ objects'[o].key = objects[o].key
  /\ objects'[o].config = objects[o].config

\* The steps that change an object, by what they change.
LEMMA StopListeningTouches ==
  ASSUME TypeOK, NEW t \in Thread, StopListening(t)
  PROVE  \E o \in active[t] :
           /\ Touches(o)
           /\ objects'[o].closing /\ ~objects'[o].accepting
           /\ objects'[o].writer = objects[o].writer
           /\ objects'[o].handlers = objects[o].handlers
<1>1. PICK o \in active[t] :
        objects' = [objects EXCEPT ![o].closing = TRUE, ![o].accepting = FALSE]
  BY DEF StopListening
<1> DEFINE new == [objects[o] EXCEPT !.closing = TRUE, !.accepting = FALSE]
<1>2. o \in DOMAIN objects /\ objects \in Seq(Object)
  BY DEF TypeOK
<1>3. objects[o] \in Object
  BY <1>2
<1>4. /\ new \in Object /\ new.closing = TRUE /\ new.accepting = FALSE
      /\ new.writer = objects[o].writer /\ new.handlers = objects[o].handlers
      /\ new.key = objects[o].key /\ new.config = objects[o].config
  BY <1>3 DEF Object
<1>5. objects' = [objects EXCEPT ![o] = new]
  BY <1>1, <1>2
<1> HIDE DEF new
<1>6. objects' \in Seq(Object) /\ DOMAIN objects' = DOMAIN objects
  BY <1>2, <1>4, <1>5, ObjectUpdate
<1>7. objects'[o] = new
  BY <1>2, <1>5
<1>8. \A other \in DOMAIN objects \ {o} : objects'[other] = objects[other]
  BY <1>2, <1>5
<1>9. QED
  BY <1>2, <1>4, <1>6, <1>7, <1>8 DEF Touches

LEMMA ResetTouches ==
  ASSUME TypeOK, NEW t \in Thread, Reset(t)
  PROVE  \E o \in active[t] :
           /\ Touches(o)
           /\ active' = [active EXCEPT ![t] = active[t] \ {o}]
           /\ ~objects'[o].writer /\ ~objects'[o].accepting
           /\ objects'[o].handlers = 0
<1>1. PICK o \in active[t] :
        /\ objects' = [objects EXCEPT ![o].writer = FALSE]
        /\ active' = [active EXCEPT ![t] = active[t] \ {o}]
        /\ ~objects[o].accepting /\ objects[o].handlers = 0
  BY DEF Reset, TypeOK
<1> DEFINE new == [objects[o] EXCEPT !.writer = FALSE]
<1>2. o \in DOMAIN objects /\ objects \in Seq(Object)
  BY DEF TypeOK
<1>3. objects[o] \in Object
  BY <1>2
<1>4. /\ new \in Object /\ new.writer = FALSE
      /\ new.accepting = objects[o].accepting
      /\ new.handlers = objects[o].handlers
      /\ new.key = objects[o].key /\ new.config = objects[o].config
  BY <1>3 DEF Object
<1>5. objects' = [objects EXCEPT ![o] = new]
  BY <1>1, <1>2
<1> HIDE DEF new
<1>6. objects' \in Seq(Object) /\ DOMAIN objects' = DOMAIN objects
  BY <1>2, <1>4, <1>5, ObjectUpdate
<1>7. objects'[o] = new
  BY <1>2, <1>5
<1>8. \A other \in DOMAIN objects \ {o} : objects'[other] = objects[other]
  BY <1>2, <1>5
<1>9. QED
  BY <1>1, <1>2, <1>4, <1>6, <1>7, <1>8 DEF Touches

\* A request begins or ends, or the listen thread ends by itself.
Listens(o) == AcceptRequest(o) \/ FinishRequest(o) \/ ListenEnds(o)

LEMMA ListensTouches ==
  ASSUME TypeOK, NEW o \in DOMAIN objects, Listens(o)
  PROVE  /\ Touches(o)
         /\ objects'[o].writer = objects[o].writer
         /\ objects'[o].closing = objects[o].closing
         /\ \/ objects'[o].accepting = objects[o].accepting
               /\ objects'[o].died = objects[o].died
            \/ ~objects'[o].accepting /\ objects'[o].died
         /\ \/ objects[o].accepting
            \/ objects[o].handlers # 0 /\ ~objects'[o].accepting
<1>1. objects[o] \in Object /\ objects \in Seq(Object)
  BY DEF TypeOK
<1>2. PICK new \in Object :
        /\ objects' = [objects EXCEPT ![o] = new]
        /\ new.key = objects[o].key /\ new.config = objects[o].config
        /\ new.writer = objects[o].writer /\ new.closing = objects[o].closing
        /\ \/ new.accepting = objects[o].accepting /\ new.died = objects[o].died
           \/ new.accepting = FALSE /\ new.died = TRUE
        /\ objects[o].accepting \/ objects[o].handlers # 0
  <2>1. CASE AcceptRequest(o)
    <3> DEFINE new == [objects[o] EXCEPT !.handlers = @ + 1]
    <3>1. objects[o].handlers + 1 \in 0..MaxHandlers
      BY <1>1, <2>1, BoundAssumption DEF AcceptRequest, Object
    <3>2. new \in Object
      BY <1>1, <3>1 DEF Object
    <3>3. objects' = [objects EXCEPT ![o] = new]
      BY <2>1, <1>1 DEF AcceptRequest
    <3>4. QED
      BY <1>1, <2>1, <3>2, <3>3 DEF AcceptRequest, Object
  <2>2. CASE FinishRequest(o)
    <3> DEFINE new == [objects[o] EXCEPT !.handlers = @ - 1]
    <3>1. objects[o].handlers - 1 \in 0..MaxHandlers
      BY <1>1, <2>2, BoundAssumption DEF FinishRequest, Object
    <3>2. new \in Object
      BY <1>1, <3>1 DEF Object
    <3>3. objects' = [objects EXCEPT ![o] = new]
      BY <2>2, <1>1 DEF FinishRequest
    <3>4. objects[o].handlers # 0
      BY <1>1, <2>2, BoundAssumption DEF FinishRequest, Object
    <3>5. QED
      BY <1>1, <3>2, <3>3, <3>4 DEF Object
  <2>3. CASE ListenEnds(o)
    <3> DEFINE new == [objects[o] EXCEPT !.accepting = FALSE, !.died = TRUE]
    <3>1. new \in Object
      BY <1>1 DEF Object
    <3>2. objects' = [objects EXCEPT ![o] = new]
      BY <2>3, <1>1 DEF ListenEnds
    <3>3. QED
      BY <1>1, <2>3, <3>1, <3>2 DEF ListenEnds, Object
  <2>4. QED
    BY <2>1, <2>2, <2>3 DEF Listens
<1>3. objects' \in Seq(Object) /\ DOMAIN objects' = DOMAIN objects
  BY <1>1, <1>2, ObjectUpdate
<1>4. objects'[o] = new
  BY <1>1, <1>2
<1>5. \A other \in DOMAIN objects \ {o} : objects'[other] = objects[other]
  BY <1>1, <1>2
<1>6. QED
  BY <1>1, <1>2, <1>3, <1>4, <1>5 DEF Touches

\* One more object.
LEMMA ConstructAdds ==
  ASSUME TypeOK, AskedInv, NEW t \in Thread, Construct(t)
  PROVE  /\ objects' \in Seq(Object)
         /\ Len(objects) + 1 \notin DOMAIN objects
         /\ DOMAIN objects' = DOMAIN objects \cup {Len(objects) + 1}
         /\ \A o \in DOMAIN objects : objects'[o] = objects[o]
         /\ objects'[Len(objects) + 1] =
              [key |-> KeyOf(t), config |-> ParseOptions(asked[t].options),
               accepting |-> TRUE, closing |-> FALSE, writer |-> TRUE,
               handlers |-> 0, died |-> FALSE]
         /\ \A name \in Uncompared :
              ParseOptions(asked[t].options)[name] = Default
<1> DEFINE new == [key |-> KeyOf(t), config |-> ParseOptions(asked[t].options),
                   accepting |-> TRUE, closing |-> FALSE, writer |-> TRUE,
                   handlers |-> 0, died |-> FALSE]
<1>1. asked[t] \in [uri: Uri, options: Options] /\ objects \in Seq(Object)
  BY DEF TypeOK
<1>2. /\ ParseOptions(asked[t].options) \in Config
      /\ \A name \in Uncompared : ParseOptions(asked[t].options)[name] = Default
  <2>1. asked[t].options \in Options
    BY <1>1
  <2>2. Accepts(asked[t].options)
    BY DEF Construct, AskedInv
  <2>3. QED
    BY <2>1, <2>2, ParsedType
<1>3. KeyOf(t) \in Key
  BY <1>1, RegistryAssumption DEF KeyOf
<1>4. new \in Object
  BY <1>2, <1>3, BoundAssumption DEF Object
<1>5. objects' = Append(objects, new)
  BY DEF Construct
<1> HIDE DEF new
<1>6. /\ objects' \in Seq(Object)
      /\ Len(objects) + 1 \notin DOMAIN objects
      /\ DOMAIN objects' = DOMAIN objects \cup {Len(objects) + 1}
      /\ \A o \in DOMAIN objects : objects'[o] = objects[o]
      /\ objects'[Len(objects) + 1] = new
  BY <1>1, <1>4, <1>5
<1>7. QED
  BY <1>2, <1>6 DEF new

\* How a statement ends.
LEMMA EndTypes ==
  ASSUME TypeOK, NEW t \in Thread, NEW how \in Answers, End(t, how)
  PROVE  /\ pc' \in [Thread -> Pc]
         /\ asked' \in [Thread -> [uri: Uri, options: Options]]
         /\ answer' \in [Thread -> Answers]
         /\ pc'[t] = "idle" /\ \A u \in Thread \ {t} : pc'[u] = pc[u]
         /\ \A u \in Thread \ {t} : asked'[u] = asked[u]
<1>1. NoRequest \in [uri: Uri, options: Options]
  BY NoOptionsType, RegistryAssumption DEF NoRequest
<1>2. QED
  BY <1>1 DEF End, Goto, TypeOK, Pc

LEMMA TypeStep ==
  ASSUME TypeOK, AskedInv, [Next]_vars
  PROVE  TypeOK' /\ AskedInv'
<1> USE DEF TypeOK
<1>1. ASSUME NEW t \in Session, Serve(t)
      PROVE  TypeOK' /\ AskedInv'
  <2>1. t \in Thread
    BY DEF Thread
  <2>2. PICK uri \in Uri, options \in Given :
          /\ Begin(t, uri, options)
          /\ IF Accepts(options)
              THEN Goto(t, "start") /\ answer' = [answer EXCEPT ![t] = "none"]
              ELSE UNCHANGED pc /\ answer' = [answer EXCEPT ![t] = "refused"]
    BY <1>1 DEF Serve
  <2>3. options \in Options
    BY GivenAssumption
  <2>4. TypeOK'
    BY <2>1, <2>2, <2>3 DEF Begin, Goto, registry, Pc, Answers
  <2>5. AskedInv'
    BY <1>1, <2>1, <2>2 DEF Begin, Goto, AskedInv
  <2>6. QED
    BY <2>4, <2>5
<1>2. ASSUME NEW t \in Session, Stop(t)
      PROVE  TypeOK' /\ AskedInv'
  <2>1. t \in Thread
    BY DEF Thread
  <2>2. PICK uri \in Uri :
          /\ Begin(t, uri, NoOptions)
          /\ Goto(t, "stop")
          /\ answer' = [answer EXCEPT ![t] = "none"]
    BY <1>2 DEF Stop
  <2>3. TypeOK'
    BY <2>1, <2>2, NoOptionsType DEF Begin, Goto, registry, Pc, Answers
  <2>4. AskedInv'
    BY <2>1, <2>2 DEF Begin, Goto, AskedInv
  <2>5. QED
    BY <2>3, <2>4
<1>3. ASSUME Destroy
      PROVE  TypeOK' /\ AskedInv'
  BY <1>3 DEF Destroy, Goto, registry, Pc, AskedInv, Thread
<1>4. ASSUME NEW t \in Thread, Progress(t)
      PROVE  TypeOK' /\ AskedInv'
  <2> USE DEF registry
  <2>0. KeyOf(t) \in Key
    BY RegistryAssumption DEF KeyOf
  <2>1. CASE FindExisting(t)
    <3>1. End(t, "url") \/ End(t, "mismatch")
      BY <2>1 DEF FindExisting
    <3>2. PICK how \in Answers : End(t, how)
      BY <3>1 DEF Answers
    <3>3. QED
      BY <2>1, <3>2, EndTypes DEF FindExisting, AskedInv
  <2>2. CASE FindNone(t)
    <3>1. t \in Session
      BY <2>2 DEF FindNone, AskedInv
    <3>2. TypeOK'
      BY <2>2, <3>1, RegistryAssumption DEF FindNone, Goto, Pc, Thread
    <3>3. AskedInv'
      BY <2>2, <3>1 DEF FindNone, Goto, AskedInv
    <3>4. QED
      BY <3>2, <3>3
  <2>3. CASE ConstructFails(t)
    <3>1. "failed" \in Answers /\ End(t, "failed")
      BY <2>3 DEF ConstructFails, Answers
    <3>2. QED
      BY <2>3, <3>1, EndTypes, RegistryAssumption
         DEF ConstructFails, Release, AskedInv, Thread
  <2>4. CASE Construct(t)
    <3>1. DOMAIN objects \subseteq DOMAIN objects'
      BY <2>4, ConstructAdds
    <3>2. active' \in [Thread -> SUBSET DOMAIN objects']
      BY <2>4, ConstructAdds DEF Construct
    <3>3. TypeOK'
      BY <2>4, <3>1, <3>2, ConstructAdds DEF Construct, Goto, Pc
    <3>4. AskedInv'
      BY <2>4 DEF Construct, Goto, AskedInv
    <3>5. QED
      BY <3>3, <3>4
  <2>5. CASE Emplace(t)
    <3>1. "url" \in Answers /\ End(t, "url")
      BY <2>5 DEF Emplace, Answers
    <3>2. /\ servers' \in [Key -> DOMAIN objects' \cup {NoServer}]
          /\ active' \in [Thread -> SUBSET DOMAIN objects']
          /\ objects' = objects
      BY <2>5, <2>0 DEF Emplace
    <3>3. QED
      BY <2>5, <3>1, <3>2, EndTypes, RegistryAssumption
         DEF Emplace, Release, AskedInv, Thread
  <2>6. CASE NotFound(t)
    <3>1. "not found" \in Answers /\ End(t, "not found")
      BY <2>6 DEF NotFound, Answers
    <3>2. QED
      BY <2>6, <3>1, EndTypes DEF NotFound, AskedInv
  <2>7. CASE Erase(t)
    <3>1. servers[KeyOf(t)] \in DOMAIN objects
      BY <2>7, <2>0 DEF Erase
    <3>2. TypeOK'
      BY <2>7, <3>1 DEF Erase, Goto, Pc
    <3>3. AskedInv'
      BY <2>7 DEF Erase, Goto, AskedInv
    <3>4. QED
      BY <3>2, <3>3
  <2>8. CASE EraseAll(t)
    <3>1. {servers[k] : k \in Key} \ {NoServer} \subseteq DOMAIN objects
      OBVIOUS
    <3>2. TypeOK'
      BY <2>8, <3>1 DEF EraseAll, Goto, Pc
    <3>3. AskedInv'
      BY <2>8 DEF EraseAll, Goto, AskedInv
    <3>4. QED
      BY <3>2, <3>3
  <2>9. CASE StopListening(t)
    <3>1. objects' \in Seq(Object) /\ DOMAIN objects' = DOMAIN objects
      BY <2>9, StopListeningTouches DEF Touches
    <3>2. TypeOK'
      BY <2>9, <3>1 DEF StopListening, Goto, Pc
    <3>3. AskedInv'
      BY <2>9 DEF StopListening, Goto, AskedInv
    <3>4. QED
      BY <3>2, <3>3
  <2>10. CASE Reset(t)
    <3>1. /\ objects' \in Seq(Object) /\ DOMAIN objects' = DOMAIN objects
          /\ active' \in [Thread -> SUBSET DOMAIN objects]
      BY <2>10, ResetTouches DEF Touches
    <3>2. TypeOK'
      BY <2>10, <3>1 DEF Reset, Goto, Pc
    <3>3. AskedInv'
      BY <2>10 DEF Reset, Goto, AskedInv
    <3>4. QED
      BY <3>2, <3>3
  <2>11. CASE Closed(t)
    <3>1. "stopped" \in Answers /\ End(t, "stopped")
      BY <2>11 DEF Closed, Answers
    <3>2. QED
      BY <2>11, <3>1, EndTypes DEF Closed, AskedInv
  <2>12. QED
    BY <1>4, <2>1, <2>2, <2>3, <2>4, <2>5, <2>6, <2>7, <2>8, <2>9, <2>10, <2>11
       DEF Progress
<1>5. ASSUME NEW o \in DOMAIN objects, Listens(o)
      PROVE  TypeOK' /\ AskedInv'
  <2>1. UNCHANGED <<registry, control, statements, destroyed>>
    BY <1>5 DEF Listens, AcceptRequest, FinishRequest, ListenEnds
  <2>2. objects' \in Seq(Object) /\ DOMAIN objects' = DOMAIN objects
    BY <1>5, ListensTouches DEF Touches
  <2>3. QED
    BY <2>1, <2>2 DEF registry, control, AskedInv
<1>6. CASE UNCHANGED vars
  BY <1>6 DEF vars, registry, control, AskedInv
<1>7. QED
  BY <1>1, <1>2, <1>3, <1>4, <1>5, <1>6 DEF Next, Listens

----------------------------------------------------------------------------
(* Who owns a listener.                                                    *)

\* Steps that leave the registry, the objects and what is in anybody's hands
\* alone: a statement begins, is answered without an object, or ends.
LEMMA QuietStep ==
  ASSUME RegistryInv, TypeOK', UNCHANGED <<servers, objects, active>>,
         NEW t \in Thread,
         \A u \in Thread \ {t} : pc'[u] = pc[u] /\ asked'[u] = asked[u],
         pc'[t] \in {"emplace", "close", "join"} => pc'[t] = pc[t],
         active[t] = {} \/ pc'[t] = pc[t],
         pc'[t] = "construct" => servers[KeyOf(t)] = NoServer /\ asked'[t] = asked[t],
         pc'[t] = "emplace" => asked'[t] = asked[t]
  PROVE  /\ ConfigInv' /\ EntryInv' /\ HeldInv' /\ BuildInv' /\ FoundInv'
         /\ ClosedIsQuiet'
<1>1. ConfigInv' /\ ClosedIsQuiet'
  BY DEF RegistryInv, ConfigInv, ClosedIsQuiet
<1>2. EntryInv'
  BY DEF RegistryInv, EntryInv, Serving
<1>3. HeldInv'
  BY DEF RegistryInv, HeldInv
<1>4. BuildInv'
  BY DEF RegistryInv, BuildInv, Serving, KeyOf
<1>5. FoundInv'
  BY DEF RegistryInv, FoundInv, Registered
<1>6. QED
  BY <1>1, <1>2, <1>3, <1>4, <1>5

\* An object changes and neither the registry, the statements nor what is in
\* anybody's hands does: a listener's own step.
LEMMA ListensStep ==
  ASSUME RegistryInv, TypeOK', NEW o \in DOMAIN objects, Listens(o)
  PROVE  /\ ConfigInv' /\ EntryInv' /\ HeldInv' /\ BuildInv' /\ FoundInv'
         /\ ClosedIsQuiet'
<1>1. /\ UNCHANGED <<servers, pc, asked, active>>
  BY DEF Listens, AcceptRequest, FinishRequest, ListenEnds, registry, control
<1>2. /\ Touches(o)
      /\ objects'[o].writer = objects[o].writer
      /\ objects'[o].closing = objects[o].closing
      /\ \/ objects'[o].accepting = objects[o].accepting
            /\ objects'[o].died = objects[o].died
         \/ ~objects'[o].accepting /\ objects'[o].died
      /\ objects[o].accepting \/ objects[o].handlers # 0
  BY ListensTouches DEF RegistryInv
<1>3. \A other \in DOMAIN objects :
        /\ objects'[other].key = objects[other].key
        /\ objects'[other].config = objects[other].config
        /\ objects'[other].writer = objects[other].writer
        /\ Serving(other) => Serving(other)'
  BY <1>2 DEF Touches, Serving
<1>4. ConfigInv' /\ HeldInv'
  BY <1>1, <1>2, <1>3 DEF RegistryInv, ConfigInv, HeldInv, Touches
<1>5. EntryInv'
  BY <1>1, <1>3 DEF RegistryInv, EntryInv, TypeOK
<1>6. BuildInv'
  <2>1. ASSUME NEW t \in Thread, pc[t] = "emplace"
        PROVE  \E new \in DOMAIN objects :
                 /\ active[t] = {new} /\ Serving(new)'
                 /\ objects'[new].key = KeyOf(t)
                 /\ objects'[new].config = ParseOptions(asked[t].options)
    BY <2>1, <1>3 DEF RegistryInv, BuildInv
  <2>2. QED
    BY <1>1, <1>2, <2>1 DEF RegistryInv, BuildInv, KeyOf, Touches
<1>7. FoundInv'
  BY <1>1, <1>2, <1>3 DEF RegistryInv, FoundInv, Registered, Touches
<1>8. ClosedIsQuiet'
  BY <1>2 DEF RegistryInv, ClosedIsQuiet, Touches
<1>9. QED
  BY <1>4, <1>5, <1>6, <1>7, <1>8

\* While the mutex is free, nobody builds; while a thread builds, nobody else does.
LEMMA OneBuilds ==
  ASSUME TypeOK
  PROVE  /\ mutex = NoSession =>
              \A t \in Thread : pc[t] \notin {"construct", "emplace"}
         /\ \A t, u \in Thread :
              /\ pc[t] \in {"construct", "emplace"}
              /\ pc[u] \in {"construct", "emplace"}
              => t = u
  BY RegistryAssumption DEF TypeOK, Thread

\* A new object is in the hands of the thread that built it.
LEMMA ConstructStep ==
  ASSUME RegistryInv, TypeOK', NEW t \in Thread, Construct(t)
  PROVE  /\ ConfigInv' /\ EntryInv' /\ HeldInv' /\ BuildInv' /\ FoundInv'
         /\ ClosedIsQuiet'
<1>0. PICK new : new = Len(objects) + 1
  OBVIOUS
<1>1. /\ UNCHANGED <<servers, asked>>
      /\ pc[t] = "construct" /\ pc' = [pc EXCEPT ![t] = "emplace"]
      /\ active' = [active EXCEPT ![t] = {new}]
  BY <1>0 DEF Construct, Goto, registry
<1>2. /\ new \notin DOMAIN objects
      /\ DOMAIN objects' = DOMAIN objects \cup {new}
      /\ \A o \in DOMAIN objects : objects'[o] = objects[o]
      /\ objects'[new] =
           [key |-> KeyOf(t), config |-> ParseOptions(asked[t].options),
            accepting |-> TRUE, closing |-> FALSE, writer |-> TRUE,
            handlers |-> 0, died |-> FALSE]
      /\ \A name \in Uncompared :
           ParseOptions(asked[t].options)[name] = Default
  BY <1>0, ConstructAdds DEF RegistryInv
<1>3. \A u \in Thread \ {t} : active'[u] = active[u] /\ pc'[u] = pc[u]
  BY <1>1 DEF RegistryInv, TypeOK
<1>4. active'[t] = {new} /\ pc'[t] = "emplace"
  BY <1>1 DEF RegistryInv, TypeOK
<1>5. \A o \in DOMAIN objects : Serving(o)' <=> Serving(o)
  BY <1>2 DEF Serving
<1>6. Serving(new)'
  BY <1>2 DEF Serving
<1>7. \A u \in Thread : active[u] \subseteq DOMAIN objects
  BY DEF RegistryInv, TypeOK
<1>8. ConfigInv' /\ ClosedIsQuiet'
  BY <1>2 DEF RegistryInv, ConfigInv, ClosedIsQuiet
<1>9. EntryInv'
  BY <1>1, <1>2, <1>3, <1>4, <1>5 DEF RegistryInv, EntryInv, TypeOK
<1>10. HeldInv'
  <2>1. \A u \in Thread \ {t} : active'[t] \cap active'[u] = {}
    BY <1>2, <1>3, <1>4, <1>7
  <2>2. QED
    BY <1>3, <1>4, <2>1 DEF RegistryInv, HeldInv
<1>11. BuildInv'
  <2>1. \A u \in Thread \ {t} : pc[u] \notin {"construct", "emplace"}
    BY <1>1, OneBuilds DEF RegistryInv
  <2>2. servers[KeyOf(t)] = NoServer
    BY <1>1 DEF RegistryInv, BuildInv
  <2>3. QED
    BY <1>1, <1>2, <1>3, <1>4, <1>6, <2>1, <2>2 DEF BuildInv, KeyOf
<1>12. FoundInv'
  <2>1. ASSUME NEW o \in DOMAIN objects, objects[o].writer
        PROVE  Registered(o)' \/ \E u \in Thread : o \in active'[u]
    <3>1. CASE Registered(o)
      BY <3>1, <1>1 DEF Registered
    <3>2. CASE \E u \in Thread : o \in active[u]
      <4>1. PICK u \in Thread : o \in active[u]
        BY <3>2
      <4>2. u # t
        BY <1>1, <4>1 DEF RegistryInv, HeldInv
      <4>3. QED
        BY <1>3, <4>1, <4>2
    <3>3. QED
      BY <2>1, <3>1, <3>2 DEF RegistryInv, FoundInv
  <2>2. QED
    BY <1>2, <1>4, <2>1 DEF FoundInv
<1>13. QED
  BY <1>8, <1>9, <1>10, <1>11, <1>12

\* The object goes from its builder's hands into the registry.
LEMMA EmplaceStep ==
  ASSUME RegistryInv, TypeOK', NEW t \in Thread, Emplace(t)
  PROVE  /\ ConfigInv' /\ EntryInv' /\ HeldInv' /\ BuildInv' /\ FoundInv'
         /\ ClosedIsQuiet'
<1>1. PICK o \in DOMAIN objects :
        /\ active[t] = {o} /\ Serving(o)
        /\ objects[o].key = KeyOf(t)
  BY DEF RegistryInv, BuildInv, Emplace
<1>2. /\ UNCHANGED objects /\ pc[t] = "emplace"
      /\ servers' = [servers EXCEPT ![KeyOf(t)] = o]
      /\ active' = [active EXCEPT ![t] = {}]
      /\ pc' = [pc EXCEPT ![t] = "idle"]
      /\ \A u \in Thread \ {t} : asked'[u] = asked[u]
  BY <1>1 DEF Emplace, End, Goto, RegistryInv, TypeOK
<1>3. \A u \in Thread \ {t} : active'[u] = active[u] /\ pc'[u] = pc[u]
  BY <1>2 DEF RegistryInv, TypeOK
<1>4. active'[t] = {} /\ pc'[t] = "idle"
  BY <1>2 DEF RegistryInv, TypeOK
<1>5. KeyOf(t) \in Key
  BY RegistryAssumption DEF RegistryInv, TypeOK, KeyOf
<1>6. /\ servers'[KeyOf(t)] = o /\ servers[KeyOf(t)] = NoServer
      /\ \A k \in Key \ {KeyOf(t)} : servers'[k] = servers[k]
  BY <1>2, <1>5 DEF RegistryInv, TypeOK, BuildInv
<1>7. \A any : Serving(any)' <=> Serving(any)
  BY <1>2 DEF Serving
<1>8. ConfigInv' /\ ClosedIsQuiet'
  BY <1>2 DEF RegistryInv, ConfigInv, ClosedIsQuiet
<1>9. \A u \in Thread : o \notin active'[u]
  BY <1>1, <1>3, <1>4 DEF RegistryInv, HeldInv
<1>10. EntryInv'
  BY <1>1, <1>2, <1>3, <1>4, <1>6, <1>7, <1>9 DEF RegistryInv, EntryInv
<1>11. HeldInv'
  BY <1>3, <1>4 DEF RegistryInv, HeldInv
<1>12. BuildInv'
  <2>1. \A u \in Thread \ {t} : pc[u] \notin {"construct", "emplace"}
    BY <1>2, OneBuilds DEF RegistryInv
  <2>2. QED
    BY <1>3, <1>4, <2>1 DEF BuildInv
<1>13. FoundInv'
  <2>1. Registered(o)'
    BY <1>5, <1>6 DEF Registered
  <2>2. ASSUME NEW other \in DOMAIN objects \ {o}, objects[other].writer
        PROVE  Registered(other)' \/ \E u \in Thread : other \in active'[u]
    <3>1. CASE Registered(other)
      <4>1. other # NoServer
        BY RegistryAssumption DEF RegistryInv, TypeOK
      <4>2. QED
        BY <3>1, <4>1, <1>6 DEF Registered
    <3>2. CASE \E u \in Thread : other \in active[u]
      BY <3>2, <1>1, <1>3
    <3>3. QED
      BY <2>2, <3>1, <3>2 DEF RegistryInv, FoundInv
  <2>3. QED
    BY <1>2, <2>1, <2>2 DEF FoundInv
<1>14. QED
  BY <1>8, <1>10, <1>11, <1>12, <1>13

\* Objects leave the registry for the hands of the thread that will close them.
LEMMA EraseStep ==
  ASSUME RegistryInv, TypeOK', NEW t \in Thread, NEW keys \in SUBSET Key,
         UNCHANGED objects, mutex = NoSession,
         pc[t] \in {"stop", "stop_all"}, pc' = [pc EXCEPT ![t] = "close"],
         \A k \in Key :
           servers'[k] = IF k \in keys THEN NoServer ELSE servers[k],
         active' = [active EXCEPT ![t] = {servers[k] : k \in keys} \ {NoServer}]
  PROVE  /\ ConfigInv' /\ EntryInv' /\ HeldInv' /\ BuildInv' /\ FoundInv'
         /\ ClosedIsQuiet'
<1>1. \A u \in Thread \ {t} : active'[u] = active[u] /\ pc'[u] = pc[u]
  BY DEF RegistryInv, TypeOK
<1>2. /\ active'[t] = {servers[k] : k \in keys} \ {NoServer}
      /\ active[t] = {} /\ pc'[t] = "close"
  BY DEF RegistryInv, TypeOK, HeldInv
<1>3. \A any : Serving(any)' <=> Serving(any)
  BY DEF Serving
<1>4. ConfigInv' /\ ClosedIsQuiet'
  BY DEF RegistryInv, ConfigInv, ClosedIsQuiet
<1>5. \A k \in Key \ keys : servers[k] # NoServer => servers[k] \notin active'[t]
  BY <1>2 DEF RegistryInv, EntryInv
<1>6. EntryInv'
  BY <1>1, <1>3, <1>5 DEF RegistryInv, EntryInv
<1>7. HeldInv'
  <2>1. \A u \in Thread \ {t} : active'[t] \cap active'[u] = {}
    BY <1>1, <1>2 DEF RegistryInv, EntryInv
  <2>2. QED
    BY <1>1, <1>2, <2>1 DEF RegistryInv, HeldInv
<1>8. BuildInv'
  <2>1. \A u \in Thread : pc[u] \notin {"construct", "emplace"}
    BY OneBuilds DEF RegistryInv
  <2>2. QED
    BY <1>1, <1>2, <2>1 DEF BuildInv
<1>9. FoundInv'
  <2>1. ASSUME NEW o \in DOMAIN objects, objects[o].writer
        PROVE  Registered(o)' \/ \E u \in Thread : o \in active'[u]
    <3>1. CASE Registered(o)
      <4>1. PICK k \in Key : servers[k] = o
        BY <3>1 DEF Registered
      <4>2. o # NoServer
        BY RegistryAssumption DEF RegistryInv, TypeOK
      <4>3. CASE k \in keys
        BY <1>2, <4>1, <4>2, <4>3
      <4>4. CASE k \notin keys
        BY <4>1, <4>4 DEF Registered
      <4>5. QED
        BY <4>3, <4>4
    <3>2. CASE \E u \in Thread : o \in active[u]
      BY <3>2, <1>1, <1>2
    <3>3. QED
      BY <2>1, <3>1, <3>2 DEF RegistryInv, FoundInv
  <2>2. QED
    BY <2>1 DEF FoundInv
<1>10. QED
  BY <1>4, <1>6, <1>7, <1>8, <1>9

\* Close changes an object that is in its thread's hands, and so neither a
\* registered one nor one that is being built.
LEMMA CloseStep ==
  ASSUME RegistryInv, TypeOK', NEW t \in Thread, StopListening(t) \/ Reset(t)
  PROVE  /\ ConfigInv' /\ EntryInv' /\ HeldInv' /\ BuildInv' /\ FoundInv'
         /\ ClosedIsQuiet'
<1>1. /\ UNCHANGED <<servers, asked>> /\ pc[t] \in {"close", "join"}
      /\ pc' \in {[pc EXCEPT ![t] = "close"], [pc EXCEPT ![t] = "join"]}
  BY DEF StopListening, Reset, Goto, registry
<1>2. PICK o \in active[t] :
        /\ Touches(o) /\ ~objects'[o].accepting
        /\ \/ /\ active' = active
              /\ objects'[o].writer = objects[o].writer
              /\ objects'[o].handlers = objects[o].handlers
           \/ /\ active' = [active EXCEPT ![t] = active[t] \ {o}]
              /\ ~objects'[o].writer /\ objects'[o].handlers = 0
  <2>1. CASE StopListening(t)
    BY <2>1, StopListeningTouches DEF RegistryInv, StopListening
  <2>2. CASE Reset(t)
    BY <2>2, ResetTouches DEF RegistryInv
  <2>3. QED
    BY <2>1, <2>2
<1>3. \A u \in Thread \ {t} : active'[u] = active[u] /\ pc'[u] = pc[u]
  BY <1>1, <1>2 DEF RegistryInv, TypeOK
<1>4. /\ active'[t] \subseteq active[t] /\ active[t] \subseteq active'[t] \cup {o}
      /\ o \notin active'[t] => ~objects'[o].writer
      /\ pc'[t] \in {"close", "join"}
  BY <1>1, <1>2 DEF RegistryInv, TypeOK
<1>5. \A other \in DOMAIN objects \ {o} :
        objects'[other] = objects[other] /\ (Serving(other)' <=> Serving(other))
  BY <1>2 DEF Touches, Serving
<1>6. ConfigInv'
  BY <1>2, <1>5 DEF RegistryInv, ConfigInv, Touches
<1>7. \A k \in Key : servers[k] # o
  <2>1. o \in DOMAIN objects /\ objects \in Seq(Object)
    BY <1>2 DEF RegistryInv, TypeOK, Touches
  <2>2. o # NoServer
    BY <2>1, RegistryAssumption
  <2>3. QED
    BY <2>2 DEF RegistryInv, EntryInv
<1>8. EntryInv'
  <2>1. ASSUME NEW k \in Key, servers[k] # NoServer
        PROVE  /\ Serving(servers[k])'
               /\ objects'[servers[k]].key = k
               /\ \A u \in Thread : servers[k] \notin active'[u]
    <3>1. servers[k] \in DOMAIN objects \ {o} /\ servers'[k] = servers[k]
      BY <2>1, <1>1, <1>7 DEF RegistryInv, TypeOK
    <3>2. /\ Serving(servers[k]) /\ objects[servers[k]].key = k
          /\ \A u \in Thread : servers[k] \notin active[u]
      BY <2>1 DEF RegistryInv, EntryInv
    <3>3. objects'[servers[k]] = objects[servers[k]]
      BY <3>1, <1>5
    <3>4. Serving(servers[k])'
      BY <3>1, <3>2, <3>3 DEF Serving
    <3>5. QED
      BY <3>2, <3>3, <3>4, <1>3, <1>4
  <2>2. QED
    BY <1>1, <2>1 DEF EntryInv
<1>9. HeldInv'
  BY <1>3, <1>4 DEF RegistryInv, HeldInv
<1>10. BuildInv'
  <2>1. ASSUME NEW u \in Thread, pc[u] = "emplace"
        PROVE  \E new \in DOMAIN objects :
                 /\ active'[u] = {new} /\ Serving(new)'
                 /\ objects'[new].key = KeyOf(u)
                 /\ objects'[new].config = ParseOptions(asked[u].options)
    <3>1. u # t
      BY <2>1, <1>1
    <3>2. PICK new \in DOMAIN objects :
            /\ active[u] = {new} /\ Serving(new)
            /\ objects[new].key = KeyOf(u)
            /\ objects[new].config = ParseOptions(asked[u].options)
      BY <2>1 DEF RegistryInv, BuildInv
    <3>3. new # o
      BY <3>1, <3>2, <1>2 DEF RegistryInv, HeldInv
    <3>4. QED
      BY <3>1, <3>2, <3>3, <1>3, <1>5
  <2>2. QED
    BY <1>1, <1>2, <1>3, <1>4, <2>1 DEF RegistryInv, BuildInv, KeyOf, Touches
<1>11. FoundInv'
  <2>1. ASSUME NEW other \in DOMAIN objects \ {o}, objects[other].writer
        PROVE  Registered(other)' \/ \E u \in Thread : other \in active'[u]
    BY <2>1, <1>1, <1>3, <1>4 DEF RegistryInv, FoundInv, Registered
  <2>2. QED
    BY <1>2, <1>4, <1>5, <2>1 DEF FoundInv, Touches
<1>12. ClosedIsQuiet'
  <2>1. o \in DOMAIN objects /\ DOMAIN objects' = DOMAIN objects
    BY <1>2 DEF Touches
  <2>2. ~objects[o].writer => objects[o].handlers = 0
    BY <2>1 DEF RegistryInv, ClosedIsQuiet
  <2>3. ~objects'[o].writer => objects'[o].handlers = 0
    BY <1>2, <2>2
  <2>4. \A other \in DOMAIN objects \ {o} :
          ~objects'[other].writer =>
            ~objects'[other].accepting /\ objects'[other].handlers = 0
    BY <1>5 DEF RegistryInv, ClosedIsQuiet
  <2>5. QED
    BY <1>2, <2>1, <2>3, <2>4 DEF ClosedIsQuiet
<1>13. QED
  BY <1>6, <1>8, <1>9, <1>10, <1>11, <1>12

----------------------------------------------------------------------------
(* The invariant.                                                          *)

LEMMA RegistryInit == Init => RegistryInv
<1> SUFFICES ASSUME Init PROVE RegistryInv
  OBVIOUS
<1>1. TypeOK
  BY TypeInit
<1>2. DOMAIN objects = {}
  BY DEF Init
<1>3. AskedInv /\ ConfigInv
  BY <1>2 DEF Init, AskedInv, ConfigInv
<1>4. EntryInv /\ HeldInv
  BY DEF Init, EntryInv, HeldInv
<1>5. BuildInv
  BY DEF Init, BuildInv
<1>6. FoundInv /\ ClosedIsQuiet
  BY <1>2 DEF FoundInv, ClosedIsQuiet
<1>7. QED
  BY <1>1, <1>3, <1>4, <1>5, <1>6 DEF RegistryInv

LEMMA RegistryStep == RegistryInv /\ [Next]_vars => RegistryInv'
<1> SUFFICES ASSUME RegistryInv, [Next]_vars PROVE RegistryInv'
  OBVIOUS
<1> DEFINE Rest == ConfigInv /\ EntryInv /\ HeldInv /\ BuildInv /\ FoundInv
                   /\ ClosedIsQuiet
<1>0. TypeOK /\ AskedInv /\ TypeOK' /\ AskedInv'
  BY TypeStep DEF RegistryInv
<1>1. ASSUME NEW t \in Session, Serve(t) \/ Stop(t)
      PROVE  Rest'
  <2>1. /\ t \in Thread /\ pc[t] = "idle"
        /\ UNCHANGED <<servers, objects, active>>
    BY <1>1 DEF Serve, Stop, Begin, Thread, registry
  <2>2. /\ \A u \in Thread \ {t} : pc'[u] = pc[u] /\ asked'[u] = asked[u]
        /\ pc'[t] \in {"idle", "start", "stop"}
    BY <1>0, <1>1, <2>1 DEF Serve, Stop, Begin, Goto, TypeOK
  <2>3. active[t] = {}
    BY <2>1 DEF RegistryInv, HeldInv
  <2>4. QED
    BY <1>0, <2>1, <2>2, <2>3, QuietStep
<1>2. ASSUME Destroy PROVE  Rest'
  <2>1. /\ Teardown \in Thread /\ pc[Teardown] = "idle"
        /\ UNCHANGED <<servers, objects, active, asked>>
        /\ pc' = [pc EXCEPT ![Teardown] = "stop_all"]
    BY <1>2 DEF Destroy, Thread, registry, Goto
  <2>2. /\ \A u \in Thread \ {Teardown} : pc'[u] = pc[u] /\ asked'[u] = asked[u]
        /\ pc'[Teardown] = "stop_all"
    BY <1>0, <2>1 DEF TypeOK
  <2>3. active[Teardown] = {}
    BY <2>1 DEF RegistryInv, HeldInv
  <2>4. QED
    BY <1>0, <2>1, <2>2, <2>3, QuietStep
<1>3. ASSUME NEW t \in Thread, Progress(t)
      PROVE  Rest'
  <2>1. ASSUME NEW how \in Answers, End(t, how), active[t] = {},
               UNCHANGED <<servers, objects, active>>
        PROVE  Rest'
    <3>1. /\ \A u \in Thread \ {t} : pc'[u] = pc[u] /\ asked'[u] = asked[u]
          /\ pc'[t] = "idle"
      BY <1>0, <2>1, EndTypes
    <3>2. QED
      BY <1>0, <2>1, <3>1, QuietStep
  <2>2. CASE FindExisting(t) \/ ConstructFails(t) \/ NotFound(t) \/ Closed(t)
    <3>1. active[t] = {} /\ UNCHANGED <<servers, objects, active>>
      BY <2>2 DEF FindExisting, ConstructFails, NotFound, Closed, registry,
                  RegistryInv, HeldInv
    <3>2. \E how \in Answers : End(t, how)
      BY <2>2 DEF FindExisting, ConstructFails, NotFound, Closed, Answers
    <3>3. QED
      BY <2>1, <3>1, <3>2
  <2>3. CASE FindNone(t)
    <3>1. /\ pc[t] = "start" /\ servers[KeyOf(t)] = NoServer
          /\ UNCHANGED <<servers, objects, active, asked>>
          /\ pc' = [pc EXCEPT ![t] = "construct"]
      BY <2>3 DEF FindNone, Goto
    <3>2. /\ \A u \in Thread \ {t} : pc'[u] = pc[u] /\ asked'[u] = asked[u]
          /\ pc'[t] = "construct"
      BY <1>0, <3>1 DEF TypeOK
    <3>3. active[t] = {}
      BY <3>1 DEF RegistryInv, HeldInv
    <3>4. QED
      BY <1>0, <3>1, <3>2, <3>3, QuietStep
  <2>4. CASE Construct(t)
    BY <1>0, <2>4, ConstructStep
  <2>5. CASE Emplace(t)
    BY <1>0, <2>5, EmplaceStep
  <2>6. CASE Erase(t)
    <3>1. KeyOf(t) \in Key /\ servers[KeyOf(t)] # NoServer
      BY <1>0, <2>6, RegistryAssumption DEF Erase, KeyOf, TypeOK
    <3>2. /\ {KeyOf(t)} \in SUBSET Key
          /\ \A k \in Key :
               servers'[k] = IF k \in {KeyOf(t)} THEN NoServer ELSE servers[k]
          /\ active' = [active EXCEPT
               ![t] = {servers[k] : k \in {KeyOf(t)}} \ {NoServer}]
      <4>1. {servers[k] : k \in {KeyOf(t)}} \ {NoServer} = {servers[KeyOf(t)]}
        BY <3>1
      <4>2. QED
        BY <1>0, <2>6, <3>1, <4>1 DEF Erase, TypeOK
    <3>3. /\ UNCHANGED objects /\ mutex = NoSession
          /\ pc[t] \in {"stop", "stop_all"} /\ pc' = [pc EXCEPT ![t] = "close"]
      BY <2>6 DEF Erase, Goto
    <3>4. QED
      BY <1>0, <3>2, <3>3, EraseStep
  <2>7. CASE EraseAll(t)
    <3>1. /\ \A k \in Key :
               servers'[k] = IF k \in Key THEN NoServer ELSE servers[k]
          /\ active' = [active EXCEPT
               ![t] = {servers[k] : k \in Key} \ {NoServer}]
          /\ UNCHANGED objects /\ mutex = NoSession
          /\ pc[t] \in {"stop", "stop_all"} /\ pc' = [pc EXCEPT ![t] = "close"]
      BY <2>7 DEF EraseAll, Goto
    <3>2. QED
      BY <1>0, <3>1, EraseStep
  <2>8. CASE StopListening(t) \/ Reset(t)
    BY <1>0, <2>8, CloseStep
  <2>9. QED
    BY <1>3, <2>2, <2>3, <2>4, <2>5, <2>6, <2>7, <2>8 DEF Progress
<1>4. ASSUME NEW o \in DOMAIN objects, Listens(o)
      PROVE  Rest'
  BY <1>0, <1>4, ListensStep
<1>5. ASSUME UNCHANGED vars PROVE  Rest'
  BY <1>5 DEF vars, registry, control, RegistryInv, ConfigInv, EntryInv, HeldInv,
              BuildInv, FoundInv, ClosedIsQuiet, Serving, Registered, KeyOf
<1>6. Rest'
  BY <1>1, <1>2, <1>3, <1>4, <1>5 DEF Next, Listens
<1>7. QED
  BY <1>0, <1>6 DEF RegistryInv

LEMMA RegistryInvariant == Spec => []RegistryInv
  BY RegistryInit, RegistryStep, PTL DEF Spec

----------------------------------------------------------------------------
(* The theorems.                                                           *)

\* Types, and the mutex is held exactly while an object is being built.
THEOREM RegistryTypeCorrect == Spec => []TypeOK
  BY RegistryInvariant, PTL DEF RegistryInv

\* What was closed serves nobody, whatever the number of sessions and requests.
THEOREM RegistryClosedIsQuiet == Spec => []ClosedIsQuiet
  BY RegistryInvariant, PTL DEF RegistryInv

\* Every listener with a connection is in the registry under its own key or in
\* the hands of exactly one thread.
THEOREM RegistryListenersOwned == Spec => []ListenersOwned
<1>1. RegistryInv => ListenersOwned
  <2> SUFFICES ASSUME RegistryInv, NEW o \in DOMAIN objects, objects[o].writer
               PROVE  /\ Registered(o) <=> \A t \in Thread : o \notin active[t]
                      /\ Registered(o) => servers[objects[o].key] = o
                      /\ \A t, u \in Thread : o \in active[t] \cap active[u] => t = u
    BY DEF ListenersOwned
  <2>1. o # NoServer
    BY RegistryAssumption DEF RegistryInv, TypeOK
  <2>2. Registered(o) =>
          /\ servers[objects[o].key] = o
          /\ \A t \in Thread : o \notin active[t]
    BY <2>1 DEF Registered, RegistryInv, EntryInv
  <2>3. Registered(o) \/ \E t \in Thread : o \in active[t]
    BY DEF RegistryInv, FoundInv
  <2>4. \A t, u \in Thread : o \in active[t] \cap active[u] => t = u
    BY DEF RegistryInv, HeldInv
  <2>5. QED
    BY <2>2, <2>3, <2>4
<1>2. QED
  BY <1>1, RegistryInvariant, PTL

\* What holds of the object a statement that returns a URL names: it is
\* registered, it serves, and it has the configuration the statement asked for.
LEMMA ReturnedObject ==
  ASSUME RegistryInv, [Next]_vars, NEW t \in Session, Returns(t)
  PROVE  LET o == servers'[KeyOf(t)]
         IN /\ o # NoServer
            /\ objects'[o].accepting \/ objects'[o].died
            /\ objects'[o].config = ParseOptions(asked[t].options)
<1>1. /\ TypeOK /\ t \in Thread
      /\ KeyOf(t) \in Key /\ pc[t] # "idle" /\ pc'[t] = "idle"
      /\ answer'[t] = "url"
  BY RegistryAssumption DEF RegistryInv, TypeOK, KeyOf, Thread, Returns
<1>2. FindExisting(t) \/ Emplace(t)
  <2>1. ASSUME NEW u \in Session, Serve(u) \/ Stop(u) PROVE FALSE
    BY <1>1, <2>1 DEF Serve, Stop, Begin, Goto, TypeOK, Thread
  <2>2. ASSUME Destroy PROVE FALSE
    BY <1>1, <2>2 DEF Destroy
  <2>3. ASSUME NEW o \in DOMAIN objects, Listens(o) PROVE FALSE
    BY <1>1, <2>3 DEF Listens, AcceptRequest, FinishRequest, ListenEnds, control
  <2>4. ~UNCHANGED vars
    BY <1>1 DEF vars, control
  <2>5. PICK u \in Thread : Progress(u)
    BY <2>1, <2>2, <2>3, <2>4 DEF Next, Listens
  <2>6. u = t
    BY <1>1, <2>5 DEF Progress, FindExisting, FindNone, ConstructFails, Construct,
       Emplace, NotFound, Erase, EraseAll, StopListening, Reset, Closed, End, Goto,
       TypeOK
  <2>7. ~(FindNone(t) \/ Construct(t) \/ Erase(t) \/ EraseAll(t)
          \/ StopListening(t) \/ Reset(t))
    BY <1>1 DEF FindNone, Construct, Erase, EraseAll, StopListening, Reset, Goto,
       TypeOK
  <2>8. ~(ConstructFails(t) \/ NotFound(t) \/ Closed(t))
    BY <1>1 DEF ConstructFails, NotFound, Closed, End, TypeOK
  <2>9. QED
    BY <2>5, <2>6, <2>7, <2>8 DEF Progress
<1>3. CASE FindExisting(t)
  <2> DEFINE o == servers[KeyOf(t)]
             asks == ParseOptions(asked[t].options)
  <2>1. o # NoServer /\ UNCHANGED <<servers, objects>> /\ pc[t] = "start"
    BY <1>3 DEF FindExisting, registry
  <2>2. SameOptions(objects[o].config, asks)
    <3>1. ~End(t, "mismatch")
      BY <1>1 DEF End, TypeOK
    <3>2. QED
      BY <1>3, <3>1 DEF FindExisting
  <2>3. o \in DOMAIN objects /\ objects[o] \in Object
    BY <1>1, <2>1 DEF TypeOK
  <2>4. asks \in Config /\ \A name \in Uncompared : asks[name] = Default
    <3>1. asked[t].options \in Options
      BY <1>1 DEF TypeOK
    <3>2. Accepts(asked[t].options)
      BY <1>1, <2>1 DEF RegistryInv, AskedInv
    <3>3. QED
      BY <3>1, <3>2, ParsedType
  <2>5. objects[o].config \in Config
    BY <2>3 DEF Object
  <2>6. \A name \in Uncompared : objects[o].config[name] = Default
    BY <2>3 DEF RegistryInv, ConfigInv
  <2>7. \A name \in Option : objects[o].config[name] = asks[name]
    BY <2>2, <2>4, <2>6 DEF SameOptions
  <2>8. objects[o].config = asks
    <3> HIDE DEF o, asks
    <3>1. QED
      BY <2>4, <2>5, <2>7 DEF Config
  <2>9. objects[o].accepting \/ objects[o].died
    BY <1>1, <2>1 DEF RegistryInv, EntryInv, Serving
  <2>10. QED
    BY <2>1, <2>8, <2>9
<1>4. CASE Emplace(t)
  <2>1. PICK o \in DOMAIN objects :
          /\ active[t] = {o} /\ Serving(o)
          /\ objects[o].config = ParseOptions(asked[t].options)
    BY <1>1, <1>4 DEF Emplace, RegistryInv, BuildInv
  <2>2. servers'[KeyOf(t)] = o /\ UNCHANGED objects
    BY <1>1, <1>4, <2>1 DEF Emplace, TypeOK
  <2>3. o # NoServer
    BY <1>1, <2>1, RegistryAssumption DEF TypeOK
  <2>4. QED
    BY <2>1, <2>2, <2>3 DEF Serving
<1>5. QED
  BY <1>2, <1>3, <1>4

\* A URL that is returned is listened to, unless its listen thread ended.
THEOREM RegistryUrlListens == Spec => UrlListens
<1>1. RegistryInv /\ [Next]_vars =>
        [\A t \in Session : Returns(t) =>
           LET o == servers'[KeyOf(t)]
           IN /\ o # NoServer
              /\ objects'[o].accepting \/ objects'[o].died]_vars
  BY ReturnedObject
<1>2. QED
  BY <1>1, RegistryInvariant, PTL DEF Spec, UrlListens

\* A statement that returns a URL has the configuration it asked for.
THEOREM RegistryServedAsAsked == Spec => ServedAsAsked
<1>1. RegistryInv /\ [Next]_vars =>
        [\A t \in Session : Returns(t) =>
           LET o == servers'[KeyOf(t)]
           IN /\ o # NoServer
              /\ objects'[o].config = ParseOptions(asked[t].options)]_vars
  BY ReturnedObject
<1>2. QED
  BY <1>1, RegistryInvariant, PTL DEF Spec, ServedAsAsked

=============================================================================
