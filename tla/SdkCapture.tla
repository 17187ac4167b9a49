----------------------------- MODULE SdkCapture -----------------------------
(***************************************************************************)
(* What one hit of the Node agent captures: capturePaused                  *)
(* (sdk-node/src/capture.ts) reads the paused program's objects through    *)
(* the inspector, breadth first and within a budget; paths and expressions *)
(* (safe-values.ts, safe-expression.ts) are looked up in the copy.  What a *)
(* snapshot shows of it is in SdkSnapshot.                                 *)
(*                                                                         *)
(* An Object is a value as the inspector mentions it: a remote object,     *)
(* known by its objectId.  The objectIds are V8's own and it mints one for *)
(* every mention, so that in the programs V8 shows each Object is the      *)
(* value of one property and a cycle of the program is an endless path of  *)
(* Objects; the copy treats an id that comes again as the code does.  Of   *)
(* the values that have ids, functions and symbols are read as objects are.*)
(*                                                                         *)
(* A heap gives every scope and Object its properties in order, as pairs   *)
(* of a key and a value; a value is a Scalar (an accessor counts as one,   *)
(* its text is fixed) or an Object.  The k-th element of an array has key  *)
(* k.  Scalars are told apart by the place they were read from.            *)
(***************************************************************************)
EXTENDS Integers, Sequences, FiniteSets, SequencesExt

CONSTANTS
    Object, Array,         \* mentions of objects, and which are arrays
    Scope,                 \* the scopes of the program
    Key, Scalar,           \* names of properties, and values that are no objects
    Heaps,                 \* the programs that may be paused
    FrameScopes,           \* for each frame its scopes, innermost first
    Redactions,            \* sets of keys that may be configured as redacted
    WatchPaths,            \* paths a probe may ask for
    Depths,                \* values of the serializer's maxDepth
    MaxArray, MaxProps,
    Budgets                \* values of maxObjects of capturePaused

ASSUME CaptureLimits ==
    /\ Depths \subseteq Nat /\ MaxArray \in Nat /\ MaxProps \in Nat /\ Budgets \subseteq Nat

\* A property has one value; elements are counted from 1.  Of the frames at least
\* the innermost is kept (maxStackFrames).
ASSUME ProgramShape ==
    /\ Array \subseteq Object /\ Scalar \notin Object /\ Scope \cap Object = {}
    /\ FrameScopes \in Seq(Seq(Scope)) /\ FrameScopes # <<>>
    /\ DOMAIN FrameScopes \cap Object = {}
    /\ Heaps \subseteq [Object \cup Scope -> Seq([key : Key, val : Object \cup {Scalar}])]
    /\ \A heap \in Heaps, id \in Object \cup Scope : \A i, j \in DOMAIN heap[id] :
          heap[id][i].key = heap[id][j].key => i = j
    /\ WatchPaths \subseteq Seq(Key)

VARIABLES
    program,  \* the paused program, the redacted keys, the path asked for, the limits
    capture   \* the capture under way

captureVars == <<program, capture>>

Frame == DOMAIN FrameScopes
Props(id) == program.heap[id]
Keys(props) == {props[i].key : i \in DOMAIN props}
Only(props, keys) ==
    FoldLeft(LAMBDA s, p : IF p.key \in keys THEN Append(s, p) ELSE s, <<>>, props)
Redacted(key) == key \in program.redacted

\* What a property of the copy holds.  "empty" is a container of its own that is
\* never filled, "undefined" stands in for a redacted value.
Value(t, of) == [t |-> t, of |-> of]
Truncated == Value("truncated", <<>>)
Undefined == Value("undefined", <<>>)

Budget == IF program.budget > 1 THEN program.budget ELSE 1

SerializerDepth == program.depth

\* MUTANT: the paths that conditions, watches and templates name do not count.
SerializerDepthOnly == SerializerDepth

\* How deep to read: as deep as a snapshot shows, or as the longest path needs.
CaptureDepth == IF Len(program.watch) > SerializerDepth THEN Len(program.watch)
                ELSE SerializerDepth

\* The scopes of all frames are queued first, as far as the budget goes.
ScopeTasks ==
    LET of(f) == [j \in DOMAIN FrameScopes[f] |->
                    [depth |-> 0, id |-> FrameScopes[f][j], into |-> f, outer |-> j > 1]]
        all == FlattenSeq([f \in Frame |-> of(f)])
    IN  SubSeq(all, 1, IF Len(all) < Budget THEN Len(all) ELSE Budget)

CaptureInit ==
    /\ program \in [heap : Heaps, redacted : Redactions, watch : WatchPaths,
                  depth : Depths, budget : Budgets]
    /\ capture = [tasks |-> ScopeTasks, made |-> {}, visited |-> 0, failed |-> FALSE,
                  own |-> [c \in Frame \cup Object |-> <<>>], done |-> FALSE]

-----------------------------------------------------------------------------
\* selectedDescriptors: one property more than is shown, so that the serializer
\* can tell that there are more.
Selected(id, props) ==
    IF id \in Array THEN Only(props, 1 .. MaxArray)
    ELSE SubSeq(props, 1, IF Len(props) <= MaxProps THEN Len(props) ELSE MaxProps + 1)

\* MUTANT: an object that is left out looks like an object without properties.
CopiedUnmarked(v, made, deeper, room) ==
    Value(IF v \in made \/ (deeper /\ room) THEN "object" ELSE "empty", v)

\* An id that came before (materializedObjects) has its container; a new one beyond
\* the budget is marked, one beyond the depth gets a container that stays empty.
Copied(v, made, deeper, room) ==
    CASE v \in made \/ (deeper /\ room) -> Value("object", v)
      [] v \notin made /\ deeper /\ ~room -> Truncated
      [] OTHER -> Value("empty", v)

Owns(c, into, key) == key \in Keys(c.own[into])

\* One property of the object of task t, given the capture c so far.  A redacted
\* element leaves a hole.
ReadProperty(t, c, p) ==
    LET put(x) == [c EXCEPT !.own[t.into] = Append(@, [key |-> p.key, val |-> x])]
        deeper == t.depth < CaptureDepth
        room == c.visited + Len(c.tasks) < Budget
        copy == put(Copied(p.val, c.made, deeper, room))
    IN  CASE t.outer /\ Owns(c, t.into, p.key) -> c
          [] ~(t.outer /\ Owns(c, t.into, p.key)) /\ Redacted(p.key) ->
               IF t.into \in Array THEN c ELSE put(Undefined)
          [] OTHER ->
               IF p.val = Scalar THEN put(Value("scalar", <<t.id, p.key>>))
               ELSE IF p.val \in c.made \/ ~deeper \/ ~room THEN copy
               ELSE [copy EXCEPT !.made = @ \cup {p.val},
                                 !.tasks = Append(@, [depth |-> t.depth + 1, id |-> p.val,
                                                      into |-> p.val, outer |-> FALSE])]

Taken == [capture EXCEPT !.tasks = Tail(@), !.visited = @ + 1]

\* The inspector answers getProperties for the next task ...
PropertiesRead ==
    /\ capture.tasks # <<>>
    /\ LET t == Head(capture.tasks)
       IN  capture' = FoldLeft(LAMBDA c, p : ReadProperty(t, c, p), Taken, Selected(t.id, Props(t.id)))
    /\ UNCHANGED program

\* ... or fails, which spoils the capture but does not end it.
PropertiesFailed ==
    /\ capture.tasks # <<>>
    /\ capture' = [Taken EXCEPT !.failed = TRUE]
    /\ UNCHANGED program

\* finish: the program is resumed and the hit processed, unless a read failed.
FinishCapture ==
    /\ capture.tasks = <<>> /\ ~capture.done
    /\ capture' = [capture EXCEPT !.done = TRUE]
    /\ UNCHANGED program

CaptureNext == PropertiesRead \/ PropertiesFailed \/ FinishCapture
CaptureSpec == CaptureInit /\ [][CaptureNext]_captureVars

-----------------------------------------------------------------------------
(* Paths into the copy.  Here and below, own gives the properties of every *)
(* container.                                                              *)
Has(props, key) == key \in Keys(props)
Get(props, key) == props[CHOOSE i \in DOMAIN props : props[i].key = key].val

\* A container that was never read has no properties.
PropsOf(own, x) == IF x.t = "empty" THEN <<>> ELSE own[x.of]

Missing == Value("missing", <<>>)
RedactedPath == Value("redacted", <<>>)

\* What a segment leads to: own data properties of containers only.
Descend(own, x, key) ==
    IF x.t \in {"object", "empty"} /\ Has(PropsOf(own, x), key) THEN Get(PropsOf(own, x), key)
    ELSE Missing

\* resolveDotPath of a condition, a watch, a metric or a template.
ResolveDotPath(own, path) ==
    FoldLeft(LAMBDA x, key : IF x.t \in {"truncated", "missing"} THEN x ELSE Descend(own, x, key),
             Value("object", 1), path)

\* resolvePath of a reference in an expression looks at the key first.
ResolvePath(own, path) ==
    LET Segment(x, key) ==
          IF x.t \in {"missing", "redacted", "ended"} THEN x
          ELSE IF Redacted(key) THEN RedactedPath
          ELSE IF x.t = "truncated" THEN Value("ended", <<>>)
          ELSE Descend(own, x, key)
        last == FoldLeft(Segment, Value("object", 1), path)
    IN  IF last.t = "ended" THEN Truncated ELSE last

-----------------------------------------------------------------------------
(* Properties *)

\* What the program really holds: every frame's bindings, those of inner scopes
\* first and hiding the others of their names, and the properties of every
\* Object.  Of each scope and Object the sequence holds[id] of properties counts.
Really(id, p) == [key |-> p.key,
                  val |-> IF Redacted(p.key) THEN Undefined
                          ELSE IF p.val = Scalar THEN Value("scalar", <<id, p.key>>)
                          ELSE Value("object", p.val)]
Real(id, props) ==
    LET kept == Only(props, Keys(props) \ IF id \in Array THEN program.redacted ELSE {})
    IN  [i \in DOMAIN kept |-> Really(id, kept[i])]
Hidden(f, j) == UNION {Keys(Props(FrameScopes[f][i])) : i \in 1 .. (j - 1)}
Bindings(f, j, holds) ==
    LET id == FrameScopes[f][j] IN Real(id, Only(holds[id], Key \ Hidden(f, j)))
OwnOf(holds) ==
    [c \in Frame \cup Object |->
        IF c \in Object THEN Real(c, holds[c])
        ELSE FlattenSeq([j \in DOMAIN FrameScopes[c] |-> Bindings(c, j, holds)])]
RealOwn == OwnOf(program.heap)

\* The same with what the limits on properties and elements leave of it.
ReadableOwn == OwnOf([id \in Object \cup Scope |-> Selected(id, Props(id))])

Captured == capture.done /\ ~capture.failed
Exhausted == capture.visited >= Budget

\* A path that a condition, a watch or an expression names leads to what it leads
\* to in the program, however deep, or nowhere if the limits on properties and
\* elements leave that out, unless the budget ends before.
PathsAreReached ==
    LET agree(got, want) == got = want \/ (got = Truncated /\ Exhausted)
    IN  Captured =>
          /\ agree(ResolveDotPath(capture.own, program.watch),
                   ResolveDotPath(ReadableOwn, program.watch))
          /\ agree(ResolvePath(capture.own, program.watch),
                   ResolvePath(ReadableOwn, program.watch))
=============================================================================
