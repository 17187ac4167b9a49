---------------------------- MODULE SdkSnapshot ----------------------------
(***************************************************************************)
(* The tree of a snapshot: serialize (sdk-node/src/serializer.ts) shows    *)
(* the copy that SdkCapture has made, down to a depth and with marks for   *)
(* what it leaves out.                                                     *)
(***************************************************************************)
EXTENDS SdkCapture

CONSTANTS
    Function,   \* the Objects that mention a function
    Identity    \* for each Object what it mentions

ASSUME MentionShape ==
    Function \subseteq Object \ Array /\ DOMAIN Identity = Object

Mark(v) == [t |-> "truncated", v |-> v]
Node(t, c, more) == [t |-> t, c |-> c, more |-> more]
Least(m, n) == IF m < n THEN m ELSE n

\* frameLocals: a frame none of whose scopes is within the budget is marked.
FrameValue(f) ==
    IF FrameScopes[f] = <<>> \/ \E i \in DOMAIN ScopeTasks : ScopeTasks[i].into = f
    THEN Value("object", f) ELSE Truncated

\* A container that was never read has no length.
LengthOf(x) == IF x.t = "empty" \/ Props(x.of) = <<>> THEN 0 ELSE Last(Props(x.of)).key

\* serializeValue, with its rules in their order.  The containers are told apart
\* by who[x.of]; the copy has one for each Object.
RECURSIVE SerializeValue(_, _, _, _, _)
SerializeValue(own, who, x, depth, ancestors) ==
    LET below(y) == SerializeValue(own, who, y, depth + 1, ancestors \cup {who[x.of]})
        props == PropsOf(own, x)
        keys == SubSeq(props, 1, Least(Len(props), MaxProps))
    IN  IF x.t = "truncated" THEN Mark("props")
        ELSE IF depth > SerializerDepth THEN Mark("depth")
        ELSE IF x.t = "scalar" THEN Node("scalar", x.of, FALSE)
        ELSE IF x.t \in {"undefined", "missing"} THEN Mark("unsupported")
        ELSE IF x.t = "function" THEN Node("fn", <<>>, FALSE)
        ELSE IF x.t = "object" /\ who[x.of] \in ancestors THEN Mark("circular")
        ELSE IF x.of \in Array
        THEN Node("arr",
                  [k \in 1 .. Least(LengthOf(x), MaxArray) |->
                     <<k, IF Has(props, k) THEN below(Get(props, k)) ELSE Mark("unsupported")>>],
                  LengthOf(x) > MaxArray)
        ELSE Node("obj",
                  [i \in DOMAIN keys |->
                     <<keys[i].key, IF Redacted(keys[i].key) THEN Mark("redacted")
                                    ELSE below(keys[i].val)>>],
                  Len(props) > MaxProps)

Serialize(own, x) == SerializeValue(own, [c \in Frame \cup Object |-> c], x, 0, {})

-----------------------------------------------------------------------------
(* Properties *)

\* A tree that says nothing else than the other one does, or that it ends here
\* because the budget did.
RECURSIVE SaysNoMore(_, _)
SaysNoMore(node, real) ==
    \/ node = real
    \/ node = Mark("props") /\ Exhausted
    \/ /\ node.t \in {"obj", "arr"} /\ node.t = real.t /\ node.more = real.more
       /\ DOMAIN node.c = DOMAIN real.c
       /\ \A i \in DOMAIN node.c : /\ node.c[i][1] = real.c[i][1]
                                   /\ SaysNoMore(node.c[i][2], real.c[i][2])

\* A snapshot shows the paused program as it is: the variables of each frame are
\* those that the traversal rules give for the values as V8 mentions them, also
\* when names are shadowed, a cycle comes round again and again or a budget of
\* objects ends; what the budget cuts off is marked.
SnapshotIsTruthful ==
    Captured => \A f \in Frame : SaysNoMore(Serialize(capture.own, FrameValue(f)),
                                            Serialize(RealOwn, Value("object", f)))

\* The traversal rules hold of the program's own values: a function is shown as
\* one, and a container below itself is marked as circular.  Neither is so, as an
\* id tells nothing of what it mentions: no run checks this.
TraversalRulesFollowed ==
    LET rule(e) == IF e.val.t = "object" /\ e.val.of \in Function
                   THEN [e EXCEPT !.val.t = "function"] ELSE e
        ruled == [c \in Frame \cup Object |-> [i \in DOMAIN RealOwn[c] |-> rule(RealOwn[c][i])]]
        who == [c \in Frame \cup Object |-> IF c \in Object THEN Identity[c] ELSE c]
    IN  Captured => \A f \in Frame : SaysNoMore(Serialize(capture.own, FrameValue(f)),
                                                SerializeValue(ruled, who, Value("object", f), 0, {}))

\* The tree of a watch is as truthful as the variables.  It is not: below the
\* depth of the capture an object looks empty, and a watch is serialized as deep
\* from where its path ends as the variables are from the frame.
WatchIsTruthful ==
    LET tree(own) == Serialize(own, ResolveDotPath(own, program.watch))
    IN  Captured => SaysNoMore(tree(capture.own), tree(ReadableOwn))
=============================================================================
