---------------------------- MODULE MCSdkCapture ----------------------------
(***************************************************************************)
(* Small instances of what the Node agent does with a hit: the capture of  *)
(* a paused program, and the delivery of what was captured.  A behaviour   *)
(* is one of the one or of the other.                                      *)
(***************************************************************************)
EXTENDS SdkDelivery, SdkSnapshot

CONSTANTS x, y, z, w, block, local, caller, NoValue

\* The first four events fill the buffer and have a probe each, so any one of
\* them may turn bad; the next has double size, the last is too large for it.
FourProbes == 1 .. 4
OwnProbe == [e \in Event |-> IF e <= 4 THEN e ELSE 4]
MixedSize == [e \in Event |-> CASE e = 5 -> 2 [] e = 6 -> MaxBytes + 1 [] OTHER -> 1]

\* Two frames; the inner one has a block scope that may shadow x, and a local scope
\* with a variable more than are read.  Of its values, 1 is an object that may have
\* a property more than are read and hold itself, 2 an array that may have a hole
\* and hold 1, and 3 a function with a property.  Each mention has an id: that of
\* the scope or value it is found in, its place there and the value.
MCFrameScopes == <<<<block, local>>, <<caller>>>>
Mentioned(id) == id % 10
Mention(id, place, value) == id * 100 + place * 10 + value

InLocal == {Mention(1, 1, 1), Mention(1, 1, 2), Mention(1, 2, 2)}
InCaller == {Mention(2, 1, 1)}
Below(ids) ==
    {Mention(id, 1, v) : id \in {i \in ids : Mentioned(i) = 1}, v \in {1, 3}}
    \cup {Mention(id, 2, 2) : id \in {i \in ids : Mentioned(i) = 1}}
    \cup {Mention(id, 1, 1) : id \in {i \in ids : Mentioned(i) = 2}}

\* Nothing is read of what is mentioned below three values.
Readable == LET one == InLocal \cup InCaller IN one \cup Below(one) \cup Below(Below(one))
MCObjects == Readable \cup Below(Readable)
MCArrays == {id \in MCObjects : Mentioned(id) = 2}
MCFunctions == {id \in MCObjects : Mentioned(id) = 3}
MCIdentity == [id \in MCObjects |-> -Mentioned(id)]

Pairs(id, keys, vals) ==
    SelectSeq([i \in DOMAIN keys |->
                 [key |-> keys[i],
                  val |-> IF vals[i] \in 1 .. 3 THEN Mention(id, i, vals[i]) ELSE vals[i]]],
              LAMBDA p : p.val # NoValue)
MCHeaps ==
    {[id \in {block, local, caller} \cup MCObjects |->
        CASE id = block -> Pairs(0, <<y, x>>, b)
          [] id = local -> Pairs(1, <<x, y, z, w>>, l \o <<m, m>>)
          [] id = caller -> Pairs(2, <<x>>, <<1>>)
          [] id \in Readable /\ Mentioned(id) = 1 -> Pairs(id, <<x, y, z, w>>, p \o <<m, m>>)
          [] id \in Readable /\ Mentioned(id) = 2 -> Pairs(id, <<1, 2>>, q)
          [] id \in Readable /\ Mentioned(id) = 3 -> Pairs(id, <<x>>, <<m>>)
          [] OTHER -> <<>>] :
        b \in {<<NoValue, NoValue>>, <<Scalar, Scalar>>},
        l \in {<<Scalar, 2>>, <<1, 2>>, <<1, NoValue>>, <<2, NoValue>>},
        p \in {NoValue, Scalar, 1, 3} \X {NoValue, 2}, m \in {NoValue, Scalar},
        q \in {NoValue, Scalar, 1} \X {NoValue, Scalar}}
MCRedactions == {{}, {y, 1}}
MCKeys == {x, y, z, w} \cup 1 .. 2
MCWatchPaths == {<<x>>, <<w>>, <<x, w>>, <<x, x, y>>, <<y, 1, x>>}

VARIABLE part

all == <<deliveryVars, captureVars, part>>
OneHeap == CHOOSE h \in MCHeaps : TRUE
MCInit == /\ DeliveryInit /\ CaptureInit /\ part \in {"delivery", "capture"}
          /\ part = "delivery" => /\ program.heap = OneHeap /\ program.redacted = {}
                                  /\ program.watch = <<w>> /\ program.budget = 5 /\ program.depth = 2
MCNext == \/ part = "delivery" /\ DeliveryNext /\ UNCHANGED <<captureVars, part>>
          \/ part = "capture" /\ CaptureNext /\ UNCHANGED <<deliveryVars, part>>
MCSpec == MCInit /\ [][MCNext]_all
=============================================================================
