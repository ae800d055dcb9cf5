----------------------------- MODULE MCMLEngine -----------------------------
(* Small instances of MLEngine for TLC: three coordinates of which two are sent. *)
EXTENDS MLEngine, TLC

Default ==
    [mode |-> "finetuning", compression |-> TRUE, allow_legacy |-> FALSE,
     max_payload |-> 20, max_tensors |-> 2, max_elements |-> 6]

\* The shipped settings; compression switched off; pretraining; limits below the model's size.
MCSetting ==
    {Default,
     [Default EXCEPT !.compression = FALSE, !.allow_legacy = TRUE],
     [Default EXCEPT !.mode = "pretraining"],
     [Default EXCEPT !.max_tensors = 1],
     [Default EXCEPT !.max_elements = 5],
     [Default EXCEPT !.max_payload = 19]}

Vector(a, b, c) == 1 :> a @@ 2 :> b @@ 3 :> c

\* Up and down; the last is longer than MaxNorm for two tensors.
MCMove == {Vector(0, 0, 0), Vector(1, 0, 2), Vector(-3, 1, -1), Vector(0, 4, 1), Vector(6, 0, 3)}

\* None or cut off; of a node without steps; along, against, longer than MaxPeerNorm; old
\* format, whose encoder lets a NaN pass.
MCPeerFile ==
    {NoPayload("unreadable"), Envelope(Delta({Dummy}, Zero), TRUE)}
    \union {Envelope(Delta(Tensor, v), TRUE) :
                v \in {Vector(0, 1, 1), Vector(0, -1, -1), Vector(3, 2, 0)}}
    \union {Envelope(d, FALSE) : d \in {Delta(Tensor, Vector(0, 1, 1)), Diverged(Tensor)}}
==============================================================================
