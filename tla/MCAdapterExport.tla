--------------------------- MODULE MCAdapterExport ---------------------------
(* Instances of AdapterExport for TLC. *)
EXTENDS AdapterExport, TLC

Tensor(target, part, adapter, rows, columns) ==
    [module |-> FALSE, target |-> target, part |-> part, adapter |-> adapter,
     shape |-> <<rows, columns>>]

\* An adapter of rank 2 with two targets, and one of its tensors under the name a peer's model
\* has for it; and what a round without steps leaves.
Adapter ==
    {Tensor(t, "lora_A", TRUE, 2, 3) : t \in {"q_proj", "v_proj"}}
    \union {Tensor(t, "lora_B", TRUE, 3, 2) : t \in {"q_proj", "v_proj"}}

Foreign == [Tensor("q_proj", "lora_A", FALSE, 2, 3) EXCEPT !.module = TRUE]

MCSaved == <<Adapter \union {Foreign}, {Tensor("dummy", "none", FALSE, 1, 1)}>>

Line(input, of, round, number) ==
    [input |-> input, of |-> of, round |-> round, number |-> number,
     filter |-> FALSE, matching |-> {},
     out |-> FALSE, evaluate |-> FALSE, eval_output |-> FALSE]

\* One node stands for the other where only one is named.
MCArgs ==
    LET n == CHOOSE n \in Node : TRUE
        all == Line("root", n, "all", 5)
        given(line) == [line EXCEPT !.out = TRUE]
    IN  {Line("root", n, "latest", 5), all, given(Line("root", n, "latest", 5)), given(all),
         Line("node", n, "unreadable", 5), given(Line("file", n, "latest", Base)),
         given([Line("root", n, "number", 5) EXCEPT !.filter = TRUE, !.matching = {n}])}
        \union {[all EXCEPT !.evaluate = TRUE, !.eval_output = common] : common \in BOOLEAN}
==============================================================================
