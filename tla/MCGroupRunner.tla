----------------------------- MODULE MCGroupRunner -----------------------------
EXTENDS GroupRunner
CONSTANTS n1, n2, n3, n4, t1, t2, s1, s2

Edge(a, b, mapper, cond) == [from |-> a, to |-> b, mapper |-> mapper, cond |-> cond]
Plain(a, b) == <<Edge(a, b, FALSE, FALSE)>>
When(a, b) == <<Edge(a, b, FALSE, TRUE)>>
Map(a, b) == <<Edge(a, b, TRUE, FALSE)>>
Both(a, b) == <<Edge(a, b, TRUE, TRUE)>>

NoItems == [n \in Node |-> {}]

Group(nodes, arrows) ==
  [nodes |-> nodes, arrows |-> arrows, items |-> NoItems,
   takes |-> [n \in Node |-> NoType]]

(* Every graph over three agents: up to a renaming, declared in every      *)
(* order.                                                                  *)
Maybe(a, b) == {<<>>, Plain(a, b)}

Graphs3 ==
  {Group({n1, n2, n3}, a \o b \o c \o d \o e \o f \o g \o h \o i) :
     a \in Maybe(n1, n1), b \in Maybe(n1, n2), c \in Maybe(n1, n3),
     d \in Maybe(n2, n1), e \in Maybe(n2, n2), f \in Maybe(n2, n3),
     g \in Maybe(n3, n1), h \in Maybe(n3, n2), i \in Maybe(n3, n3)}

(* No agents, an edge to an agent that is not a node, an edge given twice, *)
(* and two of them into an aggregator, the second under a condition.       *)
Odd == {Group({}, <<>>), Group({n1}, Plain(n1, n4)),
        Group({n1, n2, n3}, Plain(n2, n3) \o Plain(n2, n3) \o Plain(n3, n1)),
        Group({n1, n2}, Plain(n1, n2) \o Both(n1, n2)),
        Group({n1, n2, n3}, Plain(n1, n2) \o Both(n1, n2) \o Plain(n3, n2))}

(* The three forward arrows of three agents, each absent or of any kind.   *)
Kinds(a, b) == {<<>>, Plain(a, b), When(a, b), Map(a, b), Both(a, b)}

Decorated ==
  {[Group({n1, n2, n3}, a \o b \o c) EXCEPT !.items[n1] = types] :
     a \in Kinds(n1, n2), b \in Kinds(n1, n3), c \in Kinds(n2, n3),
     types \in {{}, {t1}}}

(* Branches of four agents, long and short, and their merge.               *)
Some(a, b) == {<<>>, When(a, b), Map(a, b)}

Merges ==
  {Group({n1, n2, n3, n4}, d \o a \o b \o c) :
     a \in Some(n1, n2), b \in Some(n1, n3) \cup Some(n1, n4),
     c \in Some(n3, n4), d \in Some(n2, n4) \cup Some(n2, n3)}

(* A source of items of two types, with handlers of any type.              *)
Handled(nodes, arrows) ==
  {[Group(nodes, arrows) EXCEPT !.items[n1] = types, !.takes[n2] = x, !.takes[n3] = y] :
     types \in {{t1, t2}, {t1, s1}}, x \in Class \cup {NoType}, y \in Class \cup {NoType}}

Handlers ==
  Handled({n1, n2, n3, n4}, Plain(n1, n2) \o Plain(n1, n3) \o Map(n2, n4) \o Plain(n3, n4))
  \cup Handled({n1, n2, n3}, Plain(n1, n2) \o When(n1, n3))
  \cup Handled({n1, n2}, Plain(n1, n2))

AllGroups == Graphs3 \cup Odd \cup Decorated \cup Merges \cup Handlers

(* One class is below t1, another below both t1 and t2.                    *)
Below == {<<s1, t1>>, <<s2, t1>>, <<s2, t2>>}
=============================================================================
