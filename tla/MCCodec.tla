---- MODULE MCCodec ----
(* Model checking of the codec: messages of every type, with no, one and   *)
(* two items, and with lengths at and over what two bytes hold.            *)
EXTENDS Codec

Str(j, p) ==
  CASE p = 0 -> <<>> [] p = 1 -> <<j % Base, 2>> [] p = 2 -> [i \in 1..(Base^2 - 1) |-> (i + j) % Base]
    [] p = 3 -> [i \in 1..(Base^2) |-> j % Base]
QIdOf(p) == <<p % Known, 7 + p, 300 + p>>
Items(p, item(_)) ==
  CASE p = 0 -> <<>> [] p = 1 -> <<item(1)>> [] p = 2 -> <<item(1), item(2)>>
    [] p = 3 -> [i \in 1..(Base^2) |-> item(1)]

Sample(kind, j, p) ==
  CASE kind = "str" -> Str(j, p)
    [] kind = "strs" -> Items(p, LAMBDA q : <<Str(q, q - 1)>>)
    [] kind = "qids" -> Items(p, QIdOf)
    [] kind = "data" -> Str(1, p)
    [] kind = "dirents" -> Items(IF p = 3 THEN 1 ELSE p,
                                 LAMBDA q : QIdOf(q) \o <<q, 0, Str(q, 1)>>)
    [] kind = "pad" -> 0
    [] kind \in Masks -> (j + p) % Known
    [] OTHER -> (5 * j + 3 * p + 1) % (Base ^ Width[kind])

SampleOf(typ, p) ==
  [typ |-> typ, tag |-> 9 + p,
   vals |-> [j \in DOMAIN EncodeLayout(typ) |-> Sample(EncodeLayout(typ)[j], j, p)]]

AllSamples == {SampleOf(typ, p) : typ \in MsgTypes, p \in 0..3}
====
