---- MODULE MCSaveCycle ----
EXTENDS SaveCycle
V1(path, flaw, body) == [import |-> FALSE, path |-> path, kind |-> "save", shape |-> "any",
  serial |-> "s1", flaw |-> flaw, stamp |-> 2, body |-> body]
JustNow(m) == [m EXCEPT !.stamp = 10]
Ahead(m) == [m EXCEPT !.stamp = 20]
Import(kind, shape, serial, flaw, body) == [import |-> TRUE, path |-> <<shape>>, kind |-> kind,
  shape |-> shape, serial |-> serial, flaw |-> flaw, stamp |-> 2, body |-> body]
OldCard == V1(<<"memcards", "old">>, "none", CardWith({<<"library", 0>>}))
D1State == V1(<<"savestates", "s1">>, "none", State("d1", {}, TRUE, FALSE))
CardImport == Import("memcard", "card", "s1", "none", CardWith({<<"library", 2>>}))
ExtrasDef ==
  {{}, {JustNow(OldCard)}, {JustNow(D1State)},
   {D1State, V1(<<"savestates", "s1", "inner">>, "none", Other)},
   {OldCard, V1(<<"memcards", "card", "inner">>, "none", Other)},
   {Ahead(V1(<<"data", "s1">>, "none", State("d1", {}, TRUE, FALSE)))},
   {V1(<<"memcards", "card">>, "corrupt", CardWith({<<"library", 0>>}))},
   {CardImport}, {OldCard, CardImport},
   {Import("save", "marker", "s1", "none", Marker("d1"))},
   {Import("state", "state", "s1", "none", State("d1", {}, TRUE, TRUE))},
   {Import("state", "state", "s1", "staged long", State("d1", {}, TRUE, TRUE))},
   {Import("state", "state", "s2", "none", State("d2", {}, TRUE, TRUE))}}
====
