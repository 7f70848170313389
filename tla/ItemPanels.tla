----------------------------- MODULE ItemPanels -----------------------------
(***************************************************************************)
(* What the panels of a line tell of its item: its two codes, LM (the      *)
(* commodity code) and MCAT (the product line), each followed by the       *)
(* description of the category it names, and its attributes.  A panel asks *)
(* for the item, then for the categories of both codes, and puts each      *)
(* answer where the text that it shows is the category's code.  The calls  *)
(* are asynchronous and answered in any order.                             *)
(*                                                                         *)
(* A text is the sequence of what it is made of: <<>> is undefined, <<c>>  *)
(* a code, <<c, d>> code c, a dash and the description of category d; Blank *)
(* is the empty code and the empty description.                            *)
(***************************************************************************)
EXTENDS Integers, FiniteSets, SequencesExt

CONSTANTS
  Code,      \* codes of items and categories
  Blank,     \* the empty code, description and value
  Name,      \* names of attributes: brand, series, subject, author
  Value,     \* values of attributes
  MaxAttrs,  \* bound: the attributes of the item
  MaxOpen    \* bound: the panels that are opened

ASSUME BlankAssumption == Blank \notin Code \cup Value

\* Of a line that is picked, of a batch, of a summary; of the sort and gift wrap screens,
\* which share their code; and the details of a product.
Panel == {"pick", "batch", "summary", "sort", "product"}

VARIABLES
  item,        \* the item of the line, and whether it is kept in pieces ("EACH")
  categories,  \* the codes that have a category
  opened,      \* the panels that are on a screen
  view,        \* what each panel shows
  calls        \* the calls that are not answered

vars == <<item, categories, opened, view, calls>>

Text == Seq(Code \cup {Blank})
Attribute == [name : Name, value : Value]
\* A code is given, empty, or the element that would hold it is not there.
Given == {<<>>, <<Blank>>} \cup {<<c>> : c \in Code}
Item == [lm : Given, mcat : Given, attrs : UNION {[1..n -> Attribute] : n \in 0..MaxAttrs},
         each : BOOLEAN]
Shown == [lm : Text, mcat : Text, attrs : [Name -> Value \cup {Blank}]]

Nothing == [lm |-> <<>>, mcat |-> <<>>, attrs |-> [n \in Name |-> Blank]]
IsVoid(text) == text \in {<<>>, <<Blank>>}
OrEmpty(text) == IF text = <<>> THEN <<Blank>> ELSE text

Init ==
  /\ item \in Item /\ categories \in SUBSET Code
  /\ opened = {} /\ view = [p \in Panel |-> Nothing] /\ calls = {}

-----------------------------------------------------------------------------
(* Calls *)

Call(p, what, code) == [panel |-> p, what |-> what, code |-> code]
ItemCall(p) == Call(p, "item", <<>>)
UpdateDescription(p, v) == {Call(p, "LM", v.lm), Call(p, "MCAT", v.mcat)}

\* p gets its item, shows v and asks for more.
Shows(p, v, more) ==
  /\ ItemCall(p) \in calls
  /\ view' = [view EXCEPT ![p] = v]
  /\ calls' = (calls \ {ItemCall(p)}) \cup more
  /\ UNCHANGED <<item, categories, opened>>
\* The handler throws before it has shown or asked anything.
Throws(p) == Shows(p, view[p], {})

\* The value of attribute n: a getter returns the first, a loop is left with the last.
ValueAt(at) == IF at = 0 THEN Blank ELSE item.attrs[at].value
FirstValue(n) == ValueAt(SelectInSeq(item.attrs, LAMBDA a : a.name = n))
LastValue(n) == ValueAt(SelectLastInSeq(item.attrs, LAMBDA a : a.name = n))
AllValues(lm, mcat) == [lm |-> lm, mcat |-> mcat, attrs |-> [n \in Name |-> LastValue(n)]]

-----------------------------------------------------------------------------
(* Panels *)

\* A panel that is opened asks for its item.
Opens(p, v) ==
  /\ p \notin opened /\ Cardinality(opened) < MaxOpen
  /\ opened' = opened \cup {p} /\ view' = [view EXCEPT ![p] = v]
  /\ calls' = calls \cup {ItemCall(p)}
  /\ UNCHANGED <<item, categories>>

\* A line that is picked brings its item's codes along; the others are empty until the
\* item is there.
PickItemDetails == Opens("pick", [view["pick"] EXCEPT !.lm = item.lm, !.mcat = item.mcat])
UpdateItemDetails(p) == p \notin {"pick", "product"} /\ Opens(p, view[p])

\* The details of a product have the item from the screen that opens them; without
\* codes or attributes the handler throws.
UpdateAuthor ==
  IF <<>> \in {item.lm, item.mcat} \/ item.attrs = <<>> THEN view["product"]
  ELSE AllValues(item.lm, item.mcat)

\* They are filled whenever they are loaded or shown, also in a dialog.
ShowDetails ==
  /\ "product" \in opened \/ Cardinality(opened) < MaxOpen
  /\ opened' = opened \cup {"product"} /\ view' = [view EXCEPT !["product"] = UpdateAuthor]
  /\ UNCHANGED <<item, categories, calls>>

\* The item is looked for by name and unit: one that is not kept in pieces is not found.
\* Its attributes are shown through getters, which may stop the handler when there is no
\* item; the codes are those of the line.
PickItem ==
  LET v == [view["pick"] EXCEPT !.attrs = [n \in Name |-> IF item.each THEN FirstValue(n) ELSE Blank]] IN
  \/ <<>> \notin {v.lm, v.mcat} /\ Shows("pick", v, UpdateDescription("pick", v))
  \/ (<<>> \in {v.lm, v.mcat} \/ ~item.each) /\ Shows("pick", v, {})

\* Without an item or without attributes the loop over them throws.
BatchItem ==
  LET v == AllValues(OrEmpty(item.lm), OrEmpty(item.mcat)) IN
  IF item.each /\ item.attrs # <<>> THEN Shows("batch", v, UpdateDescription("batch", v))
  ELSE Throws("batch")

\* The item is looked for by its key.
SummaryItem ==
  LET v == AllValues(item.lm, item.mcat) IN
  Shows("summary", v, IF <<>> \in {v.lm, v.mcat} THEN {} ELSE UpdateDescription("summary", v))

\* The commodity code stands in both places, and no category is asked for.
SortItem ==
  LET both == AllValues(IF IsVoid(item.mcat) THEN <<Blank>> ELSE item.lm, OrEmpty(item.lm)) IN
  IF item.each /\ item.attrs # <<>> /\ (item.lm = <<>> => IsVoid(item.mcat))
  THEN Shows("sort", both, {}) ELSE Throws("sort")

-----------------------------------------------------------------------------
(* Categories *)

\* The server's categories for a code: without a code all of them, of which the panel
\* takes the first.
Categories(code) ==
  LET found == IF IsVoid(code) THEN categories ELSE categories \cap ToSet(code) IN
  IF found = {} THEN {Blank} ELSE found

\* Mutant of Described: it compares the code that the text begins with.
DescribedAgain(text, id) == IF text # <<>> /\ text[1] = id THEN Append(text, id) ELSE text
\* The description goes to the text that is the category's code.
Described(text, id) == IF text = <<id>> THEN Append(text, id) ELSE text

UpdateShipmentLine(v, id) ==
  [v EXCEPT !.lm = Described(v.lm, id), !.mcat = Described(v.mcat, id)]

HandleCategory(c) ==
  /\ c \in calls /\ c.what # "item"
  /\ \E id \in Categories(c.code) : view' = [view EXCEPT ![c.panel] = UpdateShipmentLine(@, id)]
  /\ calls' = calls \ {c}
  /\ UNCHANGED <<item, categories, opened>>

Next ==
  \/ \E p \in Panel : UpdateItemDetails(p)
  \/ PickItemDetails \/ ShowDetails
  \/ PickItem \/ BatchItem \/ SummaryItem \/ SortItem
  \/ \E c \in calls : HandleCategory(c)

Spec == Init /\ [][Next]_vars

-----------------------------------------------------------------------------
(* Properties *)

\* The text of a code beside another one.  An empty code turns to a dash when the server
\* answers without a category, be it to the other code.
Told(code, other) ==
  IF code = <<Blank>> THEN
       IF categories = {} \/ (~IsVoid(other) /\ other[1] \notin categories)
       THEN <<Blank, Blank>> ELSE code
  ELSE IF code[1] \in categories THEN Append(code, code[1]) ELSE code

Complete == <<>> \notin {item.lm, item.mcat} /\ item.attrs # <<>> /\ item.each

\* Of an item that has all its parts, the panels that describe codes tell the same once
\* they are answered: each code with its own description, once, in whatever order the
\* answers came and although both codes may be one; and the same attributes, if no two
\* have one name (updateDescription and updateShipmentLine of the three extensions).
PanelsAgree ==
  Complete =>
    \A p \in opened \cap {"pick", "batch", "summary"} :
      (\A c \in calls : c.panel # p) =>
        /\ view[p].lm = Told(item.lm, item.mcat)
        /\ view[p].mcat = Told(item.mcat, item.lm)
        /\ (\A a, b \in DOMAIN item.attrs : item.attrs[a].name = item.attrs[b].name => a = b) =>
             view[p].attrs = AllValues(item.lm, item.mcat).attrs
=============================================================================
