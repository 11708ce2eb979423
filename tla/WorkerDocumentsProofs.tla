------------------------- MODULE WorkerDocumentsProofs -------------------------
(***************************************************************************)
(* A document on its way through the parsers and the renderers, and the    *)
(* terms proposed for a text, for any files, configurations and requests.  *)
(*                                                                         *)
(* TextsSegmented and TextsKeepTheirPlaces say what has become of a text   *)
(* when all is parsed or rendered; the invariant says what a segment is on *)
(* the way there.  What the parsers make is followed text by text: a list  *)
(* is flattened, filtered, grouped or sorted, and each time the lemmas say *)
(* from which place of the file every member comes and that no member is   *)
(* missing (TextsOf, ListedOnce).  Of that the invariant keeps what the    *)
(* renderer of each format counts on: a sheet's segments are its cells     *)
(* under their places, a slide's are its frames under their positions, the *)
(* lines of a page are in their order and the leading paragraphs have      *)
(* their own numbers.                                                      *)
(*                                                                         *)
(* GlossaryApplied: what is merged is followed source by source, and a     *)
(* match through the passes: of all that is tried the first of each source *)
(* stays (FirstOfEach), a token appends, the filter and the sort leave     *)
(* what they should.  A term that stands in the text is among the tried    *)
(* before anything that is not an entry, and no other entry has its source.*)
(***************************************************************************)
EXTENDS MCWorkerDocuments, ReviewWorkflowProofs, SequencePartsProofs

-----------------------------------------------------------------------------
(* Places and segments *)

Place == Nat \X Nat
Names == {"paragraph", "table", "group", "header", "cell", "slide", "shape", "page"}
SegmentId == (Names \X Nat) \cup (Names \X Nat \X Nat)
DocSegment == [id : SegmentId, type : Names, part : Nat, key : Nat, texts : Seq(Place),
               state : {"source", "translated", "empty", "error"}]

\* The file and the configuration are of their types.
IsFile ==
  /\ file.format \in Formats
  /\ file.parts \in Seq(Seq(Item)) /\ file.heads \in Seq(Item)
  /\ IF file.format = "docx" THEN file.parts # <<>> ELSE file.heads = <<>>
  /\ \A p \in DOMAIN file.parts : \A i \in DOMAIN file.parts[p] :
       file.parts[p][i].within = "table" => file.format = "pptx" \/ (file.format = "docx" /\ p > 1)
  /\ config \in ParserConfig

\* The parts of a file are lists of items; the item at a place is the one its part holds there.
LEMMA PartsItems ==
  ASSUME IsFile
  PROVE  /\ Len(file.parts) \in Nat /\ DOMAIN file.parts = 1 .. Len(file.parts)
         /\ \A p \in DOMAIN file.parts :
              /\ file.parts[p] \in Seq(Item)
              /\ Len(file.parts[p]) \in Nat /\ DOMAIN file.parts[p] = 1 .. Len(file.parts[p])
              /\ \A i \in DOMAIN file.parts[p] :
                   /\ file.parts[p][i] \in Item
                   /\ <<p, i>> \in Place /\ <<p, i>> \in Places
                   /\ ItemAt(<<p, i>>) = file.parts[p][i]
<1>1. Len(file.parts) \in Nat /\ DOMAIN file.parts = 1 .. Len(file.parts)
  BY DEF IsFile
<1>2. ASSUME NEW p \in DOMAIN file.parts
      PROVE  /\ file.parts[p] \in Seq(Item)
             /\ Len(file.parts[p]) \in Nat /\ DOMAIN file.parts[p] = 1 .. Len(file.parts[p])
  <2>1. file.parts[p] \in Seq(Item)
    BY <1>1 DEF IsFile
  <2> QED
    BY <2>1
<1>3. ASSUME NEW p \in DOMAIN file.parts, NEW i \in DOMAIN file.parts[p]
      PROVE  /\ file.parts[p][i] \in Item
             /\ <<p, i>> \in Place /\ <<p, i>> \in Places
             /\ ItemAt(<<p, i>>) = file.parts[p][i]
  <2>1. file.parts[p][i] \in Item
    BY <1>2
  <2>2. p \in Nat /\ i \in Nat /\ p # 0
    BY <1>1, <1>2
  <2>3. <<p, i>> \in Places
    BY DEF Places
  <2>4. ItemAt(<<p, i>>) = file.parts[p][i]
    BY <2>2 DEF ItemAt, Head0
  <2> QED
    BY <2>1, <2>2, <2>3, <2>4 DEF Place
<1> QED
  BY <1>1, <1>2, <1>3

\* Only a DOCX file has headers.
LEMMA InParts ==
  ASSUME IsFile, file.format # "docx", NEW place \in Places
  PROVE  \E p \in DOMAIN file.parts : \E i \in DOMAIN file.parts[p] : place = <<p, i>>
<1>1. DOMAIN file.heads = {}
  BY DEF IsFile
<1> QED
  BY <1>1 DEF Places

\* Segments as a parser makes them: each has a text, none that of an empty item.
WellMade(segs) ==
  \A s \in DOMAIN segs :
    /\ segs[s].texts # <<>> /\ Range(segs[s].texts) \subseteq Places
    /\ \A t \in DOMAIN segs[s].texts : TextAt(segs[s].texts[t]) # "none"
    /\ segs[s].state = "source"
Distinct(segs) == \A s, r \in DOMAIN segs : s # r => segs[s].id # segs[r].id
\* a text is in one segment, or in one for each position of its cell
Held(segs, place) ==
  /\ Holding(segs, place) # {}
  /\ \E c \in [Holding(segs, place) -> ItemAt(place).grid] : IsInjective(c)
Covers(segs) == \A place \in Places : Meant(place) /\ ~ParserRaises => Held(segs, place)

\* A cell takes up some positions, and finitely many.
LEMMA GridFinite ==
  ASSUME NEW item \in Item
  PROVE  item.grid # {} /\ IsFiniteSet(item.grid) /\ item.grid \subseteq 1 .. GridSize
<1>1. item.grid # {} /\ item.grid \subseteq 1 .. GridSize
  BY DEF Item
<1>2. GridSize \in Nat
  BY DocumentAssumption
<1>3. IsFiniteSet(1 .. GridSize)
  BY <1>2, FS_Interval
<1> QED
  BY <1>1, <1>3, FS_Subset

\* A text that is held is in one segment, or in at most as many as its cell has positions.
LEMMA HeldCounted ==
  ASSUME NEW segs, NEW place, ItemAt(place) \in Item, Held(segs, place)
  PROVE  Cardinality(Holding(segs, place)) \in 1 .. Cardinality(ItemAt(place).grid)
<1>1. PICK grid : grid = ItemAt(place).grid
  OBVIOUS
<1>2. PICK c \in [Holding(segs, place) -> grid] : IsInjective(c)
  BY <1>1 DEF Held
<1>3. IsFiniteSet(grid)
  BY <1>1, GridFinite
<1>4. c \in Injection(Holding(segs, place), grid)
  BY <1>2 DEF Injection
<1>5. /\ IsFiniteSet(Holding(segs, place))
      /\ Cardinality(Holding(segs, place)) <= Cardinality(grid)
  BY <1>3, <1>4, FS_Injection
<1>6. Cardinality(Holding(segs, place)) \in Nat /\ Cardinality(Holding(segs, place)) # 0
  BY <1>5, FS_CardinalityType, FS_EmptySet DEF Held
<1>7. Cardinality(grid) \in Nat
  BY <1>3, FS_CardinalityType
<1> QED
  BY <1>1, <1>5, <1>6, <1>7

\* s is the one segment that holds the text
OnlyIn(segs, place, s) ==
  /\ s \in DOMAIN segs /\ place \in Range(segs[s].texts)
  /\ \A r \in DOMAIN segs : place \in Range(segs[r].texts) => r = s

\* A text that one segment alone holds is held.
LEMMA HeldOnce ==
  ASSUME NEW segs, NEW place, ItemAt(place) \in Item,
         NEW s, OnlyIn(segs, place, s)
  PROVE  Held(segs, place)
<1>1. Holding(segs, place) = {s}
  BY DEF Holding, OnlyIn
<1>2. PICK c \in ItemAt(place).grid : [x \in {s} |-> c] \in [{s} -> ItemAt(place).grid]
  BY GridFinite
<1>3. IsInjective([x \in {s} |-> c])
  BY DEF IsInjective
<1> QED
  BY <1>1, <1>2, <1>3 DEF Held

\* A segment of one text.
LEMMA OneText ==
  ASSUME NEW place
  PROVE  /\ <<place>> # <<>> /\ Range(<<place>>) = {place} /\ DOMAIN <<place>> = {1}
         /\ <<place>>[1] = place
<1>1. DOMAIN <<place>> = {1} /\ <<place>>[1] = place /\ <<place>> # <<>>
  OBVIOUS
<1> QED
  BY <1>1 DEF Range

-----------------------------------------------------------------------------
(* Formats whose segments belong to one part each: sheets, slides, pages *)

\* a text the parsers should find, or could, outside the tables they do not look into
ToFind(place)   == TextAt(place) = "jp" /\ ~Hidden(place)
Readable(place) == TextAt(place) # "none" /\ ~Hidden(place)

\* The segments of part p: they have its texts and its number, and each Japanese text
\* is in one of them.
OfPart(segs, p) ==
  /\ WellMade(segs) /\ Distinct(segs)
  /\ \A s \in DOMAIN segs : segs[s].part = p /\ segs[s].id[2] = p
  /\ \A s \in DOMAIN segs : \A t \in DOMAIN segs[s].texts : segs[s].texts[t][1] = p
  /\ \A i \in DOMAIN file.parts[p] : ToFind(<<p, i>>) =>
       \E s \in DOMAIN segs : \A r \in DOMAIN segs : <<p, i>> \in Range(segs[r].texts) <=> r = s

\* A part without a Japanese text may give no segments.
LEMMA NoSegments ==
  ASSUME NEW p, \A i \in DOMAIN file.parts[p] : ~ToFind(<<p, i>>)
  PROVE  <<>> \in Seq(DocSegment) /\ OfPart(<<>>, p)
<1>1. DOMAIN <<>> = {} /\ <<>> \in Seq(DocSegment)
  OBVIOUS
<1> QED
  BY <1>1 DEF OfPart, WellMade, Distinct

\* The segments of the parts, one part after another.
LEMMA PartByPart ==
  ASSUME IsFile, file.format # "docx", NEW pieces \in [DOMAIN file.parts -> Seq(DocSegment)],
         \A p \in DOMAIN file.parts : OfPart(pieces[p], p),
         NEW out, out = FlattenSeq(pieces)
  PROVE  /\ out \in Seq(DocSegment)
         /\ WellMade(out) /\ Distinct(out) /\ Covers(out)
         /\ \A s \in DOMAIN out :
              /\ out[s].part \in DOMAIN file.parts
              /\ \E j \in DOMAIN pieces[out[s].part] : out[s] = pieces[out[s].part][j]
         /\ \A p \in DOMAIN file.parts : \A j \in DOMAIN pieces[p] :
              \E s \in DOMAIN out : out[s] = pieces[p][j]
<1>1. PICK n \in Nat : n = Len(file.parts) /\ DOMAIN file.parts = 1 .. n
  BY PartsItems
<1>2. pieces \in Seq(Seq(DocSegment)) /\ Len(pieces) = n
  <2>1. pieces \in [1 .. n -> Seq(DocSegment)]
    BY <1>1
  <2> QED
    BY <2>1
<1>3. out \in Seq(DocSegment) /\ \E from, at : Origins(out, pieces, n, from, at)
  BY <1>2, FlattenedInOrder
<1>4. PICK from, at : Origins(out, pieces, n, from, at)
  BY <1>3
<1>5. PICK m \in Nat : m = Len(out) /\ DOMAIN out = 1 .. m
  BY <1>3
<1>6. /\ from \in [1 .. m -> 1 .. n] /\ at \in [1 .. m -> Nat]
      /\ \A k \in 1 .. m : at[k] \in DOMAIN pieces[from[k]] /\ out[k] = pieces[from[k]][at[k]]
      /\ \A k, l \in 1 .. m : from[k] = from[l] /\ at[k] = at[l] => k = l
      /\ \A p \in 1 .. n : \A j \in DOMAIN pieces[p] : \E k \in 1 .. m : from[k] = p /\ at[k] = j
  <2>1. OneOrigin(out, pieces, Len(out), Len(pieces), from, at)
    BY <1>2, <1>3, <1>4, OriginsByPlace
  <2> QED
    BY <1>2, <1>5, <2>1 DEF OneOrigin
<1>7. ASSUME NEW k \in 1 .. m
      PROVE  /\ from[k] \in DOMAIN file.parts /\ at[k] \in DOMAIN pieces[from[k]]
             /\ out[k] = pieces[from[k]][at[k]] /\ OfPart(pieces[from[k]], from[k])
  BY <1>1, <1>6
<1>8. ASSUME NEW k \in 1 .. m PROVE out[k].part = from[k] /\ out[k].id[2] = from[k]
  <2>1. PICK segs, p, j : segs = pieces[p] /\ p = from[k] /\ j = at[k]
    OBVIOUS
  <2>2. j \in DOMAIN segs /\ out[k] = segs[j] /\ OfPart(segs, p)
    BY <1>7, <2>1
  <2>3. segs[j].part = p /\ segs[j].id[2] = p
    BY <2>2 DEF OfPart
  <2> QED
    BY <2>1, <2>2, <2>3
<1>9. WellMade(out)
  <2>1. ASSUME NEW k \in 1 .. m
        PROVE  /\ out[k].texts # <<>> /\ Range(out[k].texts) \subseteq Places
               /\ \A t \in DOMAIN out[k].texts : TextAt(out[k].texts[t]) # "none"
               /\ out[k].state = "source"
    <3>1. WellMade(pieces[from[k]]) /\ at[k] \in DOMAIN pieces[from[k]] /\ out[k] = pieces[from[k]][at[k]]
      BY <1>7 DEF OfPart
    <3> QED
      BY <3>1 DEF WellMade
  <2> QED
    BY <1>5, <2>1 DEF WellMade
<1>10. Distinct(out)
  <2>1. ASSUME NEW k \in 1 .. m, NEW l \in 1 .. m, k # l, out[k].id = out[l].id PROVE FALSE
    <3>1. from[k] = from[l]
      BY <1>8, <2>1
    <3>2. at[k] # at[l]
      BY <1>6, <2>1, <3>1
    <3>3. Distinct(pieces[from[k]])
      BY <1>7 DEF OfPart
    <3>4. at[l] \in DOMAIN pieces[from[k]] /\ out[l] = pieces[from[k]][at[l]]
      BY <1>7, <3>1
    <3> QED
      BY <1>7, <2>1, <3>2, <3>3, <3>4 DEF Distinct
  <2> QED
    BY <1>5, <2>1 DEF Distinct
<1>11. ASSUME NEW place \in Places, Meant(place) PROVE Held(out, place)
  <2>1. PICK p \in DOMAIN file.parts : \E i \in DOMAIN file.parts[p] : place = <<p, i>>
    BY <1>11, InParts
  <2>2. PICK i \in DOMAIN file.parts[p] : place = <<p, i>>
    BY <2>1
  <2>3. ItemAt(place) \in Item
    BY <2>2, PartsItems
  <2>4. OfPart(pieces[p], p)
    OBVIOUS
  <2>5. PICK j \in DOMAIN pieces[p] :
          \A r \in DOMAIN pieces[p] : place \in Range(pieces[p][r].texts) <=> r = j
    BY <1>11, <2>2, <2>4 DEF OfPart, Meant, ToFind
  <2>6. PICK k \in 1 .. m : from[k] = p /\ at[k] = j
    <3>1. p \in 1 .. n
      BY <1>1
    <3> QED
      BY <1>6, <3>1
  <2>7. place \in Range(out[k].texts)
    BY <1>6, <2>5, <2>6
  <2>8. ASSUME NEW l \in 1 .. m, place \in Range(out[l].texts) PROVE l = k
    <3>1. PICK t \in DOMAIN out[l].texts : out[l].texts[t] = place
      BY <2>8 DEF Range
    <3>2. place[1] = from[l]
      <4>1. at[l] \in DOMAIN pieces[from[l]] /\ out[l] = pieces[from[l]][at[l]] /\ OfPart(pieces[from[l]], from[l])
        BY <1>7
      <4> QED
        BY <3>1, <4>1 DEF OfPart
    <3>3. from[l] = p
      BY <2>2, <3>2
    <3>4. at[l] \in DOMAIN pieces[p] /\ out[l] = pieces[p][at[l]]
      BY <1>7, <3>3
    <3>5. at[l] = j
      BY <2>5, <2>8, <3>4
    <3> QED
      BY <1>6, <2>6, <3>3, <3>5
  <2>9. OnlyIn(out, place, k)
    BY <1>5, <2>7, <2>8 DEF OnlyIn
  <2> QED
    BY <2>3, <2>9, HeldOnce
<1>12. ASSUME NEW s \in DOMAIN out
       PROVE  /\ out[s].part \in DOMAIN file.parts
              /\ \E j \in DOMAIN pieces[out[s].part] : out[s] = pieces[out[s].part][j]
  <2>1. s \in 1 .. m
    BY <1>5
  <2>2. out[s].part = from[s]
    BY <1>8, <2>1
  <2> QED
    BY <1>7, <2>1, <2>2
<1>13. Covers(out)
  BY <1>11 DEF Covers
<1>14. ASSUME NEW p \in DOMAIN file.parts, NEW j \in DOMAIN pieces[p]
       PROVE  \E s \in DOMAIN out : out[s] = pieces[p][j]
  <2>1. p \in 1 .. n
    BY <1>1
  <2>2. PICK k \in 1 .. m : from[k] = p /\ at[k] = j
    BY <1>6, <2>1
  <2> QED
    BY <1>5, <1>6, <2>2
<1> QED
  BY <1>3, <1>9, <1>10, <1>12, <1>13, <1>14

-----------------------------------------------------------------------------
(* XLSX *)

CellSegment(p, i) == Segment(<<"cell", p, i>>, "cell", p, i, <<<<p, i>>>>)
OnlyCells(segs) ==
  \A s \in DOMAIN segs : \E p \in DOMAIN file.parts : \E i \in DOMAIN file.parts[p] :
    segs[s] = CellSegment(p, i) /\ TextAt(<<p, i>>) # "none"

\* What the segment of a cell is made of.
LEMMA CellSegmentTyped ==
  ASSUME NEW p \in Nat, NEW i \in Nat
  PROVE  /\ CellSegment(p, i) \in DocSegment
         /\ CellSegment(p, i).id = <<"cell", p, i>> /\ CellSegment(p, i).part = p
         /\ CellSegment(p, i).key = i /\ CellSegment(p, i).texts = <<<<p, i>>>>
         /\ CellSegment(p, i).state = "source"
<1>1. <<p, i>> \in Place /\ <<"cell", p, i>> \in SegmentId
  <2>1. <<"cell", p, i>> \in Names \X Nat \X Nat
    BY DEF Names
  <2> QED
    BY Zenon, <2>1 DEF Place, SegmentId
<1>2. PICK pl \in Place : pl = <<p, i>>
  BY <1>1
<1>3. <<pl>> \in Seq(Place)
  OBVIOUS
<1>4. PICK id \in SegmentId : id = <<"cell", p, i>>
  BY <1>1
<1>5. PICK texts \in Seq(Place) : texts = <<<<p, i>>>>
  BY <1>2, <1>3
<1>6. CellSegment(p, i) = [id |-> id, type |-> "cell", part |-> p, key |-> i, texts |-> texts,
                           state |-> "source"]
  BY <1>4, <1>5 DEF CellSegment, Segment
<1> QED
  BY <1>4, <1>5, <1>6 DEF DocSegment, Names

\* The cells of a sheet, each once.
LEMMA SheetSegments ==
  ASSUME IsFile, NEW p \in DOMAIN file.parts, NEW segs, segs = CellSegments(p)
  PROVE  /\ segs \in Seq(DocSegment) /\ OfPart(segs, p)
         /\ \A s \in DOMAIN segs : \E i \in DOMAIN file.parts[p] :
              segs[s] = CellSegment(p, i) /\ TextAt(<<p, i>>) # "none"
<1>1. PICK n \in Nat : /\ n = Len(file.parts[p]) /\ DOMAIN file.parts[p] = 1 .. n
                       /\ \A i \in 1 .. n : <<p, i>> \in Place /\ <<p, i>> \in Places
  BY PartsItems
<1>2. PICK places \in Seq(Place) : places = PlacesOf(p)
  <2>1. PlacesOf(p) \in [1 .. n -> Place]
    BY <1>1 DEF PlacesOf
  <2> QED
    BY <2>1
<1>3. Len(places) = n /\ \A i \in 1 .. n : places[i] = <<p, i>>
  BY <1>1, <1>2 DEF PlacesOf
<1> DEFINE kept == {i \in DOMAIN file.parts[p] :
                      /\ TextAt(<<p, i>>) # "none"
                      /\ TextAt(<<p, i>>) = "formula" => ~config.skipFormulas}
<1>4. SheetCells(p) = Keeping(places, kept)
  BY <1>2 DEF SheetCells
<1>5. \A i \in 1 .. n : i \in kept => TextAt(<<p, i>>) # "none"
  BY <1>1
<1>6. \A i \in 1 .. n : TextAt(<<p, i>>) = "jp" => i \in kept
  BY <1>1
<1> HIDE DEF kept
<1>7. PICK cells \in Seq(Place) : /\ cells = SheetCells(p)
                                  /\ \E g : Picks(cells, places, kept, g)
  BY <1>4, KeepingPicks
<1>8. PICK g : Picks(cells, places, kept, g)
  BY <1>7
<1>9. PICK m \in Nat : m = Len(cells) /\ DOMAIN cells = 1 .. m
  BY <1>7
<1>10. /\ \A k \in 1 .. m : g[k] \in 1 .. n /\ g[k] \in kept /\ cells[k] = <<p, g[k]>>
       /\ \A k, l \in 1 .. m : k < l => g[k] < g[l]
       /\ \A i \in 1 .. n : i \in kept => \E k \in 1 .. m : g[k] = i
  BY <1>3, <1>8, <1>9 DEF Picks
<1>11. DOMAIN segs = 1 .. m /\ \A k \in 1 .. m : segs[k] = CellSegment(p, g[k])
  <2>1. DOMAIN segs = 1 .. m
    BY <1>7, <1>9 DEF CellSegments
  <2>2. ASSUME NEW k \in 1 .. m PROVE segs[k] = CellSegment(p, g[k])
    <3>1. segs[k] = Segment(<<"cell", p, cells[k][2]>>, "cell", p, cells[k][2], <<cells[k]>>)
      BY <1>7, <1>9 DEF CellSegments
    <3>2. cells[k] = <<p, g[k]>> /\ cells[k][2] = g[k]
      BY <1>10
    <3> QED
      BY <3>1, <3>2 DEF CellSegment
  <2> QED
    BY <2>1, <2>2
<1>12. p \in Nat
  BY PartsItems
<1>13. ASSUME NEW k \in 1 .. m
       PROVE  /\ segs[k] \in DocSegment /\ segs[k].id = <<"cell", p, g[k]>> /\ segs[k].part = p
              /\ segs[k].texts = <<<<p, g[k]>>>> /\ segs[k].state = "source"
              /\ TextAt(<<p, g[k]>>) # "none" /\ <<p, g[k]>> \in Places
  <2>1. g[k] \in Nat /\ g[k] \in 1 .. n /\ g[k] \in kept
    BY <1>10
  <2>2. segs[k] = CellSegment(p, g[k])
    BY <1>11
  <2>3. TextAt(<<p, g[k]>>) # "none" /\ <<p, g[k]>> \in Places
    BY <1>1, <1>5, <2>1
  <2> QED
    BY <1>12, <2>1, <2>2, <2>3, CellSegmentTyped
<1>14. segs \in Seq(DocSegment)
  <2>1. segs = [k \in 1 .. m |-> segs[k]]
    BY <1>7, <1>9 DEF CellSegments
  <2>2. segs \in [1 .. m -> DocSegment]
    BY <1>13, <2>1
  <2> QED
    BY <2>2
<1>15. \A k, l \in 1 .. m : g[k] = g[l] => k = l
  <2>1. ASSUME NEW k \in 1 .. m, NEW l \in 1 .. m, g[k] = g[l] PROVE k = l
    <3>1. g[k] \in Nat /\ ~ (g[k] < g[l]) /\ ~ (g[l] < g[k])
      BY <1>10, <2>1
    <3>2. ~ (k < l) /\ ~ (l < k)
      BY <1>10, <3>1
    <3> QED
      BY <3>2
  <2> QED
    BY <2>1
<1>16. ASSUME NEW k \in 1 .. m
       PROVE  segs[k].id[2] = p /\ segs[k].id[3] = g[k] /\ <<p, g[k]>>[1] = p
  <2>1. segs[k].id = <<"cell", p, g[k]>>
    BY <1>13
  <2>2. <<"cell", p, g[k]>>[2] = p /\ <<"cell", p, g[k]>>[3] = g[k]
    OBVIOUS
  <2> QED
    BY <2>1, <2>2
<1>17. ASSUME NEW k \in 1 .. m
       PROVE  /\ segs[k].texts # <<>> /\ Range(segs[k].texts) = {<<p, g[k]>>}
              /\ \A t \in DOMAIN segs[k].texts : segs[k].texts[t] = <<p, g[k]>>
  <2>1. PICK pl : pl = <<p, g[k]>> /\ segs[k].texts = <<pl>>
    BY <1>13
  <2> QED
    BY <2>1, OneText
<1>18. WellMade(segs)
  <2>1. ASSUME NEW k \in 1 .. m
        PROVE  /\ segs[k].texts # <<>> /\ Range(segs[k].texts) \subseteq Places
               /\ \A t \in DOMAIN segs[k].texts : TextAt(segs[k].texts[t]) # "none"
               /\ segs[k].state = "source"
    BY <1>13, <1>17
  <2> QED
    BY <1>11, <2>1 DEF WellMade
<1>19. Distinct(segs)
  BY <1>11, <1>15, <1>16 DEF Distinct
<1>20. ASSUME NEW i \in DOMAIN file.parts[p], ToFind(<<p, i>>)
       PROVE  \E s \in DOMAIN segs : \A r \in DOMAIN segs : <<p, i>> \in Range(segs[r].texts) <=> r = s
  <2>1. PICK k \in 1 .. m : g[k] = i
    BY <1>1, <1>6, <1>10, <1>20 DEF ToFind
  <2>2. ASSUME NEW r \in 1 .. m PROVE <<p, i>> \in Range(segs[r].texts) <=> r = k
    <3>1. Range(segs[r].texts) = {<<p, g[r]>>}
      BY <1>17
    <3>2. <<p, i>> = <<p, g[r]>> <=> g[r] = i
      OBVIOUS
    <3> QED
      BY <1>15, <2>1, <3>1, <3>2
  <2>3. k \in DOMAIN segs /\ \A r \in DOMAIN segs : <<p, i>> \in Range(segs[r].texts) <=> r = k
    BY <1>11, <2>2
  <2> QED
    BY Zenon, <2>3
<1>21. OfPart(segs, p)
  <2>1. \A s \in DOMAIN segs : segs[s].part = p /\ segs[s].id[2] = p
    BY <1>11, <1>13, <1>16
  <2>2. ASSUME NEW s \in DOMAIN segs, NEW t \in DOMAIN segs[s].texts PROVE segs[s].texts[t][1] = p
    BY <1>11, <1>16, <1>17
  <2> QED
    BY <1>18, <1>19, <1>20, <2>1, <2>2 DEF OfPart
<1>22. \A s \in DOMAIN segs : \E i \in DOMAIN file.parts[p] :
         segs[s] = CellSegment(p, i) /\ TextAt(<<p, i>>) # "none"
  BY <1>1, <1>10, <1>11, <1>13
<1> QED
  BY <1>14, <1>21, <1>22

\* The segments of a workbook: each cell with Japanese is in one, and it is named for its sheet
\* and its place in it (_extract_cells).
LEMMA XlsxRight ==
  ASSUME IsFile, file.format = "xlsx", NEW out, out = XlsxSegments
  PROVE  /\ out \in Seq(DocSegment) /\ WellMade(out) /\ Distinct(out) /\ Covers(out)
         /\ OnlyCells(out)
<1> DEFINE pieces == [p \in DOMAIN file.parts |->
                        IF config.includeEmpty \/ HasData(p) THEN CellSegments(p) ELSE <<>>]
<1>1. ASSUME NEW p \in DOMAIN file.parts
      PROVE  /\ pieces[p] \in Seq(DocSegment) /\ OfPart(pieces[p], p)
             /\ \A s \in DOMAIN pieces[p] : \E i \in DOMAIN file.parts[p] :
                  pieces[p][s] = CellSegment(p, i) /\ TextAt(<<p, i>>) # "none"
  <2>1. CASE config.includeEmpty \/ HasData(p)
    <3>1. pieces[p] = CellSegments(p)
      BY <2>1
    <3> HIDE DEF pieces
    <3> QED
      BY <3>1, SheetSegments
  <2>2. CASE ~ (config.includeEmpty \/ HasData(p))
    <3>1. pieces[p] = <<>> /\ DOMAIN <<>> = {}
      BY <2>2
    <3>2. \A i \in DOMAIN file.parts[p] : ~ToFind(<<p, i>>)
      BY <2>2 DEF HasData, ToFind
    <3> HIDE DEF pieces
    <3> QED
      BY <3>1, <3>2, NoSegments
  <2> QED
    BY <2>1, <2>2
<1>2. pieces \in [DOMAIN file.parts -> Seq(DocSegment)]
  BY <1>1
<1>3. out = FlattenSeq(pieces)
  BY DEF XlsxSegments
<1> HIDE DEF pieces
<1>4. /\ out \in Seq(DocSegment) /\ WellMade(out) /\ Distinct(out) /\ Covers(out)
      /\ \A s \in DOMAIN out :
           /\ out[s].part \in DOMAIN file.parts
           /\ \E j \in DOMAIN pieces[out[s].part] : out[s] = pieces[out[s].part][j]
  BY <1>1, <1>2, <1>3, PartByPart
<1>5. ASSUME NEW s \in DOMAIN out
      PROVE  \E p \in DOMAIN file.parts : \E i \in DOMAIN file.parts[p] :
               out[s] = CellSegment(p, i) /\ TextAt(<<p, i>>) # "none"
  <2>1. PICK p \in DOMAIN file.parts : \E j \in DOMAIN pieces[p] : out[s] = pieces[p][j]
    BY <1>4
  <2> QED
    BY <1>1, <2>1
<1>6. OnlyCells(out)
  BY <1>5 DEF OnlyCells
<1> QED
  BY <1>4, <1>6

-----------------------------------------------------------------------------
(* PPTX *)

\* What a segment of typed fields is made of.
LEMMA SegmentTyped ==
  ASSUME NEW id \in SegmentId, NEW type \in Names, NEW home \in Nat, NEW key \in Nat,
         NEW texts \in Seq(Place), NEW seg, seg = Segment(id, type, home, key, texts)
  PROVE  /\ seg \in DocSegment /\ seg.id = id /\ seg.type = type /\ seg.part = home /\ seg.key = key
         /\ seg.texts = texts /\ seg.state = "source"
BY DEF Segment, DocSegment

\* The ids of two parts ...
LEMMA PairTyped ==
  ASSUME NEW name \in Names, NEW a \in Nat
  PROVE  <<name, a>> \in SegmentId /\ <<name, a>>[1] = name /\ <<name, a>>[2] = a
<1>1. <<name, a>> \in Names \X Nat
  BY Zenon
<1>2. <<name, a>>[1] = name /\ <<name, a>>[2] = a
  OBVIOUS
<1> QED
  BY Zenon, <1>1, <1>2 DEF SegmentId

\* ... and of three.
LEMMA TripleTyped ==
  ASSUME NEW name \in Names, NEW a \in Nat, NEW b \in Nat
  PROVE  <<name, a, b>> \in SegmentId /\ <<name, a, b>>[2] = a /\ <<name, a, b>>[3] = b
<1>1. <<name, a, b>> \in Names \X Nat \X Nat
  BY Zenon
<1>2. <<name, a, b>>[2] = a /\ <<name, a, b>>[3] = b
  OBVIOUS
<1> QED
  BY Zenon, <1>1, <1>2 DEF SegmentId

\* texts are those of part p: the k-th is that of item g[k], and none is missing
TextsOf(texts, p, g) ==
  /\ g \in [DOMAIN texts -> DOMAIN file.parts[p]]
  /\ \A k \in DOMAIN texts : texts[k] = <<p, g[k]>> /\ TextAt(<<p, g[k]>>) # "none"
  /\ \A k, l \in DOMAIN texts : g[k] = g[l] => k = l
  /\ \A i \in DOMAIN file.parts[p] : Readable(<<p, i>>) => \E k \in DOMAIN texts : g[k] = i

\* The texts of a part are its items that are not empty and can be read, each of them once.
LEMMA PartTexts ==
  ASSUME IsFile, NEW p \in DOMAIN file.parts, NEW texts, texts = HasText(PlacesOf(p))
  PROVE  texts \in Seq(Place) /\ \E g : TextsOf(texts, p, g)
<1>1. PICK n \in Nat : /\ n = Len(file.parts[p]) /\ DOMAIN file.parts[p] = 1 .. n
                       /\ \A i \in 1 .. n : <<p, i>> \in Place /\ <<p, i>> \in Places
  BY PartsItems
<1>2. PICK places \in Seq(Place) : places = PlacesOf(p)
  <2>1. PlacesOf(p) \in [1 .. n -> Place]
    BY <1>1 DEF PlacesOf
  <2> QED
    BY <2>1
<1>3. Len(places) = n /\ DOMAIN places = 1 .. n /\ \A i \in 1 .. n : places[i] = <<p, i>>
  BY <1>1, <1>2 DEF PlacesOf
<1> DEFINE kept == {i \in DOMAIN places : TextAt(places[i]) # "none" /\ ~Hidden(places[i])}
<1>4. texts = Keeping(places, kept)
  BY <1>2 DEF HasText
<1>5. \A i \in 1 .. n : i \in kept <=> Readable(<<p, i>>)
  BY <1>3 DEF Readable
<1> HIDE DEF kept
<1>6. texts \in Seq(Place) /\ \E g : Picks(texts, places, kept, g)
  BY <1>4, KeepingPicks
<1>7. PICK g : Picks(texts, places, kept, g)
  BY <1>6
<1>8. PICK m \in Nat : m = Len(texts) /\ DOMAIN texts = 1 .. m
  BY <1>6
<1>9. /\ g \in [1 .. m -> 1 .. n]
      /\ \A k \in 1 .. m : g[k] \in kept /\ texts[k] = places[g[k]]
      /\ \A k, l \in 1 .. m : k < l => g[k] < g[l]
      /\ \A i \in 1 .. n : i \in kept => \E k \in 1 .. m : g[k] = i
  BY <1>3, <1>7, <1>8 DEF Picks
<1>10. ASSUME NEW k \in 1 .. m PROVE texts[k] = <<p, g[k]>> /\ TextAt(<<p, g[k]>>) # "none"
  <2>1. g[k] \in 1 .. n /\ g[k] \in kept
    BY <1>9
  <2> QED
    BY <1>3, <1>5, <1>9, <2>1 DEF Readable
<1>11. ASSUME NEW k \in 1 .. m, NEW l \in 1 .. m, g[k] = g[l] PROVE k = l
  <2>1. g[k] \in Nat /\ ~ (g[k] < g[l]) /\ ~ (g[l] < g[k])
    BY <1>9, <1>11
  <2> QED
    BY <1>9, <2>1
<1>12. TextsOf(texts, p, g)
  BY <1>1, <1>5, <1>8, <1>9, <1>10, <1>11 DEF TextsOf
<1> QED
  BY <1>6, <1>12

\* One segment for all texts of a part.
LEMMA OneSegmentOfPart ==
  ASSUME IsFile, NEW p \in DOMAIN file.parts, NEW seg \in DocSegment, NEW g,
         seg.texts # <<>>, TextsOf(seg.texts, p, g), seg.state = "source",
         seg.part = p, seg.id[2] = p, NEW segs, segs = <<seg>>
  PROVE  OfPart(segs, p)
<1>1. DOMAIN segs = {1} /\ segs[1] = seg
  OBVIOUS
<1>2. PICK texts \in Seq(Place) : texts = seg.texts
  BY DEF DocSegment
<1>3. ASSUME NEW t \in DOMAIN texts
      PROVE  texts[t] \in Places /\ TextAt(texts[t]) # "none" /\ texts[t][1] = p
  <2>1. g[t] \in DOMAIN file.parts[p] /\ texts[t] = <<p, g[t]>> /\ TextAt(<<p, g[t]>>) # "none"
    BY <1>2 DEF TextsOf
  <2>2. <<p, g[t]>> \in Places
    BY <2>1, PartsItems
  <2>3. <<p, g[t]>>[1] = p
    OBVIOUS
  <2> QED
    BY <2>1, <2>2, <2>3
<1>4. WellMade(segs)
  <2>1. Range(texts) \subseteq Places
    BY <1>3 DEF Range
  <2> QED
    BY <1>1, <1>2, <1>3, <2>1 DEF WellMade
<1>5. Distinct(segs)
  BY <1>1 DEF Distinct
<1>6. ASSUME NEW i \in DOMAIN file.parts[p], ToFind(<<p, i>>)
      PROVE  \E s \in DOMAIN segs : \A r \in DOMAIN segs : <<p, i>> \in Range(segs[r].texts) <=> r = s
  <2>1. PICK k \in DOMAIN texts : g[k] = i
    BY <1>2, <1>6 DEF TextsOf, ToFind, Readable
  <2>2. texts[k] = <<p, i>>
    BY <1>2, <2>1 DEF TextsOf
  <2>3. <<p, i>> \in Range(texts)
    BY <2>2 DEF Range
  <2>4. 1 \in DOMAIN segs /\ \A r \in DOMAIN segs : <<p, i>> \in Range(segs[r].texts) <=> r = 1
    BY <1>1, <1>2, <2>3
  <2> QED
    BY <2>4
<1>7. /\ \A s \in DOMAIN segs : segs[s].part = p /\ segs[s].id[2] = p
      /\ \A s \in DOMAIN segs : \A t \in DOMAIN segs[s].texts : segs[s].texts[t][1] = p
  BY <1>1, <1>2, <1>3
<1> QED
  BY <1>4, <1>5, <1>6, <1>7 DEF OfPart

\* A segment for each text of a part.
LEMMA SegmentForEachText ==
  ASSUME IsFile, NEW p \in DOMAIN file.parts, NEW texts \in Seq(Place), NEW g, TextsOf(texts, p, g),
         NEW segs, DOMAIN segs = DOMAIN texts,
         \A k \in DOMAIN texts : /\ segs[k].texts = <<texts[k]>> /\ segs[k].state = "source"
                                 /\ segs[k].part = p /\ segs[k].id[2] = p /\ segs[k].id[3] = k
  PROVE  OfPart(segs, p)
<1>1. ASSUME NEW k \in DOMAIN segs
      PROVE  /\ g[k] \in DOMAIN file.parts[p]
             /\ texts[k] = <<p, g[k]>> /\ TextAt(texts[k]) # "none" /\ texts[k] \in Places
             /\ texts[k][1] = p
  <2>1. g[k] \in DOMAIN file.parts[p] /\ texts[k] = <<p, g[k]>> /\ TextAt(<<p, g[k]>>) # "none"
    BY DEF TextsOf
  <2>2. <<p, g[k]>> \in Places
    BY <2>1, PartsItems
  <2>3. <<p, g[k]>>[1] = p
    OBVIOUS
  <2> QED
    BY <2>1, <2>2, <2>3
<1>2. ASSUME NEW k \in DOMAIN segs
      PROVE  /\ segs[k].texts # <<>> /\ Range(segs[k].texts) = {texts[k]}
             /\ \A t \in DOMAIN segs[k].texts : segs[k].texts[t] = texts[k]
  <2>1. PICK pl : pl = texts[k] /\ segs[k].texts = <<pl>>
    OBVIOUS
  <2> QED
    BY <2>1, OneText
<1>3. WellMade(segs)
  <2>1. ASSUME NEW k \in DOMAIN segs
        PROVE  /\ segs[k].texts # <<>> /\ Range(segs[k].texts) \subseteq Places
               /\ \A t \in DOMAIN segs[k].texts : TextAt(segs[k].texts[t]) # "none"
               /\ segs[k].state = "source"
    <3>1. segs[k].state = "source"
      OBVIOUS
    <3>2. Range(segs[k].texts) \subseteq Places
      <4>1. Range(segs[k].texts) = {texts[k]} /\ texts[k] \in Places
        BY <1>1, <1>2
      <4> QED
        BY Zenon, <4>1
    <3>3. ASSUME NEW t \in DOMAIN segs[k].texts PROVE TextAt(segs[k].texts[t]) # "none"
      <4>1. segs[k].texts[t] = texts[k] /\ TextAt(texts[k]) # "none"
        BY <1>1, <1>2
      <4> QED
        BY <4>1
    <3> QED
      BY <1>2, <3>1, <3>2, <3>3
  <2> QED
    BY <2>1 DEF WellMade
<1>4. Distinct(segs)
  <2>1. \A s, r \in DOMAIN segs : segs[s].id[3] = s /\ segs[r].id[3] = r
    OBVIOUS
  <2> QED
    BY <2>1 DEF Distinct
<1>5. ASSUME NEW i \in DOMAIN file.parts[p], ToFind(<<p, i>>)
      PROVE  \E s \in DOMAIN segs : \A r \in DOMAIN segs : <<p, i>> \in Range(segs[r].texts) <=> r = s
  <2>1. PICK k \in DOMAIN segs : g[k] = i
    BY <1>5 DEF TextsOf, ToFind, Readable
  <2>2. ASSUME NEW r \in DOMAIN segs PROVE <<p, i>> \in Range(segs[r].texts) <=> r = k
    <3>1. Range(segs[r].texts) = {texts[r]} /\ texts[r] = <<p, g[r]>>
      BY <1>1, <1>2
    <3>2. <<p, i>> = <<p, g[r]>> <=> g[r] = i
      OBVIOUS
    <3>3. g[r] = g[k] => r = k
      BY DEF TextsOf
    <3> QED
      BY <2>1, <3>1, <3>2, <3>3
  <2> QED
    BY Zenon, <2>2
<1>6. /\ \A s \in DOMAIN segs : segs[s].part = p /\ segs[s].id[2] = p
      /\ \A s \in DOMAIN segs : \A t \in DOMAIN segs[s].texts : segs[s].texts[t][1] = p
  BY <1>1, <1>2
<1> QED
  BY <1>3, <1>4, <1>5, <1>6 DEF OfPart

\* Frames apart: a segment is one frame, under its position.
OfFrame(seg, p) ==
  ~config.merge => \E i \in DOMAIN file.parts[p] :
                     seg.texts = <<<<p, i>>>> /\ seg.key = Position(<<p, i>>)
OnlyFrames(segs) ==
  \A s \in DOMAIN segs :
    /\ segs[s].part \in DOMAIN file.parts /\ OfFrame(segs[s], segs[s].part)
    /\ \A t \in DOMAIN segs[s].texts : segs[s].texts[t][1] = segs[s].part
\* and each frame with a text has one
EachFrame(segs, p) ==
  ~config.merge => \A i \in DOMAIN file.parts[p] : Readable(<<p, i>>) =>
                     \E s \in DOMAIN segs : segs[s].texts = <<<<p, i>>>>

\* The segments of a slide: one for all of its frames or one for each (_extract_text_frames).
LEMMA SlideRight ==
  ASSUME IsFile, NEW p \in DOMAIN file.parts, NEW segs, segs = SlideSegments(p, p)
  PROVE  /\ segs \in Seq(DocSegment) /\ OfPart(segs, p)
         /\ \A s \in DOMAIN segs : OfFrame(segs[s], p)
         /\ EachFrame(segs, p)
<1>1. PICK texts : texts = TextFrames(p)
  OBVIOUS
<1>2. texts \in Seq(Place) /\ \E g : TextsOf(texts, p, g)
  BY <1>1, PartTexts DEF TextFrames
<1>3. PICK g : TextsOf(texts, p, g)
  BY <1>2
<1>4. p \in Nat /\ "slide" \in Names /\ "shape" \in Names /\ 0 \in Nat
  BY PartsItems DEF Names
<1>5. CASE config.merge /\ texts = <<>>
  <2>1. segs = <<>> /\ DOMAIN <<>> = {}
    BY <1>1, <1>5 DEF SlideSegments
  <2>2. \A i \in DOMAIN file.parts[p] : ~ToFind(<<p, i>>)
    BY <1>3, <1>5 DEF TextsOf, ToFind, Readable
  <2> QED
    BY <1>5, <2>1, <2>2, NoSegments DEF EachFrame
<1>6. CASE config.merge /\ texts # <<>>
  <2>1. PICK id \in SegmentId : id = <<"slide", p>> /\ id[2] = p
    <3>1. <<"slide", p>> \in SegmentId /\ <<"slide", p>>[2] = p
      BY <1>4, PairTyped, Zenon
    <3> QED
      BY <3>1, Zenon
  <2>2. PICK seg : seg = Segment(id, "slide", p, 0, texts)
    OBVIOUS
  <2>3. /\ seg \in DocSegment /\ seg.id = id /\ seg.part = p
        /\ seg.texts = texts /\ seg.state = "source"
    BY <1>2, <1>4, <2>2 DEF Segment, DocSegment, Names
  <2>4. segs = <<seg>>
    BY <1>1, <1>6, <2>1, <2>2 DEF SlideSegments
  <2>5. OfPart(segs, p)
    BY <1>3, <1>6, <2>1, <2>3, <2>4, OneSegmentOfPart
  <2>6. segs \in Seq(DocSegment)
    BY <2>3, <2>4
  <2> QED
    BY <1>6, <2>5, <2>6 DEF OfFrame, EachFrame
<1>7. CASE ~config.merge
  <2>1. DOMAIN segs = DOMAIN texts /\ segs = [k \in DOMAIN texts |-> segs[k]]
    BY <1>1, <1>7 DEF SlideSegments
  <2>2. ASSUME NEW k \in DOMAIN texts
        PROVE  /\ segs[k] \in DocSegment /\ OfFrame(segs[k], p)
               /\ segs[k].texts = <<texts[k]>> /\ segs[k].state = "source"
               /\ segs[k].part = p /\ segs[k].id[2] = p /\ segs[k].id[3] = k
    <3>1. k \in Nat
      BY <1>2
    <3>2. PICK id \in SegmentId : id = <<"shape", p, k>> /\ id[2] = p /\ id[3] = k
      <4>1. <<"shape", p, k>> \in SegmentId /\ <<"shape", p, k>>[2] = p /\ <<"shape", p, k>>[3] = k
        BY <1>4, <3>1, TripleTyped, Zenon
      <4> QED
        BY <4>1, Zenon
    <3>3. PICK pl \in Place : pl = texts[k]
      BY <1>2
    <3>4. PICK i \in DOMAIN file.parts[p] : i = g[k] /\ pl = <<p, i>>
      BY <1>3, <3>3 DEF TextsOf
    <3>5. PICK key \in Nat : key = Position(pl)
      <4>1. ItemAt(pl) \in Item
        BY <3>4, PartsItems
      <4> QED
        BY <4>1 DEF Position, Item, Inside
    <3>6. PICK one \in Seq(Place) : one = <<pl>>
      <4>1. <<pl>> \in Seq(Place)
        OBVIOUS
      <4> QED
        BY <4>1, Zenon
    <3>7. PICK seg : seg = segs[k] /\ seg = Segment(id, "slide", p, key, one)
      BY <1>1, <1>7, <3>2, <3>3, <3>5, <3>6 DEF SlideSegments
    <3>8. /\ seg \in DocSegment /\ seg.id = id /\ seg.part = p /\ seg.key = key
          /\ seg.texts = one /\ seg.state = "source"
      BY <1>4, <3>7, SegmentTyped
    <3>9. segs[k].texts = <<<<p, i>>>> /\ segs[k].key = Position(<<p, i>>)
      BY <3>4, <3>5, <3>6, <3>7, <3>8
    <3> QED
      BY <3>2, <3>3, <3>6, <3>7, <3>8, <3>9 DEF OfFrame
  <2>3. OfPart(segs, p)
    BY <1>2, <1>3, <2>1, <2>2, SegmentForEachText
  <2>4. segs \in Seq(DocSegment)
    <3>1. PICK n \in Nat : DOMAIN texts = 1 .. n
      BY <1>2
    <3>2. segs \in [1 .. n -> DocSegment]
      BY <2>1, <2>2, <3>1
    <3> QED
      BY <3>2
  <2>5. ASSUME NEW i \in DOMAIN file.parts[p], Readable(<<p, i>>)
        PROVE  \E s \in DOMAIN segs : segs[s].texts = <<<<p, i>>>>
    <3>1. PICK k \in DOMAIN texts : g[k] = i
      BY <1>3, <2>5 DEF TextsOf
    <3>2. texts[k] = <<p, i>>
      BY <1>3, <3>1 DEF TextsOf
    <3> QED
      BY <2>1, <2>2, <3>2
  <2>6. EachFrame(segs, p)
    BY <2>5 DEF EachFrame
  <2> QED
    BY <2>1, <2>2, <2>3, <2>4, <2>6
<1> QED
  BY <1>5, <1>6, <1>7

\* The segments of a presentation: each frame is in one of its own slide.
LEMMA PptxRight ==
  ASSUME IsFile, file.format = "pptx", NEW out, out = PptxSegments
  PROVE  /\ out \in Seq(DocSegment) /\ WellMade(out) /\ Distinct(out) /\ Covers(out)
         /\ OnlyFrames(out) /\ \A p \in DOMAIN file.parts : EachFrame(out, p)
<1> DEFINE pieces == [p \in DOMAIN file.parts |-> SlideSegments(p, p)]
<1>1. ASSUME NEW p \in DOMAIN file.parts
      PROVE  /\ pieces[p] \in Seq(DocSegment) /\ OfPart(pieces[p], p)
             /\ \A s \in DOMAIN pieces[p] : OfFrame(pieces[p][s], p)
             /\ EachFrame(pieces[p], p)
  <2>1. pieces[p] = SlideSegments(p, p)
    OBVIOUS
  <2> HIDE DEF pieces
  <2> QED
    BY <2>1, SlideRight
<1>2. pieces \in [DOMAIN file.parts -> Seq(DocSegment)]
  BY <1>1
<1>3. out = FlattenSeq(pieces)
  BY DEF PptxSegments, SlideNumber
<1> HIDE DEF pieces
<1>4. /\ out \in Seq(DocSegment) /\ WellMade(out) /\ Distinct(out) /\ Covers(out)
      /\ \A s \in DOMAIN out :
           /\ out[s].part \in DOMAIN file.parts
           /\ \E j \in DOMAIN pieces[out[s].part] : out[s] = pieces[out[s].part][j]
      /\ \A p \in DOMAIN file.parts : \A j \in DOMAIN pieces[p] :
           \E s \in DOMAIN out : out[s] = pieces[p][j]
  BY <1>1, <1>2, <1>3, PartByPart
<1>5. ASSUME NEW s \in DOMAIN out
      PROVE  /\ out[s].part \in DOMAIN file.parts /\ OfFrame(out[s], out[s].part)
             /\ \A t \in DOMAIN out[s].texts : out[s].texts[t][1] = out[s].part
  <2>1. PICK p \in DOMAIN file.parts : p = out[s].part /\ \E j \in DOMAIN pieces[p] : out[s] = pieces[p][j]
    BY <1>4
  <2>2. PICK j \in DOMAIN pieces[p] : out[s] = pieces[p][j]
    BY <2>1
  <2>3. OfFrame(out[s], p) /\ OfPart(pieces[p], p)
    BY <1>1, <2>2
  <2>4. \A t \in DOMAIN out[s].texts : out[s].texts[t][1] = p
    BY <2>2, <2>3 DEF OfPart
  <2> QED
    BY <2>1, <2>3, <2>4
<1>6. OnlyFrames(out)
  BY <1>5 DEF OnlyFrames
<1>7. ASSUME NEW p \in DOMAIN file.parts PROVE EachFrame(out, p)
  <2>1. ASSUME ~config.merge, NEW i \in DOMAIN file.parts[p], Readable(<<p, i>>)
        PROVE  \E s \in DOMAIN out : out[s].texts = <<<<p, i>>>>
    <3>1. PICK j \in DOMAIN pieces[p] : pieces[p][j].texts = <<<<p, i>>>>
      BY <1>1, <2>1 DEF EachFrame
    <3>2. PICK s \in DOMAIN out : out[s] = pieces[p][j]
      BY <1>4
    <3> QED
      BY <3>1, <3>2
  <2> QED
    BY <2>1 DEF EachFrame
<1> QED
  BY <1>4, <1>6, <1>7

-----------------------------------------------------------------------------
(* PDF *)

\* The lines of a merged page, the furthest down first.
BottomUp(texts) ==
  \A k, l \in DOMAIN texts : k < l => ItemAt(texts[k]).at >= ItemAt(texts[l]).at
OnlyPages(segs) ==
  \A s \in DOMAIN segs :
    /\ \A t \in DOMAIN segs[s].texts : segs[s].texts[t][1] = segs[s].key
    /\ config.merge => BottomUp(segs[s].texts)

\* The text of a page has every line of it once, from the bottom if the blocks are merged.
LEMMA PageTexts ==
  ASSUME IsFile, NEW p \in DOMAIN file.parts, NEW texts, texts = PageText(p)
  PROVE  /\ texts \in Seq(Place) /\ (\E g : TextsOf(texts, p, g))
         /\ config.merge => BottomUp(texts)
<1>1. PICK blocks : blocks = HasText(PlacesOf(p))
  OBVIOUS
<1>2. blocks \in Seq(Place) /\ \E g : TextsOf(blocks, p, g)
  BY <1>1, PartTexts
<1>3. CASE ~config.merge
  BY <1>1, <1>2, <1>3 DEF PageText
<1>4. CASE config.merge
  <2>1. PICK n \in Nat : n = Len(blocks) /\ DOMAIN blocks = 1 .. n
    BY <1>2
  <2>2. PICK g : TextsOf(blocks, p, g)
    BY <1>2
  <2>3. PICK key : key = [i \in DOMAIN blocks |-> -ItemAt(blocks[i]).at]
    OBVIOUS
  <2>4. ASSUME NEW i \in 1 .. n PROVE ItemAt(blocks[i]).at \in Nat /\ key[i] = -ItemAt(blocks[i]).at
    <3>1. g[i] \in DOMAIN file.parts[p] /\ blocks[i] = <<p, g[i]>>
      BY <2>1, <2>2 DEF TextsOf
    <3>2. ItemAt(blocks[i]) \in Item
      BY <3>1, PartsItems
    <3> QED
      BY <2>1, <2>3, <3>2 DEF Item
  <2>5. key \in [1 .. Len(blocks) -> Int]
    <3>1. DOMAIN key = 1 .. n /\ key = [i \in 1 .. n |-> key[i]]
      BY <2>1, <2>3
    <3>2. \A i \in 1 .. n : key[i] \in Int
      BY <2>4
    <3> QED
      BY <2>1, <3>1, <3>2
  <2>6. texts = SortedByKey(blocks, key)
    BY <1>1, <1>4, <2>3 DEF PageText, MergeBlocks
  <2>7. texts \in Seq(Place) /\ \E h : Sorts(texts, blocks, key, h)
    BY <1>2, <2>5, <2>6, SortedByKeySorts
  <2>8. PICK h : Sorts(texts, blocks, key, h)
    BY <2>7
  <2>9. /\ DOMAIN texts = 1 .. n
        /\ h \in [1 .. n -> 1 .. n]
        /\ \A k \in 1 .. n : texts[k] = blocks[h[k]]
        /\ \A k, l \in 1 .. n : k < l => key[h[k]] < key[h[l]] \/ (key[h[k]] = key[h[l]] /\ h[k] < h[l])
        /\ \A i \in 1 .. n : \E k \in 1 .. n : h[k] = i
    <3>1. Sorts(texts, blocks, key, h) /\ Len(blocks) = n
      BY <2>1, <2>8
    <3>2. Len(texts) = n
      BY <3>1 DEF Sorts
    <3>3. DOMAIN texts = 1 .. n
      BY <2>7, <3>2
    <3> QED
      BY Zenon, <3>1, <3>3 DEF Sorts
  <2> DEFINE gh == [k \in 1 .. n |-> g[h[k]]]
  <2>10. ASSUME NEW k \in 1 .. n
         PROVE  /\ h[k] \in 1 .. n /\ gh[k] \in DOMAIN file.parts[p]
                /\ texts[k] = <<p, gh[k]>> /\ TextAt(<<p, gh[k]>>) # "none"
    <3>1. h[k] \in 1 .. n /\ gh[k] = g[h[k]]
      BY <2>9
    <3> HIDE DEF gh
    <3> QED
      BY SMTT(30), <2>1, <2>2, <2>9, <3>1 DEF TextsOf
  <2>11. ASSUME NEW k \in 1 .. n, NEW l \in 1 .. n, gh[k] = gh[l] PROVE k = l
    <3>1. h[k] \in 1 .. n /\ h[l] \in 1 .. n /\ g[h[k]] = g[h[l]]
      BY <2>9, <2>11
    <3>2. h[k] = h[l]
      BY <2>1, <2>2, <3>1 DEF TextsOf
    <3>3. PICK a \in Int : a = key[h[k]] /\ a = key[h[l]]
      BY <2>1, <2>5, <3>1, <3>2
    <3>4. PICK b \in Int : b = h[k] /\ b = h[l]
      BY <3>1, <3>2
    <3>5. ~ (key[h[k]] < key[h[l]]) /\ ~ (key[h[l]] < key[h[k]]) /\ ~ (h[k] < h[l]) /\ ~ (h[l] < h[k])
      BY <3>3, <3>4
    <3>6. ~ (k < l) /\ ~ (l < k)
      BY Zenon, <2>9, <3>5
    <3> QED
      BY <3>6
  <2>12. ASSUME NEW i \in DOMAIN file.parts[p], Readable(<<p, i>>) PROVE \E k \in 1 .. n : gh[k] = i
    <3>1. PICK j \in 1 .. n : g[j] = i
      BY <2>1, <2>2, <2>12 DEF TextsOf
    <3>2. PICK k \in 1 .. n : h[k] = j
      BY <2>9
    <3>3. gh[k] = i
      BY <3>1, <3>2
    <3> QED
      BY <3>3
  <2>13. gh \in [1 .. n -> DOMAIN file.parts[p]]
    BY <2>10
  <2>14. ASSUME NEW k \in 1 .. n, NEW l \in 1 .. n, k < l
         PROVE  ItemAt(texts[k]).at >= ItemAt(texts[l]).at
    <3>1. h[k] \in 1 .. n /\ h[l] \in 1 .. n /\ key[h[k]] <= key[h[l]]
      <4>1. h[k] \in 1 .. n /\ h[l] \in 1 .. n
        BY <2>9
      <4>2. PICK a \in Int, b \in Int : a = key[h[k]] /\ b = key[h[l]]
        BY <2>1, <2>5, <4>1
      <4>3. a < b \/ a = b
        BY Zenon, <2>9, <2>14, <4>2
      <4> QED
        BY <4>1, <4>2, <4>3
    <3>2. texts[k] = blocks[h[k]] /\ texts[l] = blocks[h[l]]
      BY <2>9
    <3> QED
      BY <2>4, <3>1, <3>2
  <2> HIDE DEF gh
  <2>15. TextsOf(texts, p, gh)
    BY <2>9, <2>10, <2>11, <2>12, <2>13 DEF TextsOf
  <2>16. BottomUp(texts)
    BY <2>9, <2>14 DEF BottomUp
  <2> QED
    BY <2>7, <2>15, <2>16
<1> QED
  BY <1>3, <1>4

\* The segment of a page, if it has a text.
LEMMA PageRight ==
  ASSUME IsFile, NEW p \in DOMAIN file.parts, NEW segs,
         segs = IF PageText(p) = <<>> THEN <<>>
                ELSE <<Segment(<<"page", p>>, "page", p, p, PageText(p))>>
  PROVE  /\ segs \in Seq(DocSegment) /\ OfPart(segs, p)
         /\ \A s \in DOMAIN segs : segs[s].key = p /\ (config.merge => BottomUp(segs[s].texts))
<1>1. PICK texts : texts = PageText(p)
  OBVIOUS
<1>2. texts \in Seq(Place) /\ (\E g : TextsOf(texts, p, g)) /\ (config.merge => BottomUp(texts))
  BY <1>1, PageTexts
<1>3. PICK g : TextsOf(texts, p, g)
  BY <1>2
<1>4. p \in Nat /\ "page" \in Names
  BY PartsItems DEF Names
<1>5. CASE texts = <<>>
  <2>1. segs = <<>> /\ DOMAIN <<>> = {}
    BY <1>1, <1>5
  <2>2. \A i \in DOMAIN file.parts[p] : ~ToFind(<<p, i>>)
    BY <1>3, <1>5 DEF TextsOf, ToFind, Readable
  <2> QED
    BY <2>1, <2>2, NoSegments
<1>6. CASE texts # <<>>
  <2>1. PICK id \in SegmentId : id = <<"page", p>> /\ id[2] = p
    <3>1. <<"page", p>> \in SegmentId /\ <<"page", p>>[2] = p
      BY <1>4, PairTyped, Zenon
    <3> QED
      BY <3>1, Zenon
  <2>2. PICK seg : seg = Segment(id, "page", p, p, texts)
    OBVIOUS
  <2>3. /\ seg \in DocSegment /\ seg.id = id /\ seg.part = p /\ seg.key = p
        /\ seg.texts = texts /\ seg.state = "source"
    BY <1>2, <1>4, <2>2, SegmentTyped
  <2>4. segs = <<seg>>
    BY <1>1, <1>6, <2>1, <2>2
  <2>5. OfPart(segs, p)
    BY <1>3, <1>6, <2>1, <2>3, <2>4, OneSegmentOfPart
  <2>6. segs \in Seq(DocSegment) /\ DOMAIN segs = {1} /\ segs[1] = seg
    <3>1. PICK one \in DocSegment : one = seg
      BY <2>3
    <3>2. <<one>> \in Seq(DocSegment) /\ DOMAIN <<one>> = {1} /\ <<one>>[1] = one
      OBVIOUS
    <3> QED
      BY <2>4, <3>1, <3>2
  <2> QED
    BY <1>2, <2>3, <2>5, <2>6
<1> QED
  BY <1>5, <1>6

\* The segments of a PDF: each line is in the one of its page.
LEMMA PdfRight ==
  ASSUME IsFile, file.format = "pdf", NEW out, out = PdfSegments
  PROVE  /\ out \in Seq(DocSegment) /\ WellMade(out) /\ Distinct(out) /\ Covers(out)
         /\ OnlyPages(out)
<1> DEFINE pieces == [p \in DOMAIN file.parts |->
                        IF PageText(p) = <<>> THEN <<>>
                        ELSE <<Segment(<<"page", p>>, "page", p, p, PageText(p))>>]
<1>1. ASSUME NEW p \in DOMAIN file.parts
      PROVE  /\ pieces[p] \in Seq(DocSegment) /\ OfPart(pieces[p], p)
             /\ \A s \in DOMAIN pieces[p] :
                  pieces[p][s].key = p /\ (config.merge => BottomUp(pieces[p][s].texts))
  <2>1. pieces[p] = IF PageText(p) = <<>> THEN <<>>
                    ELSE <<Segment(<<"page", p>>, "page", p, p, PageText(p))>>
    OBVIOUS
  <2> HIDE DEF pieces
  <2> QED
    BY <2>1, PageRight
<1>2. pieces \in [DOMAIN file.parts -> Seq(DocSegment)]
  BY <1>1
<1>3. out = FlattenSeq(pieces)
  BY DEF PdfSegments
<1> HIDE DEF pieces
<1>4. /\ out \in Seq(DocSegment) /\ WellMade(out) /\ Distinct(out) /\ Covers(out)
      /\ \A s \in DOMAIN out :
           /\ out[s].part \in DOMAIN file.parts
           /\ \E j \in DOMAIN pieces[out[s].part] : out[s] = pieces[out[s].part][j]
  BY <1>1, <1>2, <1>3, PartByPart
<1>5. ASSUME NEW s \in DOMAIN out
      PROVE  /\ \A t \in DOMAIN out[s].texts : out[s].texts[t][1] = out[s].key
             /\ config.merge => BottomUp(out[s].texts)
  <2>1. PICK p \in DOMAIN file.parts : \E j \in DOMAIN pieces[p] : out[s] = pieces[p][j]
    BY <1>4
  <2>2. PICK j \in DOMAIN pieces[p] : out[s] = pieces[p][j]
    BY <2>1
  <2>3. out[s].key = p /\ (config.merge => BottomUp(out[s].texts)) /\ OfPart(pieces[p], p)
    BY <1>1, <2>2
  <2> QED
    BY <2>2, <2>3 DEF OfPart
<1>6. OnlyPages(out)
  BY <1>5 DEF OnlyPages
<1> QED
  BY <1>4, <1>6

-----------------------------------------------------------------------------
(* DOCX: where the paragraphs and cells come from *)

Info == [place : Place, ref : Nat]

\* an entry of what the parser lists: a paragraph of the body, or one of a table at a
\* position of its cell
Entry(info) ==
  \E p \in DOMAIN file.parts : \E i \in DOMAIN file.parts[p] :
    /\ info.place = <<p, i>>
    /\ IF p = 1 THEN info.ref = 0
                ELSE config.tables /\ ~Hidden(<<p, i>>) /\ info.ref \in file.parts[p][i].grid
ListedOnce(infos) ==
  /\ \A k \in DOMAIN infos : Entry(infos[k])
  /\ \A k, l \in DOMAIN infos :
       infos[k].place = infos[l].place /\ infos[k].ref = infos[l].ref => k = l

\* a place the parser lists
Listed(p, i) == /\ p \in DOMAIN file.parts /\ i \in DOMAIN file.parts[p]
                /\ p = 1 \/ (config.tables /\ ~Hidden(<<p, i>>))
Wanted(p, i) == config.includeEmpty \/ TextAt(<<p, i>>) # "none"

\* What an entry is made of.
LEMMA EntryRight ==
  ASSUME IsFile, NEW info \in Info, Entry(info)
  PROVE  /\ info.place \in Place /\ info.place \in Places /\ ItemAt(info.place) \in Item
         /\ info.place[1] \in DOMAIN file.parts /\ info.place[1] \in Nat \ {0} /\ info.ref \in Nat
         /\ info.ref > 0 <=> info.place[1] # 1
         /\ info.place[1] # 1 => /\ config.tables /\ ~Hidden(info.place)
                                 /\ info.ref \in ItemAt(info.place).grid
<1>1. PICK p \in DOMAIN file.parts : \E i \in DOMAIN file.parts[p] :
        /\ info.place = <<p, i>>
        /\ IF p = 1 THEN info.ref = 0
                    ELSE config.tables /\ ~Hidden(<<p, i>>) /\ info.ref \in file.parts[p][i].grid
  BY DEF Entry
<1>2. PICK i \in DOMAIN file.parts[p] :
        /\ info.place = <<p, i>>
        /\ IF p = 1 THEN info.ref = 0
                    ELSE config.tables /\ ~Hidden(<<p, i>>) /\ info.ref \in file.parts[p][i].grid
  BY <1>1
<1>3. /\ <<p, i>> \in Place /\ <<p, i>> \in Places /\ ItemAt(<<p, i>>) = file.parts[p][i]
      /\ file.parts[p][i] \in Item /\ p \in Nat \ {0}
  BY PartsItems
<1>4. PICK place : place = <<p, i>> /\ place[1] = p
  <2>1. <<p, i>>[1] = p
    OBVIOUS
  <2> QED
    BY <2>1, Zenon
<1>5. info.ref \in Nat
  BY DEF Info
<1>6. p # 1 => info.ref \in 1 .. GridSize
  <2>1. file.parts[p][i].grid \subseteq 1 .. GridSize
    BY <1>3, GridFinite
  <2> QED
    BY <1>2, <2>1
<1>7. GridSize \in Nat
  BY DocumentAssumption
<1>8. info.ref > 0 <=> p # 1
  BY <1>2, <1>6, <1>7
<1> QED
  BY <1>2, <1>3, <1>4, <1>5, <1>8

\* A list of paragraphs with one reference.
LEMMA InfosAtRight ==
  ASSUME NEW places \in Seq(Place), NEW ref \in Nat, NEW infos, infos = InfosAt(places, ref)
  PROVE  /\ infos \in Seq(Info) /\ Len(infos) = Len(places) /\ DOMAIN infos = DOMAIN places
         /\ \A k \in DOMAIN infos : infos[k].place = places[k] /\ infos[k].ref = ref
<1>1. PICK n \in Nat : n = Len(places) /\ DOMAIN places = 1 .. n
  OBVIOUS
<1>2. infos = [k \in 1 .. n |-> [place |-> places[k], ref |-> ref]]
  BY <1>1 DEF InfosAt
<1>3. ASSUME NEW k \in 1 .. n
      PROVE  infos[k] \in Info /\ infos[k].place = places[k] /\ infos[k].ref = ref
  <2>1. PICK pl \in Place : pl = places[k]
    BY <1>1
  <2>2. infos[k] = [place |-> pl, ref |-> ref]
    BY <1>2, <2>1
  <2> QED
    BY <2>1, <2>2 DEF Info
<1>4. infos \in [1 .. n -> Info]
  BY <1>2, <1>3
<1> QED
  BY <1>1, <1>3, <1>4

\* the paragraphs at position c of table p, each once
AtPosition(cells, p, c) ==
  /\ \A k \in DOMAIN cells : \E i \in DOMAIN file.parts[p] :
       cells[k] = <<p, i>> /\ c \in file.parts[p][i].grid /\ ~Hidden(<<p, i>>)
  /\ \A k, l \in DOMAIN cells : cells[k] = cells[l] => k = l
  /\ \A i \in DOMAIN file.parts[p] :
       c \in file.parts[p][i].grid /\ ~Hidden(<<p, i>>) => \E k \in DOMAIN cells : cells[k] = <<p, i>>

\* The paragraphs of the cell at one position.
LEMMA CellParagraphsRight ==
  ASSUME IsFile, NEW p \in DOMAIN file.parts, NEW c, NEW cells, cells = CellParagraphs(p, c)
  PROVE  cells \in Seq(Place) /\ AtPosition(cells, p, c)
<1>1. PICK n \in Nat : /\ n = Len(file.parts[p]) /\ DOMAIN file.parts[p] = 1 .. n
                       /\ \A i \in 1 .. n : <<p, i>> \in Place
  BY PartsItems
<1>2. PICK places \in Seq(Place) : places = PlacesOf(p)
  <2>1. PlacesOf(p) \in [1 .. n -> Place]
    BY <1>1 DEF PlacesOf
  <2> QED
    BY <2>1
<1>3. Len(places) = n /\ DOMAIN places = 1 .. n /\ \A i \in 1 .. n : places[i] = <<p, i>>
  BY <1>1, <1>2 DEF PlacesOf
<1> DEFINE kept == {i \in DOMAIN file.parts[p] : c \in file.parts[p][i].grid /\ ~Hidden(<<p, i>>)}
<1>4. cells = Keeping(places, kept)
  BY <1>2 DEF CellParagraphs
<1>5. \A i \in 1 .. n : i \in kept <=> c \in file.parts[p][i].grid /\ ~Hidden(<<p, i>>)
  BY <1>1
<1> HIDE DEF kept
<1>6. cells \in Seq(Place) /\ \E g : Picks(cells, places, kept, g)
  BY <1>4, KeepingPicks
<1>7. PICK g : Picks(cells, places, kept, g)
  BY <1>6
<1>8. PICK m \in Nat : m = Len(cells) /\ DOMAIN cells = 1 .. m
  BY <1>6
<1>9. /\ g \in [1 .. m -> 1 .. n]
      /\ \A k \in 1 .. m : g[k] \in kept /\ cells[k] = places[g[k]]
      /\ \A k, l \in 1 .. m : k < l => g[k] < g[l]
      /\ \A i \in 1 .. n : i \in kept => \E k \in 1 .. m : g[k] = i
  BY <1>3, <1>7, <1>8 DEF Picks
<1>10. ASSUME NEW k \in 1 .. m PROVE g[k] \in 1 .. n /\ g[k] \in kept /\ cells[k] = <<p, g[k]>>
  BY <1>3, <1>9
<1>11. ASSUME NEW k \in 1 .. m, NEW l \in 1 .. m, cells[k] = cells[l] PROVE k = l
  <2>1. <<p, g[k]>> = <<p, g[l]>>
    BY <1>10, <1>11
  <2>2. g[k] = g[l]
    BY <2>1
  <2>3. g[k] \in Nat /\ ~ (g[k] < g[l]) /\ ~ (g[l] < g[k])
    BY <1>10, <2>2
  <2> QED
    BY <1>9, <2>3
<1>12. ASSUME NEW k \in 1 .. m
       PROVE  \E i \in DOMAIN file.parts[p] :
                cells[k] = <<p, i>> /\ c \in file.parts[p][i].grid /\ ~Hidden(<<p, i>>)
  BY <1>1, <1>5, <1>10
<1>13. ASSUME NEW i \in DOMAIN file.parts[p], c \in file.parts[p][i].grid, ~Hidden(<<p, i>>)
       PROVE  \E k \in 1 .. m : cells[k] = <<p, i>>
  <2>1. i \in 1 .. n /\ i \in kept
    BY <1>1, <1>5, <1>13
  <2>2. PICK k \in 1 .. m : g[k] = i
    BY <1>9, <2>1
  <2> QED
    BY <1>10, <2>2
<1> QED
  BY <1>6, <1>8, <1>11, <1>12, <1>13 DEF AtPosition

\* the entries of one part, and all that the parser lists of it
OfOnePart(infos, p) ==
  /\ ListedOnce(infos) /\ \A k \in DOMAIN infos : infos[k].place[1] = p
  /\ \A i : Listed(p, i) => \E k \in DOMAIN infos : infos[k].place = <<p, i>>

\* The cells of a table as python-docx lists them: the paragraphs of each, at every position
\* of a merged one.
LEMMA TableInfosRight ==
  ASSUME IsFile, NEW p \in DOMAIN file.parts, p # 1, config.tables,
         NEW infos, infos = TableInfos(p)
  PROVE  infos \in Seq(Info) /\ OfOnePart(infos, p)
<1>1. PICK n \in Nat : n = GridSize
  BY DocumentAssumption
<1> DEFINE pieces == [c \in 1 .. n |-> InfosAt(CellParagraphs(p, c), c)]
<1>2. ASSUME NEW c \in 1 .. n
      PROVE  /\ pieces[c] \in Seq(Info) /\ DOMAIN pieces[c] = DOMAIN CellParagraphs(p, c)
             /\ \A k \in DOMAIN pieces[c] :
                  pieces[c][k].place = CellParagraphs(p, c)[k] /\ pieces[c][k].ref = c
  <2>1. PICK cells : cells = CellParagraphs(p, c)
    OBVIOUS
  <2>2. cells \in Seq(Place)
    BY <2>1, CellParagraphsRight
  <2>3. PICK piece : piece = InfosAt(cells, c)
    OBVIOUS
  <2>4. /\ piece \in Seq(Info) /\ DOMAIN piece = DOMAIN cells
        /\ \A k \in DOMAIN piece : piece[k].place = cells[k] /\ piece[k].ref = c
    <3>1. c \in Nat
      OBVIOUS
    <3> QED
      BY <2>2, <2>3, <3>1, InfosAtRight
  <2>5. pieces[c] = piece
    BY <2>1, <2>3
  <2> QED
    BY <2>1, <2>4, <2>5
<1>3. infos = FlattenSeq(pieces) /\ DOMAIN pieces = 1 .. n /\ pieces = [c \in 1 .. n |-> pieces[c]]
  BY <1>1 DEF TableInfos
<1> HIDE DEF pieces
<1>4. pieces \in Seq(Seq(Info)) /\ Len(pieces) = n
  <2>1. pieces \in [1 .. n -> Seq(Info)]
    BY <1>2, <1>3
  <2> QED
    BY <2>1
<1>5. infos \in Seq(Info) /\ \E from, at : Origins(infos, pieces, Len(pieces), from, at)
  BY <1>3, <1>4, FlattenedInOrder
<1>6. PICK from, at : Origins(infos, pieces, Len(pieces), from, at)
  BY <1>5
<1>7. PICK m \in Nat : m = Len(infos) /\ DOMAIN infos = 1 .. m
  BY <1>5
<1>8. OneOrigin(infos, pieces, Len(infos), Len(pieces), from, at)
  BY <1>4, <1>5, <1>6, OriginsByPlace
<1>9. OneOrigin(infos, pieces, m, n, from, at)
  BY <1>4, <1>7, <1>8
<1>10. /\ from \in [1 .. m -> 1 .. n] /\ at \in [1 .. m -> Nat]
       /\ \A k \in 1 .. m : at[k] \in DOMAIN pieces[from[k]] /\ infos[k] = pieces[from[k]][at[k]]
       /\ \A k, l \in 1 .. m : from[k] = from[l] /\ at[k] = at[l] => k = l
       /\ \A c \in 1 .. n : \A j \in DOMAIN pieces[c] : \E k \in 1 .. m : from[k] = c /\ at[k] = j
  BY <1>9 DEF OneOrigin
<1>11. ASSUME NEW k \in 1 .. m
       PROVE  /\ from[k] \in 1 .. n /\ infos[k].ref = from[k]
              /\ at[k] \in DOMAIN CellParagraphs(p, from[k])
              /\ infos[k].place = CellParagraphs(p, from[k])[at[k]]
  <2>1. PICK c \in 1 .. n : c = from[k]
    BY <1>10
  <2>2. at[k] \in DOMAIN pieces[c] /\ infos[k] = pieces[c][at[k]]
    BY <1>10, <2>1
  <2> QED
    BY <1>2, <2>1, <2>2
<1>12. ASSUME NEW k \in 1 .. m PROVE Entry(infos[k]) /\ infos[k].place[1] = p
  <2>a. PICK c, cells, j : c = from[k] /\ cells = CellParagraphs(p, c) /\ j = at[k]
    OBVIOUS
  <2>b. /\ infos[k].ref = c /\ j \in DOMAIN cells /\ infos[k].place = cells[j]
    BY <1>11, <2>a
  <2>c. \E i \in DOMAIN file.parts[p] :
          cells[j] = <<p, i>> /\ c \in file.parts[p][i].grid /\ ~Hidden(<<p, i>>)
    <3>1. AtPosition(CellParagraphs(p, c), p, c)
      BY <2>a, CellParagraphsRight
    <3>2. AtPosition(cells, p, c)
      BY <2>a, <3>1
    <3> HIDE DEF CellParagraphs
    <3> QED
      BY <2>b, <3>2 DEF AtPosition
  <2>1. PICK i \in DOMAIN file.parts[p] :
          /\ infos[k].place = <<p, i>> /\ from[k] \in file.parts[p][i].grid
          /\ ~Hidden(<<p, i>>)
    BY <2>a, <2>b, <2>c
  <2>2. <<p, i>>[1] = p
    OBVIOUS
  <2>3. infos[k].ref \in file.parts[p][i].grid
    BY <1>11, <2>1
  <2> QED
    BY <2>1, <2>2, <2>3 DEF Entry
<1>13. ASSUME NEW k \in 1 .. m, NEW l \in 1 .. m,
              infos[k].place = infos[l].place, infos[k].ref = infos[l].ref
       PROVE  k = l
  <2>1. from[k] = from[l]
    BY <1>11, <1>13
  <2>2. PICK cells : cells = CellParagraphs(p, from[k])
    OBVIOUS
  <2>3. /\ at[k] \in DOMAIN cells /\ at[l] \in DOMAIN cells
        /\ cells[at[k]] = cells[at[l]]
    BY <1>11, <1>13, <2>1, <2>2
  <2>4. at[k] = at[l]
    BY <2>2, <2>3, CellParagraphsRight DEF AtPosition
  <2> QED
    BY <1>10, <2>1, <2>4
<1>14. ASSUME NEW i, Listed(p, i) PROVE \E k \in 1 .. m : infos[k].place = <<p, i>>
  <2>1. i \in DOMAIN file.parts[p] /\ ~Hidden(<<p, i>>)
    BY <1>14 DEF Listed
  <2>2. file.parts[p][i] \in Item
    BY <2>1, PartsItems
  <2>3. PICK c \in 1 .. n : c \in file.parts[p][i].grid
    BY <1>1, <2>2, GridFinite
  <2>4. PICK cells : cells = CellParagraphs(p, c)
    OBVIOUS
  <2>5. PICK j \in DOMAIN cells : cells[j] = <<p, i>>
    BY <2>1, <2>3, <2>4, CellParagraphsRight DEF AtPosition
  <2>6. j \in DOMAIN pieces[c]
    BY <1>2, <2>4
  <2>7. PICK k \in 1 .. m : from[k] = c /\ at[k] = j
    BY <1>10, <2>6
  <2> QED
    BY <1>11, <2>4, <2>5, <2>7
<1>15. ListedOnce(infos)
  BY <1>7, <1>12, <1>13 DEF ListedOnce
<1> QED
  BY <1>5, <1>7, <1>12, <1>14, <1>15 DEF OfOnePart

\* What the parser lists of one part of a DOCX, the paragraphs of the body by their number.
LEMMA PartInfosRight ==
  ASSUME IsFile, NEW p \in DOMAIN file.parts, NEW infos, infos = PartInfos(p)
  PROVE  /\ infos \in Seq(Info) /\ OfOnePart(infos, p)
         /\ p = 1 => /\ Len(infos) = Len(file.parts[1])
                     /\ \A k \in 1 .. Len(file.parts[1]) : infos[k].place = <<1, k>>
<1>1. PICK n \in Nat : /\ n = Len(file.parts[p]) /\ DOMAIN file.parts[p] = 1 .. n
                       /\ \A i \in 1 .. n : <<p, i>> \in Place /\ file.parts[p][i] \in Item
  BY PartsItems
<1>2. CASE p = 1
  <2>1. PICK places \in Seq(Place) : places = PlacesOf(1)
    <3>1. PlacesOf(1) \in [1 .. n -> Place]
      BY <1>1, <1>2 DEF PlacesOf
    <3> QED
      BY <3>1
  <2>2. Len(places) = n /\ DOMAIN places = 1 .. n /\ \A i \in 1 .. n : places[i] = <<1, i>>
    BY <1>1, <1>2, <2>1 DEF PlacesOf
  <2>3. infos = InfosAt(places, 0)
    BY <1>2, <2>1 DEF PartInfos, BodyInfos
  <2>4. /\ infos \in Seq(Info) /\ Len(infos) = Len(places) /\ DOMAIN infos = DOMAIN places
        /\ \A k \in DOMAIN infos : infos[k].place = places[k] /\ infos[k].ref = 0
    BY <2>3, InfosAtRight
  <2>5. ASSUME NEW k \in 1 .. n PROVE infos[k].place = <<1, k>> /\ infos[k].ref = 0
    BY <2>2, <2>4
  <2>6. ASSUME NEW k \in 1 .. n PROVE Entry(infos[k]) /\ infos[k].place[1] = 1
    <3>1. <<1, k>>[1] = 1
      OBVIOUS
    <3>2. 1 \in DOMAIN file.parts /\ k \in DOMAIN file.parts[1]
      BY <1>1, <1>2
    <3> QED
      BY <2>5, <3>1, <3>2 DEF Entry
  <2>7. ASSUME NEW k \in 1 .. n, NEW l \in 1 .. n, infos[k].place = infos[l].place PROVE k = l
    <3>1. <<1, k>> = <<1, l>>
      BY <2>5, <2>7
    <3> QED
      BY <3>1
  <2>8. ListedOnce(infos)
    BY <2>2, <2>4, <2>6, <2>7 DEF ListedOnce
  <2>9. ASSUME NEW i, Listed(1, i) PROVE \E k \in DOMAIN infos : infos[k].place = <<1, i>>
    <3>1. i \in 1 .. n
      BY <1>1, <1>2, <2>9 DEF Listed
    <3> QED
      BY <2>2, <2>4, <2>5, <3>1
  <2>10. OfOnePart(infos, 1)
    BY <2>2, <2>4, <2>6, <2>8, <2>9 DEF OfOnePart
  <2> QED
    BY <1>1, <1>2, <2>2, <2>4, <2>5, <2>10
<1>3. CASE p # 1 /\ ~config.tables
  <2>1. PICK none \in Seq(Info) : none = infos /\ DOMAIN none = {}
    <3>1. <<>> \in Seq(Info) /\ DOMAIN <<>> = {} /\ infos = <<>>
      BY <1>3 DEF PartInfos
    <3> QED
      BY <3>1
  <2>2. OfOnePart(none, p)
    BY <1>3, <2>1 DEF OfOnePart, ListedOnce, Listed
  <2> QED
    BY <1>3, <2>1, <2>2
<1>4. CASE p # 1 /\ config.tables
  <2>1. infos = TableInfos(p)
    BY <1>4 DEF PartInfos
  <2> QED
    BY <1>4, <2>1, TableInfosRight
<1> QED
  BY <1>2, <1>3, <1>4

\* what the parser lists before it leaves empty paragraphs out: everything, the body first
ListsAll(all) ==
  /\ \A p, i : Listed(p, i) => \E k \in DOMAIN all : all[k].place = <<p, i>>
  /\ \A k \in DOMAIN file.parts[1] : k \in DOMAIN all /\ all[k].place = <<1, k>>
\* and after it: what is wanted
ListsWanted(infos) ==
  /\ \A p, i : Listed(p, i) /\ Wanted(p, i) => \E k \in DOMAIN infos : infos[k].place = <<p, i>>
  /\ \A i \in DOMAIN file.parts[1] : (\A j \in 1 .. i : Wanted(1, j)) =>
       i \in DOMAIN infos /\ infos[i].place = <<1, i>>

\* What it lists of all of them: every paragraph and cell, the body first.
LEMMA AllInfos ==
  ASSUME IsFile, file.format = "docx", NEW all,
         all = FlattenSeq([p \in DOMAIN file.parts |-> PartInfos(p)])
  PROVE  all \in Seq(Info) /\ ListedOnce(all) /\ ListsAll(all)
<1>1. PICK n \in Nat : n = Len(file.parts) /\ DOMAIN file.parts = 1 .. n /\ n # 0 /\ 1 \in 1 .. n
  <2>1. Len(file.parts) \in Nat /\ DOMAIN file.parts = 1 .. Len(file.parts)
    BY PartsItems
  <2>2. Len(file.parts) # 0
    BY DEF IsFile
  <2> QED
    BY <2>1, <2>2
<1> DEFINE pieces == [p \in DOMAIN file.parts |-> PartInfos(p)]
<1>2. all = FlattenSeq(pieces) /\ DOMAIN pieces = 1 .. n /\ pieces = [p \in 1 .. n |-> pieces[p]]
      /\ \A p \in 1 .. n : pieces[p] = PartInfos(p)
  BY <1>1
<1> HIDE DEF pieces
<1>3. ASSUME NEW p \in 1 .. n
      PROVE  /\ pieces[p] \in Seq(Info) /\ OfOnePart(pieces[p], p)
             /\ p = 1 => /\ Len(pieces[p]) = Len(file.parts[1])
                         /\ \A k \in 1 .. Len(file.parts[1]) : pieces[p][k].place = <<1, k>>
  BY <1>1, <1>2, PartInfosRight
<1>4. pieces \in Seq(Seq(Info)) /\ Len(pieces) = n
  <2>1. pieces \in [1 .. n -> Seq(Info)]
    BY <1>2, <1>3
  <2> QED
    BY <2>1
<1>5. all \in Seq(Info) /\ \E from, at : Origins(all, pieces, Len(pieces), from, at)
  BY <1>2, <1>4, FlattenedInOrder
<1>6. PICK from, at : Origins(all, pieces, Len(pieces), from, at)
  BY <1>5
<1>7. PICK m \in Nat : m = Len(all) /\ DOMAIN all = 1 .. m
  BY <1>5
<1>8. OneOrigin(all, pieces, Len(all), Len(pieces), from, at)
  BY <1>4, <1>5, <1>6, OriginsByPlace
<1>9. OneOrigin(all, pieces, m, n, from, at)
  BY <1>4, <1>7, <1>8
<1>10. /\ from \in [1 .. m -> 1 .. n] /\ at \in [1 .. m -> Nat]
       /\ \A k \in 1 .. m : at[k] \in DOMAIN pieces[from[k]] /\ all[k] = pieces[from[k]][at[k]]
       /\ \A k, l \in 1 .. m : from[k] = from[l] /\ at[k] = at[l] => k = l
       /\ \A p \in 1 .. n : \A j \in DOMAIN pieces[p] : \E k \in 1 .. m : from[k] = p /\ at[k] = j
  BY <1>9 DEF OneOrigin
<1>11. ASSUME NEW k \in 1 .. m
       PROVE  /\ from[k] \in 1 .. n /\ at[k] \in DOMAIN pieces[from[k]]
              /\ all[k] = pieces[from[k]][at[k]]
              /\ all[k].place[1] = from[k] /\ Entry(all[k])
  <2>1. PICK p \in 1 .. n : p = from[k]
    BY <1>10
  <2>2. at[k] \in DOMAIN pieces[p] /\ all[k] = pieces[p][at[k]]
    BY <1>10, <2>1
  <2>3. OfOnePart(pieces[p], p)
    BY <1>3
  <2> QED
    BY <2>1, <2>2, <2>3 DEF OfOnePart, ListedOnce
<1>12. ASSUME NEW k \in 1 .. m, NEW l \in 1 .. m,
              all[k].place = all[l].place, all[k].ref = all[l].ref
       PROVE  k = l
  <2>1. from[k] = from[l]
    BY <1>11, <1>12
  <2>2. PICK piece, p : piece = pieces[p] /\ p = from[k]
    OBVIOUS
  <2>3. /\ at[k] \in DOMAIN piece /\ at[l] \in DOMAIN piece
        /\ all[k] = piece[at[k]] /\ all[l] = piece[at[l]]
    BY <1>11, <2>1, <2>2
  <2>4. ListedOnce(piece)
    BY <1>3, <1>11, <2>2 DEF OfOnePart
  <2>5. at[k] = at[l]
    BY <1>12, <2>3, <2>4 DEF ListedOnce
  <2> QED
    BY <1>10, <2>1, <2>5
<1>13. ListedOnce(all)
  BY <1>7, <1>11, <1>12 DEF ListedOnce
<1>16. ASSUME NEW p, NEW i, Listed(p, i) PROVE \E k \in DOMAIN all : all[k].place = <<p, i>>
  <2>1. p \in 1 .. n
    BY <1>1, <1>16 DEF Listed
  <2>2. PICK j \in DOMAIN pieces[p] : pieces[p][j].place = <<p, i>>
    BY <1>3, <1>16, <2>1 DEF OfOnePart
  <2>3. PICK k \in 1 .. m : from[k] = p /\ at[k] = j
    BY <1>10, <2>1
  <2> QED
    BY <1>7, <1>11, <2>2, <2>3
<1>17. ASSUME NEW k \in DOMAIN file.parts[1] PROVE k \in DOMAIN all /\ all[k].place = <<1, k>>
  <2>1. PICK c \in Nat : c = Len(pieces[1]) /\ c = Len(file.parts[1])
    BY <1>1, <1>3
  <2>2. k \in 1 .. c
    BY <1>1, <2>1, PartsItems
  <2>3. k \in 1 .. Len(all) /\ from[k] = 1 /\ at[k] = k
    <3>1. Len(pieces) # 0 /\ Len(pieces[1]) = c
      BY <1>1, <1>4, <2>1
    <3>2. \A j \in 1 .. c : j \in 1 .. Len(all) /\ from[j] = 1 /\ at[j] = j
      BY Z3, <1>4, <1>5, <1>6, <3>1, OriginsLead
    <3> QED
      BY <2>2, <3>2
  <2>4. k \in 1 .. m /\ all[k] = pieces[1][k]
    BY <1>7, <1>11, <2>3
  <2> QED
    BY <1>1, <1>3, <1>7, <2>1, <2>2, <2>4
<1>18. ListsAll(all)
  BY <1>16, <1>17 DEF ListsAll
<1> QED
  BY <1>5, <1>13, <1>18

\* The paragraphs and cells of the file that the parser lists.
LEMMA ParagraphInfosRight ==
  ASSUME IsFile, file.format = "docx", NEW infos, infos = ParagraphInfos
  PROVE  infos \in Seq(Info) /\ ListedOnce(infos) /\ ListsWanted(infos)
<1>1. PICK all : all = FlattenSeq([p \in DOMAIN file.parts |-> PartInfos(p)])
  OBVIOUS
<1>a. all \in Seq(Info) /\ ListedOnce(all) /\ ListsAll(all)
  BY <1>1, AllInfos
<1>2. /\ all \in Seq(Info)
      /\ \A p, i : Listed(p, i) => \E k \in DOMAIN all : all[k].place = <<p, i>>
      /\ \A k \in DOMAIN file.parts[1] : k \in DOMAIN all /\ all[k].place = <<1, k>>
  BY Zenon, <1>a DEF ListsAll
<1> DEFINE kept == {k \in DOMAIN all : config.includeEmpty \/ TextAt(all[k].place) # "none"}
<1>4. infos = Keeping(all, kept)
  BY <1>1 DEF ParagraphInfos, Kept
<1>5. \A k \in DOMAIN all : k \in kept <=> config.includeEmpty \/ TextAt(all[k].place) # "none"
  OBVIOUS
<1> HIDE DEF kept
<1>6. infos \in Seq(Info) /\ \E g : Picks(infos, all, kept, g)
  BY <1>2, <1>4, KeepingPicks
<1>7. PICK g : Picks(infos, all, kept, g)
  BY <1>6
<1>8. PICK m \in Nat, n \in Nat : /\ m = Len(infos) /\ DOMAIN infos = 1 .. m
                                  /\ n = Len(all) /\ DOMAIN all = 1 .. n
  BY <1>2, <1>6
<1>9. /\ g \in [1 .. m -> 1 .. n]
      /\ \A k \in 1 .. m : g[k] \in kept /\ infos[k] = all[g[k]]
      /\ \A k, l \in 1 .. m : k < l => g[k] < g[l]
      /\ \A i \in 1 .. n : i \in kept => \E k \in 1 .. m : g[k] = i
  BY <1>7, <1>8 DEF Picks
<1>10. ASSUME NEW k \in 1 .. m, NEW l \in 1 .. m, g[k] = g[l] PROVE k = l
  <2>1. g[k] \in Nat /\ ~ (g[k] < g[l]) /\ ~ (g[l] < g[k])
    BY <1>9, <1>10
  <2> QED
    BY <1>9, <2>1
<1>11. ListedOnce(infos)
  <2>1. ASSUME NEW k \in 1 .. m PROVE g[k] \in DOMAIN all /\ infos[k] = all[g[k]]
    BY <1>8, <1>9
  <2>2. ASSUME NEW k \in 1 .. m, NEW l \in 1 .. m,
               infos[k].place = infos[l].place, infos[k].ref = infos[l].ref
        PROVE  k = l
    <3>1. g[k] = g[l]
      BY <1>a, <2>1, <2>2 DEF ListedOnce
    <3> QED
      BY <1>10, <3>1
  <2>3. ASSUME NEW k \in 1 .. m PROVE Entry(infos[k])
    BY <1>a, <2>1 DEF ListedOnce
  <2> QED
    BY <1>8, <2>2, <2>3 DEF ListedOnce
<1>15. ASSUME NEW p, NEW i, Listed(p, i), Wanted(p, i)
       PROVE  \E k \in DOMAIN infos : infos[k].place = <<p, i>>
  <2>1. PICK j \in DOMAIN all : all[j].place = <<p, i>>
    BY <1>2, <1>15
  <2>2. j \in 1 .. n /\ j \in kept
    BY <1>5, <1>8, <1>15, <2>1 DEF Wanted
  <2>3. PICK k \in 1 .. m : g[k] = j
    BY <1>9, <2>2
  <2> QED
    BY <1>8, <1>9, <2>1, <2>3
<1>16. ASSUME NEW i \in DOMAIN file.parts[1], \A j \in 1 .. i : Wanted(1, j)
       PROVE  i \in DOMAIN infos /\ infos[i].place = <<1, i>>
  <2>1. PICK c \in Nat : DOMAIN file.parts[1] = 1 .. c
    <3>1. 1 \in DOMAIN file.parts
      <4>1. Len(file.parts) \in Nat /\ Len(file.parts) # 0
        BY DEF IsFile
      <4> QED
        BY <4>1, PartsItems
    <3> QED
      BY <3>1, PartsItems
  <2>2. i \in Nat /\ i \in 1 .. i /\ \A j \in 1 .. i : j \in DOMAIN file.parts[1]
    BY <2>1
  <2>3. ASSUME NEW j \in 1 .. i PROVE j \in kept
    <3>1. j \in DOMAIN all /\ all[j].place = <<1, j>>
      BY <1>2, <2>2
    <3> QED
      BY <1>5, <1>16, <3>1 DEF Wanted
  <2>4. i \in DOMAIN all /\ all[i].place = <<1, i>>
    BY <1>2
  <2>5. i <= Len(all) /\ 1 .. i \subseteq kept
    BY <1>8, <2>2, <2>3, <2>4
  <2>6. i \in 1 .. Len(infos) /\ g[i] = i
    BY <1>2, <1>6, <1>7, <2>2, <2>5, PicksLead
  <2> QED
    BY <1>8, <1>9, <2>4, <2>6
<1>17. ListsWanted(infos)
  BY <1>15, <1>16 DEF ListsWanted
<1> QED
  BY <1>6, <1>11, <1>17

-----------------------------------------------------------------------------
(* DOCX: the segments of the paragraphs *)

\* Segments that may lack a text.
Untranslated(segs) ==
  \A s \in DOMAIN segs :
    /\ Range(segs[s].texts) \subseteq Places
    /\ \A t \in DOMAIN segs[s].texts : TextAt(segs[s].texts[t]) # "none"
    /\ segs[s].state = "source"
\* out are the segments of segs that have a text
WithText(out, segs) ==
  /\ \A s \in DOMAIN out : \E r \in DOMAIN segs : out[s] = segs[r]
  /\ \A r \in DOMAIN segs : segs[r].texts # <<>> => \E s \in DOMAIN out : out[s] = segs[r]

\* A filter that keeps the segments of a text leaves it held.
LEMMA KeepingHeld ==
  ASSUME NEW segs \in Seq(DocSegment), NEW kept, NEW out, out = Keeping(segs, kept),
         NEW place, Held(segs, place),
         \A s \in DOMAIN segs : place \in Range(segs[s].texts) => s \in kept
  PROVE  Held(out, place)
<1>3. out \in Seq(DocSegment) /\ \E g : Picks(out, segs, kept, g)
  BY KeepingPicks
<1>4. PICK g : Picks(out, segs, kept, g)
  BY <1>3
<1>5. PICK m \in Nat, n \in Nat : /\ m = Len(out) /\ DOMAIN out = 1 .. m
                                  /\ n = Len(segs) /\ DOMAIN segs = 1 .. n
  BY <1>3
<1>6. /\ g \in [1 .. m -> 1 .. n]
      /\ \A k \in 1 .. m : g[k] \in kept /\ out[k] = segs[g[k]]
      /\ \A k, l \in 1 .. m : k < l => g[k] < g[l]
      /\ \A i \in 1 .. n : i \in kept => \E k \in 1 .. m : g[k] = i
  BY <1>4, <1>5 DEF Picks
<1>7. ASSUME NEW k \in 1 .. m, NEW l \in 1 .. m, g[k] = g[l] PROVE k = l
  <2>1. g[k] \in Nat /\ ~ (g[k] < g[l]) /\ ~ (g[l] < g[k])
    BY <1>6, <1>7
  <2> QED
    BY <1>6, <2>1
<1>8. Holding(segs, place) # {}
  BY DEF Held
<1>9. PICK c \in [Holding(segs, place) -> ItemAt(place).grid] : IsInjective(c)
  BY DEF Held
<1>10. ASSUME NEW s \in Holding(out, place) PROVE s \in 1 .. m /\ g[s] \in Holding(segs, place)
  <2>1. s \in 1 .. m /\ place \in Range(out[s].texts)
    BY <1>5 DEF Holding
  <2>2. g[s] \in DOMAIN segs /\ out[s] = segs[g[s]]
    BY <1>5, <1>6, <2>1
  <2> QED
    BY <2>1, <2>2 DEF Holding
<1>11. Holding(out, place) # {}
  <2>1. PICK r \in DOMAIN segs : place \in Range(segs[r].texts)
    BY <1>8 DEF Holding
  <2>2. PICK k \in 1 .. m : g[k] = r
    BY <1>5, <1>6, <2>1
  <2>3. k \in DOMAIN out /\ out[k] = segs[r]
    BY <1>5, <1>6, <2>2
  <2> QED
    BY <2>1, <2>3 DEF Holding
<1> DEFINE d == [x \in Holding(out, place) |-> c[g[x]]]
<1>12. d \in [Holding(out, place) -> ItemAt(place).grid]
  BY <1>9, <1>10
<1>13. IsInjective(d)
  <2>1. ASSUME NEW x \in Holding(out, place), NEW y \in Holding(out, place), d[x] = d[y] PROVE x = y
    <3>1. g[x] = g[y]
      BY <1>9, <1>10, <2>1 DEF IsInjective
    <3> QED
      BY <1>7, <1>10, <3>1
  <2> QED
    BY <2>1 DEF IsInjective
<1> HIDE DEF d
<1> QED
  BY <1>11, <1>12, <1>13 DEF Held

\* segments with a text are told apart by their ids
ApartWithText(segs) ==
  \A s, r \in DOMAIN segs :
    s # r /\ segs[s].texts # <<>> /\ segs[r].texts # <<>> => segs[s].id # segs[r].id

\* Leaving out the segments without a text takes no text away.
LEMMA WithTextsRight ==
  ASSUME NEW segs \in Seq(DocSegment), Untranslated(segs), NEW out, out = WithTexts(segs)
  PROVE  /\ out \in Seq(DocSegment) /\ WellMade(out) /\ WithText(out, segs)
         /\ ApartWithText(segs) => Distinct(out)
         /\ \A place : Held(segs, place) => Held(out, place)
<1> DEFINE kept == {s \in DOMAIN segs : segs[s].texts # <<>>}
<1>1. out = Keeping(segs, kept)
  BY DEF WithTexts
<1>2. \A s \in DOMAIN segs : s \in kept <=> segs[s].texts # <<>>
  OBVIOUS
<1> HIDE DEF kept
<1>3. out \in Seq(DocSegment) /\ \E g : Picks(out, segs, kept, g)
  BY <1>1, KeepingPicks
<1>4. PICK g : Picks(out, segs, kept, g)
  BY <1>3
<1>5. PICK m \in Nat, n \in Nat : /\ m = Len(out) /\ DOMAIN out = 1 .. m
                                  /\ n = Len(segs) /\ DOMAIN segs = 1 .. n
  BY <1>3
<1>6. /\ g \in [1 .. m -> 1 .. n]
      /\ \A k \in 1 .. m : g[k] \in kept /\ out[k] = segs[g[k]]
      /\ \A k, l \in 1 .. m : k < l => g[k] < g[l]
      /\ \A i \in 1 .. n : i \in kept => \E k \in 1 .. m : g[k] = i
  BY <1>4, <1>5 DEF Picks
<1>7. ASSUME NEW k \in 1 .. m, NEW l \in 1 .. m, g[k] = g[l] PROVE k = l
  <2>1. g[k] \in Nat /\ ~ (g[k] < g[l]) /\ ~ (g[l] < g[k])
    BY <1>6, <1>7
  <2> QED
    BY <1>6, <2>1
<1>8. ASSUME NEW k \in 1 .. m
      PROVE  g[k] \in DOMAIN segs /\ out[k] = segs[g[k]] /\ out[k].texts # <<>>
  <2>1. g[k] \in 1 .. n /\ g[k] \in kept /\ out[k] = segs[g[k]]
    BY <1>6
  <2> QED
    BY <1>2, <1>5, <2>1
<1>9. WellMade(out)
  <2>1. ASSUME NEW k \in 1 .. m
        PROVE  /\ out[k].texts # <<>> /\ Range(out[k].texts) \subseteq Places
               /\ \A t \in DOMAIN out[k].texts : TextAt(out[k].texts[t]) # "none"
               /\ out[k].state = "source"
    BY <1>8 DEF Untranslated
  <2> QED
    BY <1>5, <2>1 DEF WellMade
<1>10. WithText(out, segs)
  <2>1. ASSUME NEW r \in DOMAIN segs, segs[r].texts # <<>> PROVE \E s \in DOMAIN out : out[s] = segs[r]
    <3>1. r \in 1 .. n /\ r \in kept
      BY <1>2, <1>5, <2>1
    <3>2. PICK k \in 1 .. m : g[k] = r
      BY <1>6, <3>1
    <3> QED
      BY <1>5, <1>8, <3>2
  <2> QED
    BY <1>5, <1>8, <2>1 DEF WithText
<1>11. ASSUME ApartWithText(segs) PROVE Distinct(out)
  <2>1. ASSUME NEW k \in 1 .. m, NEW l \in 1 .. m, k # l PROVE out[k].id # out[l].id
    <3>1. g[k] # g[l]
      BY <1>7, <2>1
    <3> QED
      BY <1>8, <1>11, <3>1 DEF ApartWithText
  <2> QED
    BY <1>5, <2>1 DEF Distinct
<1>12. ASSUME NEW place, Held(segs, place) PROVE Held(out, place)
  <2>1. ASSUME NEW s \in DOMAIN segs, place \in Range(segs[s].texts) PROVE s \in kept
    <3>1. DOMAIN <<>> = {}
      OBVIOUS
    <3>2. segs[s].texts # <<>>
      BY <2>1, <3>1 DEF Range
    <3> QED
      BY <1>2, <3>2
  <2> QED
    BY <1>1, <1>12, <2>1, KeepingHeld
<1> QED
  BY <1>3, <1>9, <1>10, <1>11, <1>12

\* The text of an item is its own, and there is none if the item is empty.
LEMMA OwnTextRight ==
  ASSUME NEW place \in Place, place \in Places, NEW texts, texts = OwnText(place)
  PROVE  /\ texts \in Seq(Place) /\ Range(texts) \subseteq Places
         /\ \A t \in DOMAIN texts : texts[t] = place /\ TextAt(texts[t]) # "none"
         /\ \A pl : pl \in Range(texts) <=> pl = place /\ TextAt(place) # "none"
         /\ texts = <<>> <=> TextAt(place) = "none"
<1>1. CASE TextAt(place) = "none"
  <2>1. PICK none \in Seq(Place) : none = texts /\ DOMAIN none = {} /\ texts = <<>>
    <3>1. texts = <<>> /\ <<>> \in Seq(Place) /\ DOMAIN <<>> = {}
      BY <1>1 DEF OwnText
    <3> QED
      BY <3>1
  <2>2. Range(none) = {}
    BY <2>1 DEF Range
  <2> QED
    BY <1>1, <2>1, <2>2
<1>2. CASE TextAt(place) # "none"
  <2>1. texts = <<place>> /\ <<place>> \in Seq(Place)
    BY <1>2 DEF OwnText
  <2>2. /\ <<place>> # <<>> /\ Range(<<place>>) = {place} /\ DOMAIN <<place>> = {1}
        /\ <<place>>[1] = place
    BY OneText
  <2> QED
    BY <1>2, <2>1, <2>2
<1> QED
  BY <1>1, <1>2

\* The segments that hold a text come from different positions of its cell.
LEMMA HeldByOrigin ==
  ASSUME IsFile, NEW infos \in Seq(Info), ListedOnce(infos),
         NEW segs, NEW place, Holding(segs, place) # {},
         NEW h \in [Holding(segs, place) -> DOMAIN infos], IsInjective(h),
         \A s \in Holding(segs, place) : infos[h[s]].place = place
  PROVE  Held(segs, place)
<1>1. ASSUME NEW s \in Holding(segs, place)
      PROVE  /\ ItemAt(place) \in Item /\ infos[h[s]].ref \in Nat
             /\ infos[h[s]].ref > 0 <=> place[1] # 1
             /\ place[1] # 1 => infos[h[s]].ref \in ItemAt(place).grid
  <2>1. PICK info \in Info : info = infos[h[s]] /\ Entry(info)
    BY DEF ListedOnce
  <2>2. info.place = place
    BY <2>1
  <2> QED
    BY <2>1, <2>2, EntryRight
<1>2. PICK a \in ItemAt(place).grid : TRUE
  BY <1>1, GridFinite
<1> DEFINE c == [s \in Holding(segs, place) |-> IF place[1] = 1 THEN a ELSE infos[h[s]].ref]
<1>3. c \in [Holding(segs, place) -> ItemAt(place).grid]
  BY <1>1, <1>2
<1>4. IsInjective(c)
  <2>1. ASSUME NEW s \in Holding(segs, place), NEW r \in Holding(segs, place), c[s] = c[r] PROVE s = r
    <3>1. PICK k \in DOMAIN infos, l \in DOMAIN infos : k = h[s] /\ l = h[r]
      OBVIOUS
    <3>2. infos[k].place = infos[l].place
      BY <3>1
    <3>3. infos[k].ref = infos[l].ref
      <4>1. CASE place[1] = 1
        BY <1>1, <3>1, <4>1
      <4>2. CASE place[1] # 1
        BY <2>1, <3>1, <4>2
      <4> QED
        BY <4>1, <4>2
    <3>4. k = l
      BY <3>2, <3>3 DEF ListedOnce
    <3> QED
      BY <3>1, <3>4 DEF IsInjective
  <2> QED
    BY <2>1 DEF IsInjective
<1> HIDE DEF c
<1> QED
  BY <1>3, <1>4 DEF Held

\* Segments of the body and the tables, with each text the parser lists.
OfBody(segs) ==
  \A s \in DOMAIN segs :
    /\ segs[s].id[1] # "header" /\ segs[s].type # "header"
    /\ \A t \in DOMAIN segs[s].texts : segs[s].texts[t][1] # Head0
HoldsListed(segs) ==
  \A p, i : Listed(p, i) /\ TextAt(<<p, i>>) = "jp" /\ ~Hidden(<<p, i>>) => Held(segs, <<p, i>>)
\* Item i of the body is the i-th paragraph when the parser skips none before it.
Leading(segs) ==
  \A i \in DOMAIN file.parts[1] : (\A j \in 1 .. i : Wanted(1, j)) =>
    /\ \A s \in DOMAIN segs :
         segs[s].type = "paragraph" /\ segs[s].key = i => segs[s].texts = OwnText(<<1, i>>)
    /\ TextAt(<<1, i>>) # "none" =>
         \E s \in DOMAIN segs : segs[s].type = "paragraph" /\ segs[s].key = i

\* A segment for each paragraph and cell (merge_paragraphs off): every text is held, ids count on,
\* and a paragraph no empty one was skipped before has its own number.
LEMMA NumberedRight ==
  ASSUME IsFile, file.format = "docx", NEW infos \in Seq(Info), ListsWanted(infos),
         ListedOnce(infos), NEW segs, segs = Numbered(infos)
  PROVE  /\ segs \in Seq(DocSegment) /\ Untranslated(segs) /\ Distinct(segs) /\ OfBody(segs)
         /\ HoldsListed(segs) /\ Leading(segs)
<1>1. PICK m \in Nat : m = Len(infos) /\ DOMAIN infos = 1 .. m
  OBVIOUS
<1>2. DOMAIN segs = 1 .. m /\ segs = [k \in 1 .. m |-> segs[k]]
  BY <1>1 DEF Numbered
<1>3. ASSUME NEW k \in 1 .. m
      PROVE  /\ infos[k].place \in Place /\ infos[k].place \in Places
             /\ infos[k].place[1] # 0 /\ infos[k].ref \in Nat
             /\ (infos[k].ref > 0 <=> infos[k].place[1] # 1)
  <2>1. PICK info \in Info : info = infos[k] /\ Entry(info)
    BY <1>1 DEF ListedOnce
  <2> QED
    BY <2>1, EntryRight
<1>4. ASSUME NEW k \in 1 .. m
      PROVE  /\ segs[k] \in DocSegment /\ segs[k].texts = OwnText(infos[k].place)
             /\ segs[k].id[1] = "paragraph" /\ segs[k].id[2] = k /\ segs[k].key = k
             /\ segs[k].state = "source"
             /\ segs[k].type = IF infos[k].ref > 0 THEN "table" ELSE "paragraph"
  <2>1. "paragraph" \in Names /\ "table" \in Names
    BY DEF Names
  <2>2. /\ <<"paragraph", k>> \in SegmentId /\ <<"paragraph", k>>[2] = k
        /\ <<"paragraph", k>>[1] = "paragraph"
    <3>1. k \in Nat
      OBVIOUS
    <3> QED
      BY <2>1, <3>1, PairTyped, Zenon
  <2>3. PICK id \in SegmentId : id = <<"paragraph", k>> /\ id[1] = "paragraph" /\ id[2] = k
    BY <2>2, Zenon
  <2>4. PICK type \in Names : type = IF infos[k].ref > 0 THEN "table" ELSE "paragraph"
    BY <2>1
  <2>5. PICK texts \in Seq(Place) : texts = OwnText(infos[k].place)
    BY <1>3, OwnTextRight
  <2>6. PICK seg : seg = segs[k] /\ seg = Segment(id, type, 1, k, texts)
    BY <1>1, <2>3, <2>4, <2>5 DEF Numbered, InTable
  <2>7. /\ seg \in DocSegment /\ seg.id = id /\ seg.type = type /\ seg.key = k
        /\ seg.texts = texts /\ seg.state = "source"
    BY <2>6, SegmentTyped
  <2> QED
    BY <2>3, <2>4, <2>5, <2>6, <2>7
<1>5. ASSUME NEW k \in 1 .. m
      PROVE  /\ Range(segs[k].texts) \subseteq Places
             /\ \A t \in DOMAIN segs[k].texts :
                  segs[k].texts[t] = infos[k].place /\ TextAt(segs[k].texts[t]) # "none"
             /\ \A pl : pl \in Range(segs[k].texts) <=> pl = infos[k].place /\ TextAt(infos[k].place) # "none"
  <2>1. PICK pl \in Place : pl = infos[k].place /\ pl \in Places
    BY <1>3
  <2>2. PICK texts : texts = segs[k].texts /\ texts = OwnText(pl)
    BY <1>4, <2>1
  <2> QED
    BY <2>1, <2>2, OwnTextRight
<1>6. segs \in Seq(DocSegment)
  <2>1. segs \in [1 .. m -> DocSegment]
    BY <1>2, <1>4
  <2> QED
    BY <2>1
<1>7. Untranslated(segs)
  BY <1>2, <1>4, <1>5 DEF Untranslated
<1>8. Distinct(segs)
  <2>1. \A k \in DOMAIN segs : segs[k].id[2] = k
    BY <1>2, <1>4
  <2> QED
    BY <2>1 DEF Distinct
<1>9. OfBody(segs)
  <2>1. ASSUME NEW k \in 1 .. m
        PROVE  /\ segs[k].id[1] # "header" /\ segs[k].type # "header"
               /\ \A t \in DOMAIN segs[k].texts : segs[k].texts[t][1] # Head0
    <3>1. segs[k].id[1] # "header" /\ segs[k].type # "header"
      BY <1>4
    <3>2. ASSUME NEW t \in DOMAIN segs[k].texts PROVE segs[k].texts[t][1] # Head0
      BY <1>3, <1>5 DEF Head0
    <3> QED
      BY <3>1, <3>2
  <2> QED
    BY <1>2, <2>1 DEF OfBody
<1>10. ASSUME NEW p, NEW i, Listed(p, i), TextAt(<<p, i>>) = "jp", ~Hidden(<<p, i>>)
       PROVE  Held(segs, <<p, i>>)
  <2>1. PICK place : place = <<p, i>>
    OBVIOUS
  <2>2. Wanted(p, i)
    BY <1>10 DEF Wanted
  <2>3. PICK k \in 1 .. m : infos[k].place = place
    BY <1>1, <1>10, <2>1, <2>2 DEF ListsWanted
  <2>4. \A s \in Holding(segs, place) : s \in 1 .. m /\ infos[s].place = place
    BY <1>2, <1>5 DEF Holding
  <2>5. k \in Holding(segs, place)
    BY <1>2, <1>5, <1>10, <2>1, <2>3 DEF Holding
  <2> DEFINE h == [s \in Holding(segs, place) |-> s]
  <2>6. h \in [Holding(segs, place) -> DOMAIN infos]
    BY <1>1, <2>4
  <2>7. IsInjective(h)
    BY DEF IsInjective
  <2>8. \A s \in Holding(segs, place) : infos[h[s]].place = place
    BY <2>4
  <2> HIDE DEF h
  <2>9. Held(segs, place)
    BY <2>5, <2>6, <2>7, <2>8, HeldByOrigin
  <2> QED
    BY <2>1, <2>9
<1>11. HoldsListed(segs)
  BY <1>10 DEF HoldsListed
<1>12. ASSUME NEW i \in DOMAIN file.parts[1], \A j \in 1 .. i : Wanted(1, j)
       PROVE  /\ i \in 1 .. m /\ segs[i].type = "paragraph" /\ segs[i].key = i
              /\ \A s \in DOMAIN segs : segs[s].key = i => segs[s].texts = OwnText(<<1, i>>)
  <2>1. i \in 1 .. m /\ infos[i].place = <<1, i>>
    BY <1>1, <1>12 DEF ListsWanted
  <2>2. infos[i].place[1] = 1
    <3>1. <<1, i>>[1] = 1
      OBVIOUS
    <3> QED
      BY <2>1, <3>1
  <2>3. segs[i].type = "paragraph" /\ segs[i].key = i
    BY <1>3, <1>4, <2>1, <2>2
  <2>4. ASSUME NEW s \in DOMAIN segs, segs[s].key = i PROVE segs[s].texts = OwnText(<<1, i>>)
    <3>1. s = i
      BY <1>2, <1>4, <2>4
    <3> QED
      BY SMTT(30), <1>4, <2>1, <3>1
  <2> QED
    BY <2>1, <2>3, <2>4
<1>13. Leading(segs)
  BY <1>2, <1>12 DEF Leading
<1> QED
  BY <1>6, <1>7, <1>8, <1>9, <1>11, <1>13

\* merge_paragraphs: the group of the body, and a segment for each cell.
CellsOf(cells) ==
  [k \in DOMAIN cells |->
     Segment(<<"table", cells[k].ref>>, "table", 1, 0, OwnText(cells[k].place))]

\* The group of the body has the texts of all its paragraphs.
LEMMA BodyTexts ==
  ASSUME IsFile, NEW infos \in Seq(Info), ListedOnce(infos), NEW texts,
         texts = LET body == Keeping(infos, {k \in DOMAIN infos : ~InTable(infos[k])})
                 IN  HasText([k \in DOMAIN body |-> body[k].place])
  PROVE  /\ texts \in Seq(Place) /\ Range(texts) \subseteq Places
         /\ \A t \in DOMAIN texts : TextAt(texts[t]) # "none" /\ texts[t][1] = 1
         /\ \A k \in DOMAIN infos : infos[k].place[1] = 1 /\ Readable(infos[k].place) =>
              infos[k].place \in Range(texts)
<1> DEFINE kept == {k \in DOMAIN infos : ~InTable(infos[k])}
<1>1. PICK body : body = Keeping(infos, kept)
  OBVIOUS
<1>2. \A k \in DOMAIN infos : k \in kept <=> ~ (infos[k].ref > 0)
  BY DEF InTable
<1>a. PICK places : places = [k \in DOMAIN body |-> body[k].place]
  OBVIOUS
<1>3. texts = HasText(places)
  BY <1>1, <1>a
<1> HIDE DEF kept
<1>4. body \in Seq(Info) /\ \E g : Picks(body, infos, kept, g)
  BY <1>1, KeepingPicks
<1>5. PICK g : Picks(body, infos, kept, g)
  BY <1>4
<1>6. PICK m \in Nat, n \in Nat : /\ m = Len(body) /\ DOMAIN body = 1 .. m
                                  /\ n = Len(infos) /\ DOMAIN infos = 1 .. n
  BY <1>4
<1>7. /\ g \in [1 .. m -> 1 .. n]
      /\ \A k \in 1 .. m : g[k] \in kept /\ body[k] = infos[g[k]]
      /\ \A i \in 1 .. n : i \in kept => \E k \in 1 .. m : g[k] = i
  BY <1>5, <1>6 DEF Picks
<1>8. ASSUME NEW k \in 1 .. n
      PROVE  /\ infos[k].place \in Place /\ infos[k].place \in Places
             /\ (infos[k].ref > 0 <=> infos[k].place[1] # 1)
  <2>1. PICK info \in Info : info = infos[k] /\ Entry(info)
    BY <1>6 DEF ListedOnce
  <2> QED
    BY <2>1, EntryRight
<1>9. ASSUME NEW k \in 1 .. m
      PROVE  places[k] \in Place /\ places[k] \in Places /\ places[k][1] = 1
             /\ places[k] = infos[g[k]].place /\ g[k] \in 1 .. n
  <2>1. g[k] \in 1 .. n /\ g[k] \in kept /\ places[k] = infos[g[k]].place
    BY <1>a, <1>6, <1>7
  <2>2. infos[g[k]].place[1] = 1
    BY <1>2, <1>6, <1>8, <2>1
  <2> QED
    BY <1>8, <2>1, <2>2
<1>10. places \in Seq(Place) /\ DOMAIN places = 1 .. m
  <2>1. DOMAIN places = 1 .. m /\ places = [k \in 1 .. m |-> places[k]]
    BY <1>a, <1>6
  <2>2. places \in [1 .. m -> Place]
    BY <1>9, <2>1
  <2> QED
    BY <2>1, <2>2
<1> DEFINE full == {i \in DOMAIN places : TextAt(places[i]) # "none" /\ ~Hidden(places[i])}
<1>11. texts = Keeping(places, full)
  BY <1>3 DEF HasText
<1>12. \A k \in 1 .. m : k \in full <=> Readable(places[k])
  BY <1>10 DEF Readable
<1> HIDE DEF full
<1>13. texts \in Seq(Place) /\ \E h : Picks(texts, places, full, h)
  BY <1>10, <1>11, KeepingPicks
<1>14. PICK h : Picks(texts, places, full, h)
  BY <1>13
<1>15. PICK c \in Nat : c = Len(texts) /\ DOMAIN texts = 1 .. c
  <2>1. texts \in Seq(Place)
    BY <1>13
  <2>2. PICK copy \in Seq(Place) : copy = texts
    BY <2>1, Zenon
  <2>3. Len(copy) \in Nat /\ DOMAIN copy = 1 .. Len(copy)
    OBVIOUS
  <2> QED
    BY <2>2, <2>3, Zenon
<1>16. Len(places) = m
  BY <1>10
<1>17. /\ \A t \in 1 .. c : h[t] \in 1 .. m /\ h[t] \in full /\ texts[t] = places[h[t]]
       /\ \A k \in 1 .. m : k \in full => \E t \in 1 .. c : h[t] = k
  <2>1. Picks(texts, places, full, h) /\ Len(texts) = c /\ Len(places) = m
    BY <1>14, <1>15, <1>16
  <2>2. h \in [1 .. c -> 1 .. m]
    BY Zenon, <2>1 DEF Picks
  <2>3. /\ \A t \in 1 .. c : h[t] \in full /\ texts[t] = places[h[t]]
        /\ \A k \in 1 .. m : k \in full => \E t \in 1 .. c : h[t] = k
    BY Zenon, <2>1 DEF Picks
  <2> QED
    BY <2>2, <2>3
<1>18. ASSUME NEW t \in 1 .. c
       PROVE  texts[t] \in Places /\ TextAt(texts[t]) # "none" /\ texts[t][1] = 1
  <2>1. PICK k \in 1 .. m : k = h[t] /\ k \in full /\ texts[t] = places[k]
    BY <1>17
  <2> QED
    BY <1>9, <1>12, <2>1 DEF Readable
<1>19. Range(texts) \subseteq Places
  BY <1>15, <1>18 DEF Range
<1>20. ASSUME NEW k \in DOMAIN infos, infos[k].place[1] = 1, Readable(infos[k].place)
       PROVE  infos[k].place \in Range(texts)
  <2>1. k \in 1 .. n /\ k \in kept
    BY <1>2, <1>6, <1>8, <1>20
  <2>2. PICK j \in 1 .. m : g[j] = k
    BY <1>7, <2>1
  <2>3. places[j] = infos[k].place /\ j \in full
    BY <1>9, <1>12, <1>20, <2>2
  <2>4. PICK t \in 1 .. c : h[t] = j
    BY <1>17, <2>3
  <2>5. texts[t] = infos[k].place
    BY <1>17, <2>3, <2>4
  <2> QED
    BY <1>15, <2>5 DEF Range
<1> QED
  BY <1>13, <1>15, <1>18, <1>19, <1>20

\* what the segments of the cells are
CellsMade(segs, infos, gc) ==
  /\ \A k \in DOMAIN segs :
       /\ gc[k] \in DOMAIN infos /\ infos[gc[k]].place[1] # 1
       /\ segs[k].texts = OwnText(infos[gc[k]].place) /\ segs[k].state = "source"
       /\ segs[k].id[1] = "table" /\ segs[k].id[2] = infos[gc[k]].ref /\ segs[k].type = "table"
  /\ \A k, l \in DOMAIN segs : gc[k] = gc[l] => k = l
  /\ \A i \in DOMAIN infos : infos[i].place[1] # 1 => \E k \in DOMAIN segs : gc[k] = i

\* A segment for each paragraph of a cell, named for the cell's column and row.
LEMMA TableCells ==
  ASSUME IsFile, NEW infos \in Seq(Info), ListedOnce(infos), NEW segs,
         segs = CellsOf(Keeping(infos, {k \in DOMAIN infos : InTable(infos[k])}))
  PROVE  /\ segs \in Seq(DocSegment)
         /\ \E gc : CellsMade(segs, infos, gc)
<1> DEFINE kept == {k \in DOMAIN infos : InTable(infos[k])}
<1>1. PICK cells : cells = Keeping(infos, kept)
  OBVIOUS
<1>2. \A k \in DOMAIN infos : k \in kept <=> infos[k].ref > 0
  BY DEF InTable
<1>3. segs = CellsOf(cells)
  BY <1>1
<1> HIDE DEF kept
<1>4. cells \in Seq(Info) /\ \E g : Picks(cells, infos, kept, g)
  BY <1>1, KeepingPicks
<1>5. PICK g : Picks(cells, infos, kept, g)
  BY <1>4
<1>6. PICK m \in Nat, n \in Nat : /\ m = Len(cells) /\ DOMAIN cells = 1 .. m
                                  /\ n = Len(infos) /\ DOMAIN infos = 1 .. n
  BY <1>4
<1>7. /\ g \in [1 .. m -> 1 .. n]
      /\ \A k \in 1 .. m : g[k] \in kept /\ cells[k] = infos[g[k]]
      /\ \A k, l \in 1 .. m : k < l => g[k] < g[l]
      /\ \A i \in 1 .. n : i \in kept => \E k \in 1 .. m : g[k] = i
  BY <1>5, <1>6 DEF Picks
<1>8. ASSUME NEW k \in 1 .. n
      PROVE  /\ infos[k].place \in Place /\ infos[k].place \in Places /\ infos[k].ref \in Nat
             /\ (infos[k].ref > 0 <=> infos[k].place[1] # 1)
  <2>1. PICK info \in Info : info = infos[k] /\ Entry(info)
    BY <1>6 DEF ListedOnce
  <2> QED
    BY <2>1, EntryRight
<1>9. ASSUME NEW k \in 1 .. m, NEW l \in 1 .. m, g[k] = g[l] PROVE k = l
  <2>1. g[k] \in Nat /\ ~ (g[k] < g[l]) /\ ~ (g[l] < g[k])
    BY <1>7, <1>9
  <2> QED
    BY <1>7, <2>1
<1>10. DOMAIN segs = 1 .. m /\ segs = [k \in 1 .. m |-> segs[k]]
  BY <1>3, <1>6 DEF CellsOf
<1>11. ASSUME NEW k \in 1 .. m
       PROVE  /\ segs[k] \in DocSegment /\ g[k] \in 1 .. n /\ infos[g[k]].place[1] # 1
              /\ segs[k].texts = OwnText(infos[g[k]].place) /\ segs[k].state = "source"
              /\ segs[k].id[1] = "table" /\ segs[k].id[2] = infos[g[k]].ref /\ segs[k].type = "table"
  <2>1. PICK i \in 1 .. n : i = g[k] /\ i \in kept /\ cells[k] = infos[i]
    BY <1>7
  <2>2. infos[i].place \in Place /\ infos[i].place \in Places /\ infos[i].ref \in Nat
        /\ infos[i].place[1] # 1
    BY <1>2, <1>6, <1>8, <2>1
  <2>3. "table" \in Names /\ 0 \in Nat /\ 1 \in Nat
    BY DEF Names
  <2>4. PICK id \in SegmentId : id = <<"table", infos[i].ref>> /\ id[1] = "table" /\ id[2] = infos[i].ref
    <3>1. PICK a \in Nat : a = infos[i].ref
      BY <2>2
    <3>2. <<"table", a>> \in SegmentId /\ <<"table", a>>[1] = "table" /\ <<"table", a>>[2] = a
      BY <2>3, PairTyped, Zenon
    <3> QED
      BY <3>1, <3>2, Zenon
  <2>5. PICK texts \in Seq(Place) : texts = OwnText(infos[i].place)
    BY <2>2, OwnTextRight
  <2>a. PICK type \in Names : type = "table"
    BY <2>3
  <2>6. PICK seg : seg = segs[k] /\ seg = Segment(id, type, 1, 0, texts)
    BY <1>3, <1>6, <2>1, <2>a, <2>4, <2>5 DEF CellsOf
  <2>7. /\ seg \in DocSegment /\ seg.id = id /\ seg.type = type
        /\ seg.texts = texts /\ seg.state = "source"
    BY <2>3, <2>6, SegmentTyped
  <2> QED
    BY <2>1, <2>2, <2>4, <2>5, <2>6, <2>7, <2>a
<1>12. segs \in Seq(DocSegment)
  <2>1. segs \in [1 .. m -> DocSegment]
    BY <1>10, <1>11
  <2> QED
    BY <2>1
<1>14. \A k, l \in DOMAIN segs : g[k] = g[l] => k = l
  BY <1>9, <1>10
<1>15. ASSUME NEW i \in DOMAIN infos, infos[i].place[1] # 1 PROVE \E k \in DOMAIN segs : g[k] = i
  <2>1. i \in 1 .. n /\ i \in kept
    BY <1>2, <1>6, <1>8, <1>15
  <2> QED
    BY <1>7, <1>10, <2>1
<1>16. CellsMade(segs, infos, g)
  BY <1>6, <1>10, <1>11, <1>14, <1>15 DEF CellsMade
<1> QED
  BY <1>12, <1>16

\* no two paragraphs of cells stand under one name
CellNamesApart == ~(config.tables /\ CellNameShared)

\* The body as one group and the cells of the tables (merge_paragraphs): every text is held, and
\* if no two share the name of a cell the ids are different.
LEMMA GroupedRight ==
  ASSUME IsFile, file.format = "docx", NEW infos \in Seq(Info), ListsWanted(infos),
         ListedOnce(infos), NEW segs, segs = Grouped(infos)
  PROVE  /\ segs \in Seq(DocSegment) /\ Untranslated(segs) /\ OfBody(segs) /\ HoldsListed(segs)
         /\ CellNamesApart => ApartWithText(segs)
<1>1. PICK texts : texts = LET body == Keeping(infos, {k \in DOMAIN infos : ~InTable(infos[k])})
                           IN  HasText([k \in DOMAIN body |-> body[k].place])
  OBVIOUS
<1>2. /\ texts \in Seq(Place) /\ Range(texts) \subseteq Places
      /\ \A t \in DOMAIN texts : TextAt(texts[t]) # "none" /\ texts[t][1] = 1
      /\ \A k \in DOMAIN infos : infos[k].place[1] = 1 /\ Readable(infos[k].place) =>
           infos[k].place \in Range(texts)
  BY <1>1, BodyTexts
<1>3. PICK cells : cells = CellsOf(Keeping(infos, {k \in DOMAIN infos : InTable(infos[k])}))
  OBVIOUS
<1>4. cells \in Seq(DocSegment) /\ \E gc : CellsMade(cells, infos, gc)
  BY <1>3, TableCells
<1>a. PICK gc : CellsMade(cells, infos, gc)
  BY <1>4
<1>5. /\ \A k, l \in DOMAIN cells : gc[k] = gc[l] => k = l
      /\ \A i \in DOMAIN infos : infos[i].place[1] # 1 => \E k \in DOMAIN cells : gc[k] = i
  BY <1>a DEF CellsMade
<1>6. PICK group : group = Segment(<<"group", 1>>, "paragraph", 1, 1, texts)
  OBVIOUS
<1>7. segs = <<group>> \o cells
  BY <1>1, <1>3, <1>6, Zenon DEF Grouped, CellsOf
<1>8. /\ group \in DocSegment /\ group.id[1] = "group" /\ group.texts = texts
      /\ group.state = "source" /\ group.type = "paragraph"
  <2>1. "group" \in Names /\ "paragraph" \in Names /\ 1 \in Nat
    BY DEF Names
  <2>2. PICK id \in SegmentId : id = <<"group", 1>> /\ id[1] = "group"
    <3>1. <<"group", 1>> \in SegmentId /\ <<"group", 1>>[1] = "group"
      BY <2>1, PairTyped, Zenon
    <3> QED
      BY <3>1, Zenon
  <2>3. PICK type \in Names : type = "paragraph"
    BY <2>1
  <2>4. group = Segment(id, type, 1, 1, texts)
    BY <1>6, <2>2, <2>3
  <2>5. /\ group \in DocSegment /\ group.id = id /\ group.type = type
        /\ group.texts = texts /\ group.state = "source"
    BY <1>2, <2>1, <2>4, SegmentTyped
  <2> QED
    BY <2>2, <2>3, <2>5
<1>9. PICK m \in Nat : m = Len(cells) /\ DOMAIN cells = 1 .. m
  BY <1>4
<1>10. /\ segs \in Seq(DocSegment) /\ DOMAIN segs = 1 .. m + 1 /\ segs[1] = group
       /\ \A s \in 2 .. m + 1 : segs[s] = cells[s - 1]
  <2>1. PICK one \in Seq(DocSegment) : one = <<group>> /\ Len(one) = 1 /\ one[1] = group
    <3>1. PICK seg \in DocSegment : seg = group
      BY <1>8
    <3>2. <<seg>> \in Seq(DocSegment) /\ Len(<<seg>>) = 1 /\ <<seg>>[1] = seg
      OBVIOUS
    <3> QED
      BY <3>1, <3>2, Zenon
  <2>2. segs = one \o cells
    BY <1>7, <2>1
  <2>3. /\ Len(one \o cells) = Len(one) + Len(cells)
        /\ \A i \in 1 .. Len(one) + Len(cells) :
             (one \o cells)[i] = IF i <= Len(one) THEN one[i] ELSE cells[i - Len(one)]
    <3>1. cells \in Seq(DocSegment) /\ one \in Seq(DocSegment)
      BY <1>4
    <3> QED
      BY ONLY ZenonT(40), <3>1, ConcatProperties
  <2>4. one \o cells \in Seq(DocSegment)
    BY <1>4
  <2>5. /\ Len(segs) = 1 + m
        /\ \A i \in 1 .. 1 + m : segs[i] = IF i <= 1 THEN one[i] ELSE cells[i - 1]
    BY <1>9, <2>1, <2>2, <2>3
  <2>6. segs \in Seq(DocSegment)
    BY <2>2, <2>4
  <2> QED
    BY <1>9, <2>1, <2>5, <2>6
<1>11. ASSUME NEW s \in 2 .. m + 1
       PROVE  /\ s - 1 \in DOMAIN cells /\ segs[s] = cells[s - 1]
              /\ gc[s - 1] \in DOMAIN infos /\ infos[gc[s - 1]].place[1] # 1
              /\ segs[s].texts = OwnText(infos[gc[s - 1]].place) /\ segs[s].state = "source"
              /\ segs[s].id[1] = "table" /\ segs[s].id[2] = infos[gc[s - 1]].ref
              /\ segs[s].type = "table"
  <2>1. PICK c \in DOMAIN cells : c = s - 1
    BY <1>9
  <2> QED
    BY <1>a, <1>10, <2>1 DEF CellsMade
<1>12. ASSUME NEW k \in DOMAIN infos
       PROVE  /\ infos[k].place \in Place /\ infos[k].place \in Places
              /\ infos[k].place[1] \in DOMAIN file.parts /\ infos[k].place[1] \in Nat \ {0}
              /\ infos[k].place[1] # 1 => /\ config.tables /\ ~Hidden(infos[k].place)
                                          /\ infos[k].ref \in ItemAt(infos[k].place).grid
  <2>1. PICK info \in Info : info = infos[k] /\ Entry(info)
    BY DEF ListedOnce
  <2> QED
    BY <2>1, EntryRight
<1>13. ASSUME NEW s \in 2 .. m + 1
       PROVE  /\ Range(segs[s].texts) \subseteq Places
              /\ \A t \in DOMAIN segs[s].texts :
                   segs[s].texts[t] = infos[gc[s - 1]].place /\ TextAt(segs[s].texts[t]) # "none"
              /\ \A pl : pl \in Range(segs[s].texts) <=>
                   pl = infos[gc[s - 1]].place /\ TextAt(infos[gc[s - 1]].place) # "none"
  <2>1. PICK pl \in Place : pl = infos[gc[s - 1]].place /\ pl \in Places
    BY <1>11, <1>12
  <2>2. PICK own : own = segs[s].texts /\ own = OwnText(pl)
    BY <1>11, <2>1
  <2> QED
    BY <2>1, <2>2, OwnTextRight
<1>14. \A s \in 1 .. m + 1 : s = 1 \/ s \in 2 .. m + 1
  OBVIOUS
<1>15. Untranslated(segs)
  <2>1. ASSUME NEW s \in 2 .. m + 1
        PROVE  /\ Range(segs[s].texts) \subseteq Places
               /\ \A t \in DOMAIN segs[s].texts : TextAt(segs[s].texts[t]) # "none"
               /\ segs[s].state = "source"
    BY <1>11, <1>13
  <2>2. /\ Range(segs[1].texts) \subseteq Places
        /\ \A t \in DOMAIN segs[1].texts : TextAt(segs[1].texts[t]) # "none"
        /\ segs[1].state = "source"
    BY <1>2, <1>8, <1>10
  <2> QED
    BY <1>10, <1>14, <2>1, <2>2, Zenon DEF Untranslated
<1>16. OfBody(segs)
  <2>1. ASSUME NEW s \in 2 .. m + 1
        PROVE  /\ segs[s].id[1] # "header" /\ segs[s].type # "header"
               /\ \A t \in DOMAIN segs[s].texts : segs[s].texts[t][1] # Head0
    <3>1. segs[s].id[1] # "header" /\ segs[s].type # "header"
      BY <1>11
    <3>2. ASSUME NEW t \in DOMAIN segs[s].texts PROVE segs[s].texts[t][1] # Head0
      <4>1. PICK k \in DOMAIN infos : k = gc[s - 1] /\ segs[s].texts[t] = infos[k].place
        BY <1>11, <1>13
      <4> QED
        BY <1>12, <4>1 DEF Head0
    <3> QED
      BY <3>1, <3>2
  <2>2. /\ segs[1].id[1] # "header" /\ segs[1].type # "header"
        /\ \A t \in DOMAIN segs[1].texts : segs[1].texts[t][1] # Head0
    BY <1>2, <1>8, <1>10 DEF Head0
  <2> QED
    BY <1>10, <1>14, <2>1, <2>2, Zenon DEF OfBody
<1>17. ASSUME NEW p, NEW i, Listed(p, i), TextAt(<<p, i>>) = "jp", ~Hidden(<<p, i>>)
       PROVE  Held(segs, <<p, i>>)
  <2>1. PICK place : place = <<p, i>> /\ place[1] = p
    <3>1. <<p, i>>[1] = p
      OBVIOUS
    <3> QED
      BY <3>1, Zenon
  <2>2. Wanted(p, i)
    BY <1>17 DEF Wanted
  <2>3. PICK k \in DOMAIN infos : infos[k].place = place
    BY <1>17, <2>1, <2>2 DEF ListsWanted
  <2>4. infos[k].place[1] = p
    BY <2>1, <2>3
  <2>5. ItemAt(place) \in Item
    <3>1. p \in DOMAIN file.parts /\ i \in DOMAIN file.parts[p]
      BY <1>17 DEF Listed
    <3> QED
      BY <2>1, <3>1, PartsItems
  <2>6. ASSUME NEW s \in 2 .. m + 1, place \in Range(segs[s].texts)
        PROVE  /\ s - 1 \in DOMAIN cells /\ gc[s - 1] \in DOMAIN infos /\ infos[gc[s - 1]].place = place
               /\ p # 1
    <3>1. PICK k2 \in DOMAIN infos : k2 = gc[s - 1] /\ infos[k2].place[1] # 1
      BY <1>11
    <3>2. place = infos[k2].place
      BY <1>13, <2>6, <3>1
    <3> QED
      BY <1>11, <1>12, <2>1, <3>1, <3>2
  <2>7. CASE p = 1
    <3>1. place \in Range(texts)
      BY <1>2, <1>17, <2>1, <2>3, <2>4, <2>7 DEF Readable
    <3>2. 1 \in DOMAIN segs /\ place \in Range(segs[1].texts)
      BY <1>8, <1>10, <3>1
    <3>3. \A s \in DOMAIN segs : place \in Range(segs[s].texts) => s = 1
      BY <1>10, <1>14, <2>6, <2>7
    <3>4. OnlyIn(segs, place, 1)
      BY <3>2, <3>3 DEF OnlyIn
    <3> QED
      BY <2>1, <2>5, <3>4, HeldOnce
  <2>8. CASE p # 1
    <3>1. place \notin Range(segs[1].texts)
      <4>1. ASSUME place \in Range(segs[1].texts) PROVE FALSE
        <5>1. PICK t \in DOMAIN texts : texts[t] = place
          BY <1>8, <1>10, <4>1 DEF Range
        <5> QED
          BY <1>2, <2>1, <2>8, <5>1
      <4> QED
        BY <4>1
    <3>2. ASSUME NEW s \in Holding(segs, place)
          PROVE  s \in 2 .. m + 1 /\ s - 1 \in DOMAIN cells /\ gc[s - 1] \in DOMAIN infos
                 /\ infos[gc[s - 1]].place = place
      <4>1. s \in 1 .. m + 1 /\ place \in Range(segs[s].texts)
        BY <1>10 DEF Holding
      <4>2. s \in 2 .. m + 1
        BY <1>14, <3>1, <4>1
      <4> QED
        BY <2>6, <4>1, <4>2
    <3>3. PICK c \in DOMAIN cells : gc[c] = k
      BY <1>5, <2>4, <2>8
    <3>4. c + 1 \in 2 .. m + 1 /\ (c + 1) - 1 = c /\ c + 1 \in DOMAIN segs
      BY <1>9, <1>10
    <3>5. place \in Range(segs[c + 1].texts)
      BY <1>13, <1>17, <2>1, <2>3, <3>3, <3>4
    <3>6. Holding(segs, place) # {}
      BY <3>4, <3>5 DEF Holding
    <3> DEFINE h == [s \in Holding(segs, place) |-> gc[s - 1]]
    <3>7. h \in [Holding(segs, place) -> DOMAIN infos]
      BY <3>2
    <3>8. IsInjective(h)
      <4>1. ASSUME NEW s \in Holding(segs, place), NEW r \in Holding(segs, place), h[s] = h[r]
            PROVE  s = r
        <5>1. s - 1 \in DOMAIN cells /\ r - 1 \in DOMAIN cells /\ gc[s - 1] = gc[r - 1]
          BY <3>2, <4>1
        <5>2. s - 1 = r - 1
          BY <1>5, <5>1
        <5> QED
          BY <3>2, <5>2
      <4> QED
        BY <4>1 DEF IsInjective
    <3>9. \A s \in Holding(segs, place) : infos[h[s]].place = place
      BY <3>2
    <3> HIDE DEF h
    <3>10. Held(segs, place)
      BY <3>6, <3>7, <3>8, <3>9, HeldByOrigin
    <3> QED
      BY <2>1, <3>10
  <2> QED
    BY <2>7, <2>8
<1>18. HoldsListed(segs)
  BY <1>17 DEF HoldsListed
<1>19. ASSUME CellNamesApart PROVE ApartWithText(segs)
  <2>1. ASSUME NEW s \in 2 .. m + 1, NEW r \in 2 .. m + 1,
               segs[s].texts # <<>>, segs[r].texts # <<>>, segs[s].id = segs[r].id
        PROVE  s = r
    <3>1. PICK k \in DOMAIN infos, l \in DOMAIN infos : k = gc[s - 1] /\ l = gc[r - 1]
      BY <1>11
    <3>2. infos[k].ref = infos[l].ref /\ infos[k].place[1] # 1 /\ infos[l].place[1] # 1
      <4>1. segs[s].id[2] = infos[k].ref /\ infos[k].place[1] # 1
        BY <1>11, <3>1
      <4>2. segs[r].id[2] = infos[l].ref /\ infos[l].place[1] # 1
        BY <1>11, <3>1
      <4> QED
        BY <2>1, <4>1, <4>2
    <3>3. infos[k].place \in InCells /\ infos[l].place \in InCells
      <4>1. ASSUME NEW j \in DOMAIN infos, infos[j].place[1] # 1, OwnText(infos[j].place) # <<>>
            PROVE  infos[j].place \in InCells
        <5>1. TextAt(infos[j].place) # "none"
          BY <4>1 DEF OwnText
        <5>2. infos[j].place[1] > 1
          BY <1>12, <4>1
        <5> QED
          BY <1>12, <4>1, <5>1, <5>2 DEF InCells
      <4>2. OwnText(infos[k].place) # <<>> /\ OwnText(infos[l].place) # <<>>
        BY <1>11, <2>1, <3>1
      <4> QED
        BY <3>2, <4>1, <4>2
    <3>4. infos[k].place = infos[l].place
      <4>1. infos[k].ref \in ItemAt(infos[k].place).grid \cap ItemAt(infos[l].place).grid
        BY <1>12, <3>2
      <4>2. config.tables
        BY <1>12, <3>2
      <4> QED
        BY <1>19, <3>3, <4>1, <4>2 DEF CellNamesApart, CellNameShared
    <3>5. k = l
      BY <3>2, <3>4 DEF ListedOnce
    <3>6. PICK a \in DOMAIN cells, b \in DOMAIN cells : a = s - 1 /\ b = r - 1
      BY <1>11
    <3>7. gc[a] = gc[b]
      BY <3>1, <3>5, <3>6
    <3>8. a = b
      BY <1>5, <3>7
    <3> QED
      BY <3>6, <3>8
  <2>2. ASSUME NEW s \in 2 .. m + 1 PROVE segs[s].id # segs[1].id
    BY <1>8, <1>10, <1>11
  <2> QED
    BY <1>10, <1>14, <2>1, <2>2 DEF ApartWithText
<1> QED
  BY <1>10, <1>15, <1>16, <1>18, <1>19

\* The paragraphs and cells that have a text.
LEMMA ParagraphsRight ==
  ASSUME IsFile, file.format = "docx", NEW out, out = ParagraphSegments
  PROVE  /\ out \in Seq(DocSegment) /\ WellMade(out) /\ OfBody(out) /\ HoldsListed(out)
         /\ ~config.merge \/ CellNamesApart => Distinct(out)
         /\ ~config.merge => Leading(out)
<1>1. PICK infos : infos = ParagraphInfos
  OBVIOUS
<1>2. infos \in Seq(Info) /\ ListedOnce(infos) /\ ListsWanted(infos)
  BY <1>1, ParagraphInfosRight
<1>4. PICK segs : segs = IF config.merge THEN Grouped(infos) ELSE Numbered(infos)
  OBVIOUS
<1>5. out = WithTexts(segs)
  BY <1>1, <1>4 DEF ParagraphSegments
<1>6. /\ segs \in Seq(DocSegment) /\ Untranslated(segs) /\ OfBody(segs) /\ HoldsListed(segs)
      /\ ~config.merge \/ CellNamesApart => ApartWithText(segs)
      /\ ~config.merge => Leading(segs)
  <2>1. CASE config.merge
    <3>1. segs = Grouped(infos)
      BY <1>4, <2>1
    <3> QED
      BY <1>2, <2>1, <3>1, GroupedRight
  <2>2. CASE ~config.merge
    <3>1. segs = Numbered(infos)
      BY <1>4, <2>2
    <3> QED
      BY <1>2, <2>2, <3>1, NumberedRight DEF ApartWithText, Distinct
  <2> QED
    BY <2>1, <2>2
<1>7. /\ out \in Seq(DocSegment) /\ WellMade(out) /\ WithText(out, segs)
      /\ ApartWithText(segs) => Distinct(out)
      /\ \A place : Held(segs, place) => Held(out, place)
  BY <1>5, <1>6, WithTextsRight
<1>8. OfBody(out)
  <2>1. ASSUME NEW s \in DOMAIN out
        PROVE  /\ out[s].id[1] # "header" /\ out[s].type # "header"
               /\ \A t \in DOMAIN out[s].texts : out[s].texts[t][1] # Head0
    <3>1. PICK r \in DOMAIN segs : out[s] = segs[r]
      BY <1>7 DEF WithText
    <3> QED
      BY <1>6, <3>1 DEF OfBody
  <2> QED
    BY <2>1 DEF OfBody
<1>9. HoldsListed(out)
  BY <1>6, <1>7 DEF HoldsListed
<1>10. ASSUME Leading(segs) PROVE Leading(out)
  <2>1. ASSUME NEW i \in DOMAIN file.parts[1], \A j \in 1 .. i : Wanted(1, j)
        PROVE  /\ \A s \in DOMAIN out :
                    out[s].type = "paragraph" /\ out[s].key = i => out[s].texts = OwnText(<<1, i>>)
               /\ TextAt(<<1, i>>) # "none" =>
                    \E s \in DOMAIN out : out[s].type = "paragraph" /\ out[s].key = i
    <3>1. /\ \A s \in DOMAIN segs :
               segs[s].type = "paragraph" /\ segs[s].key = i => segs[s].texts = OwnText(<<1, i>>)
          /\ TextAt(<<1, i>>) # "none" =>
               \E s \in DOMAIN segs : segs[s].type = "paragraph" /\ segs[s].key = i
      BY <1>10, <2>1 DEF Leading
    <3>2. ASSUME NEW s \in DOMAIN out, out[s].type = "paragraph", out[s].key = i
          PROVE  out[s].texts = OwnText(<<1, i>>)
      <4>1. PICK r \in DOMAIN segs : out[s] = segs[r]
        BY <1>7 DEF WithText
      <4> QED
        BY <3>1, <3>2, <4>1
    <3>3. ASSUME TextAt(<<1, i>>) # "none"
          PROVE  \E s \in DOMAIN out : out[s].type = "paragraph" /\ out[s].key = i
      <4>1. PICK r \in DOMAIN segs : segs[r].type = "paragraph" /\ segs[r].key = i
        BY <3>1, <3>3
      <4>2. segs[r].texts # <<>>
        <5>1. segs[r].texts = <<<<1, i>>>>
          BY <3>1, <3>3, <4>1 DEF OwnText
        <5> QED
          BY <5>1, OneText
      <4>3. PICK s \in DOMAIN out : out[s] = segs[r]
        BY <1>7, <4>2 DEF WithText
      <4> QED
        BY <4>1, <4>3
    <3> QED
      BY <3>2, <3>3
  <2> QED
    BY <2>1 DEF Leading
<1> QED
  BY <1>6, <1>7, <1>8, <1>9, <1>10

\* Segments of headers and footers.
OfHeads(segs) ==
  \A s \in DOMAIN segs :
    /\ segs[s].id[1] = "header" /\ segs[s].type = "header"
    /\ \A t \in DOMAIN segs[s].texts : segs[s].texts[t][1] = Head0

\* The segments of headers and footers.
LEMMA HeadersRight ==
  ASSUME IsFile, NEW out, out = WithTexts(HeaderSegments)
  PROVE  /\ out \in Seq(DocSegment) /\ WellMade(out) /\ Distinct(out) /\ OfHeads(out)
         /\ config.headers => \A i \in DOMAIN file.heads :
              TextAt(<<Head0, i>>) = "jp" => Held(out, <<Head0, i>>)
<1>1. PICK n \in Nat : n = Len(file.heads) /\ DOMAIN file.heads = 1 .. n
  BY DEF IsFile
<1>2. PICK segs : segs = HeaderSegments
  OBVIOUS
<1>3. PICK c \in Nat : /\ DOMAIN segs = 1 .. c /\ c <= n /\ segs = [k \in 1 .. c |-> segs[k]]
                       /\ config.headers => c = n
                       /\ \A i \in 1 .. c : segs[i] = Segment(<<"header", i>>, "header", Head0, i,
                                                              OwnText(<<Head0, i>>))
  <2>1. CASE config.headers
    BY <1>1, <1>2, <2>1 DEF HeaderSegments
  <2>2. CASE ~config.headers
    <3>1. segs = <<>>
      BY <1>2, <2>2 DEF HeaderSegments
    <3>2. DOMAIN segs = 1 .. 0 /\ segs = [k \in 1 .. 0 |-> segs[k]]
      BY <3>1
    <3> QED
      BY <2>2, <3>2
  <2> QED
    BY <2>1, <2>2
<1>4. ASSUME NEW i \in 1 .. c
      PROVE  /\ <<Head0, i>> \in Place /\ <<Head0, i>> \in Places /\ ItemAt(<<Head0, i>>) \in Item
             /\ <<Head0, i>>[1] = Head0 /\ <<Head0, i>>[2] = i
  <2>1. i \in DOMAIN file.heads /\ i \in Nat /\ Head0 \in Nat
    BY <1>1, <1>3 DEF Head0
  <2>2. <<Head0, i>> \in Place
    BY <2>1 DEF Place
  <2>3. <<Head0, i>> \in Places
    BY <2>1 DEF Places
  <2>4. ItemAt(<<Head0, i>>) = file.heads[i]
    BY DEF ItemAt
  <2>5. file.heads[i] \in Item
    BY <2>1 DEF IsFile
  <2> QED
    BY <2>2, <2>3, <2>4, <2>5
<1>5. ASSUME NEW i \in 1 .. c
      PROVE  /\ segs[i] \in DocSegment /\ segs[i].id[1] = "header" /\ segs[i].id[2] = i
             /\ segs[i].type = "header" /\ segs[i].texts = OwnText(<<Head0, i>>)
             /\ segs[i].state = "source"
  <2>1. PICK type \in Names : type = "header"
    BY DEF Names
  <2>2. i \in Nat /\ Head0 \in Nat
    BY DEF Head0
  <2>3. PICK id \in SegmentId : id = <<"header", i>> /\ id[1] = "header" /\ id[2] = i
    <3>1. <<type, i>> \in SegmentId /\ <<type, i>>[1] = type /\ <<type, i>>[2] = i
      BY <2>2, PairTyped, Zenon
    <3> QED
      BY <2>1, <3>1, Zenon
  <2>4. PICK pl \in Place : pl = <<Head0, i>> /\ pl \in Places
    BY <1>4
  <2>5. PICK texts \in Seq(Place) : texts = OwnText(pl)
    BY <2>4, OwnTextRight
  <2>a. PICK zero \in Nat : zero = Head0
    BY <2>2
  <2>b. PICK key \in Nat : key = i
    BY <2>2
  <2>6. PICK seg : seg = segs[i] /\ seg = Segment(id, type, zero, key, texts)
    BY <1>3, <2>1, <2>3, <2>4, <2>5, <2>a, <2>b
  <2>7. /\ seg \in DocSegment /\ seg.id = id /\ seg.type = type
        /\ seg.texts = texts /\ seg.state = "source"
    BY SMTT(30), <2>6, SegmentTyped
  <2> QED
    BY <2>1, <2>3, <2>4, <2>5, <2>6, <2>7
<1>6. ASSUME NEW i \in 1 .. c
      PROVE  /\ Range(segs[i].texts) \subseteq Places
             /\ \A t \in DOMAIN segs[i].texts :
                  segs[i].texts[t] = <<Head0, i>> /\ TextAt(segs[i].texts[t]) # "none"
             /\ \A pl : pl \in Range(segs[i].texts) <=> pl = <<Head0, i>> /\ TextAt(<<Head0, i>>) # "none"
  <2>1. PICK pl \in Place : pl = <<Head0, i>> /\ pl \in Places
    BY <1>4
  <2>2. PICK own : own = segs[i].texts /\ own = OwnText(pl)
    BY <1>5, <2>1
  <2> QED
    BY <2>1, <2>2, OwnTextRight
<1>7. segs \in Seq(DocSegment)
  <2>1. segs \in [1 .. c -> DocSegment]
    BY <1>3, <1>5
  <2> QED
    BY <2>1
<1>8. Untranslated(segs)
  BY <1>3, <1>5, <1>6 DEF Untranslated
<1>9. Distinct(segs)
  <2>1. \A k \in DOMAIN segs : segs[k].id[2] = k
    BY <1>3, <1>5
  <2> QED
    BY <2>1 DEF Distinct
<1>10. /\ out \in Seq(DocSegment) /\ WellMade(out) /\ WithText(out, segs)
       /\ ApartWithText(segs) => Distinct(out)
       /\ \A place : Held(segs, place) => Held(out, place)
  BY <1>2, <1>7, <1>8, WithTextsRight
<1>11. OfHeads(out)
  <2>1. ASSUME NEW s \in DOMAIN out
        PROVE  /\ out[s].id[1] = "header" /\ out[s].type = "header"
               /\ \A t \in DOMAIN out[s].texts : out[s].texts[t][1] = Head0
    <3>1. PICK r \in 1 .. c : out[s] = segs[r]
      BY <1>3, <1>10 DEF WithText
    <3>2. ASSUME NEW t \in DOMAIN segs[r].texts PROVE segs[r].texts[t][1] = Head0
      BY ZenonT(40), <1>4, <1>6
    <3> QED
      BY <1>5, <3>1, <3>2
  <2> QED
    BY <2>1 DEF OfHeads
<1>12. ASSUME config.headers, NEW i \in DOMAIN file.heads, TextAt(<<Head0, i>>) = "jp"
       PROVE  Held(out, <<Head0, i>>)
  <2>1. i \in 1 .. c
    BY <1>1, <1>3, <1>12
  <2>2. PICK place : place = <<Head0, i>>
    OBVIOUS
  <2>3. ItemAt(place) \in Item
    BY <1>4, <2>1, <2>2
  <2>4. i \in DOMAIN segs /\ place \in Range(segs[i].texts)
    BY <1>3, <1>6, <1>12, <2>1, <2>2
  <2>5. ASSUME NEW r \in DOMAIN segs, place \in Range(segs[r].texts) PROVE r = i
    <3>1. r \in 1 .. c /\ <<Head0, r>> = <<Head0, i>>
      BY <1>3, <1>6, <2>2, <2>5
    <3> QED
      BY <3>1
  <2>6. OnlyIn(segs, place, i)
    BY <2>4, <2>5 DEF OnlyIn
  <2>7. Held(segs, place)
    BY <2>3, <2>6, HeldOnce
  <2> QED
    BY <1>10, <2>2, <2>7
<1> QED
  BY <1>9, <1>10, <1>11, <1>12 DEF Distinct, ApartWithText

\* Headers after paragraphs.
LEMMA DocxRight ==
  ASSUME IsFile, file.format = "docx", NEW out, out = DocxSegments
  PROVE  /\ out \in Seq(DocSegment) /\ WellMade(out) /\ Covers(out)
         /\ ~config.merge \/ CellNamesApart => Distinct(out)
         /\ ~config.merge => Leading(out)
<1>1. PICK body, heads : body = ParagraphSegments /\ heads = WithTexts(HeaderSegments)
  OBVIOUS
<1>2. /\ body \in Seq(DocSegment) /\ WellMade(body) /\ OfBody(body) /\ HoldsListed(body)
      /\ ~config.merge \/ CellNamesApart => Distinct(body)
      /\ ~config.merge => Leading(body)
  BY <1>1, ParagraphsRight
<1>3. /\ heads \in Seq(DocSegment) /\ WellMade(heads) /\ Distinct(heads) /\ OfHeads(heads)
      /\ config.headers => \A i \in DOMAIN file.heads :
           TextAt(<<Head0, i>>) = "jp" => Held(heads, <<Head0, i>>)
  BY <1>1, HeadersRight
<1>4. PICK a \in Nat, b \in Nat : /\ a = Len(body) /\ DOMAIN body = 1 .. a
                                  /\ b = Len(heads) /\ DOMAIN heads = 1 .. b
  BY <1>2, <1>3
<1>5. /\ out \in Seq(DocSegment) /\ DOMAIN out = 1 .. a + b
      /\ \A s \in 1 .. a + b : out[s] = IF s <= a THEN body[s] ELSE heads[s - a]
  <2>1. out = body \o heads
    BY <1>1 DEF DocxSegments
  <2>2. body \in Seq(DocSegment) /\ heads \in Seq(DocSegment)
    BY <1>2, <1>3
  <2>3. /\ Len(body \o heads) = Len(body) + Len(heads)
        /\ \A i \in 1 .. Len(body) + Len(heads) :
             (body \o heads)[i] = IF i <= Len(body) THEN body[i] ELSE heads[i - Len(body)]
    BY ONLY ZenonT(40), <2>2, ConcatProperties
  <2>4. out \in Seq(DocSegment)
    BY <2>1, <2>2
  <2>5. Len(out) = a + b
    BY <1>4, <2>1, <2>3
  <2> QED
    BY <1>4, <2>1, <2>3, <2>4, <2>5
<1>6. ASSUME NEW s \in 1 .. a PROVE s \in DOMAIN body /\ s \in DOMAIN out /\ out[s] = body[s]
  BY <1>4, <1>5
<1>7. ASSUME NEW s \in 1 .. b PROVE s \in DOMAIN heads /\ s + a \in DOMAIN out /\ out[s + a] = heads[s]
  <2>1. s + a \in 1 .. a + b /\ ~ (s + a <= a) /\ (s + a) - a = s
    OBVIOUS
  <2> QED
    BY <1>4, <1>5, <2>1
<1>8. \A s \in DOMAIN out : s \in 1 .. a \/ \E r \in 1 .. b : s = r + a
  <2>1. ASSUME NEW s \in 1 .. a + b, s \notin 1 .. a PROVE \E r \in 1 .. b : s = r + a
    <3>1. s - a \in 1 .. b /\ s = (s - a) + a
      BY <2>1
    <3> QED
      BY <3>1
  <2> QED
    BY <1>5, <2>1
<1>9. WellMade(out)
  <2>1. ASSUME NEW s \in DOMAIN out
        PROVE  /\ out[s].texts # <<>> /\ Range(out[s].texts) \subseteq Places
               /\ \A t \in DOMAIN out[s].texts : TextAt(out[s].texts[t]) # "none"
               /\ out[s].state = "source"
    <3>1. CASE s \in 1 .. a
      BY <1>2, <1>6, <3>1 DEF WellMade
    <3>2. ASSUME NEW r \in 1 .. b, s = r + a
          PROVE  /\ out[s].texts # <<>> /\ Range(out[s].texts) \subseteq Places
                 /\ \A t \in DOMAIN out[s].texts : TextAt(out[s].texts[t]) # "none"
                 /\ out[s].state = "source"
      <4>1. r \in DOMAIN heads /\ out[s] = heads[r]
        BY <1>7, <3>2
      <4> QED
        BY <1>3, <4>1 DEF WellMade
    <3> QED
      BY <1>8, <3>1, <3>2
  <2> QED
    BY <2>1 DEF WellMade
<1>10. ASSUME Distinct(body) PROVE Distinct(out)
  <2>1. ASSUME NEW s \in 1 .. a, NEW r \in 1 .. b PROVE out[s].id # out[r + a].id
    <3>1. body[s].id[1] # "header" /\ heads[r].id[1] = "header"
      BY <1>2, <1>3, <1>6, <1>7 DEF OfBody, OfHeads
    <3> QED
      BY <1>6, <1>7, <3>1
  <2>2. ASSUME NEW s \in DOMAIN out, NEW r \in DOMAIN out, s # r PROVE out[s].id # out[r].id
    <3>1. CASE s \in 1 .. a /\ r \in 1 .. a
      BY <1>6, <1>10, <2>2, <3>1 DEF Distinct
    <3>2. CASE s \in 1 .. a /\ r \notin 1 .. a
      BY <1>8, <2>1, <3>2
    <3>3. CASE s \notin 1 .. a /\ r \in 1 .. a
      <4>1. out[r].id # out[s].id
        BY <1>8, <2>1, <3>3
      <4> QED
        BY <4>1
    <3>4. CASE s \notin 1 .. a /\ r \notin 1 .. a
      <4>1. PICK x \in 1 .. b, y \in 1 .. b : s = x + a /\ r = y + a
        BY <1>8, <3>4
      <4>2. x \in DOMAIN heads /\ y \in DOMAIN heads /\ x # y /\ out[s] = heads[x] /\ out[r] = heads[y]
        BY <1>7, <2>2, <4>1
      <4> QED
        BY <1>3, <4>2 DEF Distinct
    <3> QED
      BY <3>1, <3>2, <3>3, <3>4
  <2> QED
    BY <2>2 DEF Distinct
<1>11. ASSUME NEW i, TextAt(<<Head0, i>>) = "jp", Held(heads, <<Head0, i>>)
       PROVE  Held(out, <<Head0, i>>)
  <2>1. PICK place : place = <<Head0, i>>
    OBVIOUS
  <2>2. place[1] = Head0
    BY <2>1
  <2>3. ASSUME NEW s \in Holding(out, place)
        PROVE  s \in DOMAIN out /\ s - a \in Holding(heads, place) /\ s \in Nat
    <3>1. s \in DOMAIN out /\ place \in Range(out[s].texts)
      BY DEF Holding
    <3>2. s \notin 1 .. a
      <4>1. ASSUME s \in 1 .. a PROVE FALSE
        <5>1. PICK t \in DOMAIN out[s].texts : out[s].texts[t] = place
          BY <3>1 DEF Range
        <5>2. out[s].texts[t][1] # Head0
          BY <1>2, <1>6, <4>1, <5>1 DEF OfBody
        <5> QED
          BY <2>2, <5>1, <5>2
      <4> QED
        BY <4>1
    <3>3. PICK r \in 1 .. b : s = r + a
      BY <1>8, <3>1, <3>2
    <3>4. r \in DOMAIN heads /\ place \in Range(heads[r].texts) /\ s - a = r
      BY <1>7, <3>1, <3>3
    <3> QED
      BY <3>1, <3>3, <3>4 DEF Holding
  <2>4. Held(heads, place)
    BY <1>11, <2>1
  <2>5. PICK c \in [Holding(heads, place) -> ItemAt(place).grid] : IsInjective(c)
    BY <2>4 DEF Held
  <2> DEFINE d == [s \in Holding(out, place) |-> c[s - a]]
  <2>6. d \in [Holding(out, place) -> ItemAt(place).grid]
    BY <2>3, <2>5
  <2>7. IsInjective(d)
    <3>1. ASSUME NEW s \in Holding(out, place), NEW r \in Holding(out, place), d[s] = d[r] PROVE s = r
      <4>1. s - a = r - a
        BY <2>3, <2>5, <3>1 DEF IsInjective
      <4> QED
        BY <2>3, <4>1
    <3> QED
      BY <3>1 DEF IsInjective
  <2> HIDE DEF d
  <2>8. Holding(out, place) # {}
    <3>1. PICK r \in DOMAIN heads : place \in Range(heads[r].texts)
      BY <2>4 DEF Held, Holding
    <3>2. r + a \in DOMAIN out /\ out[r + a] = heads[r]
      BY <1>4, <1>7
    <3> QED
      BY <3>1, <3>2 DEF Holding
  <2> QED
    BY <2>1, <2>6, <2>7, <2>8 DEF Held
<1>12. ASSUME NEW p \in DOMAIN file.parts, NEW i, Held(body, <<p, i>>)
       PROVE  Held(out, <<p, i>>)
  <2>1. PICK place : place = <<p, i>>
    OBVIOUS
  <2>2. place[1] # Head0
    BY <2>1, PartsItems DEF Head0
  <2>3. Holding(out, place) = Holding(body, place)
    <3>1. ASSUME NEW s \in Holding(out, place) PROVE s \in Holding(body, place)
      <4>1. s \in DOMAIN out /\ place \in Range(out[s].texts)
        BY DEF Holding
      <4>2. s \in 1 .. a
        <5>1. ASSUME NEW r \in 1 .. b, s = r + a PROVE FALSE
          <6>1. r \in DOMAIN heads /\ out[s] = heads[r]
            BY <1>7, <5>1
          <6>2. PICK t \in DOMAIN heads[r].texts : heads[r].texts[t] = place
            BY <4>1, <6>1 DEF Range
          <6>3. heads[r].texts[t][1] = Head0
            BY <1>3, <6>1 DEF OfHeads
          <6> QED
            BY <2>2, <6>2, <6>3
        <5> QED
          BY <1>8, <4>1, <5>1
      <4> QED
        BY <1>6, <4>1, <4>2 DEF Holding
    <3>2. ASSUME NEW s \in Holding(body, place) PROVE s \in Holding(out, place)
      <4>1. s \in 1 .. a /\ place \in Range(body[s].texts)
        BY <1>4 DEF Holding
      <4> QED
        BY <1>6, <4>1 DEF Holding
    <3> QED
      BY <3>1, <3>2
  <2>4. Held(body, place)
    BY <1>12, <2>1
  <2> QED
    BY <2>1, <2>3, <2>4 DEF Held
<1>13. Covers(out)
  <2>1. ASSUME NEW place \in Places, Meant(place) PROVE Held(out, place)
    <3>1. CASE \E i \in DOMAIN file.heads : place = <<Head0, i>>
      <4>1. PICK i \in DOMAIN file.heads : place = <<Head0, i>>
        BY <3>1
      <4>2. config.headers /\ TextAt(<<Head0, i>>) = "jp"
        <5>1. <<Head0, i>>[1] = Head0
          OBVIOUS
        <5> QED
          BY <2>1, <4>1, <5>1 DEF Meant
      <4> QED
        BY <1>3, <1>11, <4>1, <4>2
    <3>2. CASE \E p \in DOMAIN file.parts : \E i \in DOMAIN file.parts[p] : place = <<p, i>>
      <4>1. PICK p \in DOMAIN file.parts : \E i \in DOMAIN file.parts[p] : place = <<p, i>>
        BY <3>2
      <4>2. PICK i \in DOMAIN file.parts[p] : place = <<p, i>>
        BY <4>1
      <4>3. TextAt(<<p, i>>) = "jp" /\ ~Hidden(<<p, i>>) /\ (p > 1 => config.tables)
        <5>1. <<p, i>>[1] = p
          OBVIOUS
        <5> QED
          BY <2>1, <4>2, <5>1 DEF Meant
      <4>4. Listed(p, i)
        <5>1. p \in Nat /\ p # 0
          BY PartsItems
        <5> QED
          BY <4>3, <5>1 DEF Listed
      <4> QED
        BY <1>2, <1>12, <4>2, <4>3, <4>4 DEF HoldsListed
    <3> QED
      BY <3>1, <3>2 DEF Places
  <2> QED
    BY <2>1 DEF Covers
<1>14. ASSUME Leading(body) PROVE Leading(out)
  <2>1. ASSUME NEW i \in DOMAIN file.parts[1], \A j \in 1 .. i : Wanted(1, j)
        PROVE  /\ \A s \in DOMAIN out :
                    out[s].type = "paragraph" /\ out[s].key = i => out[s].texts = OwnText(<<1, i>>)
               /\ TextAt(<<1, i>>) # "none" =>
                    \E s \in DOMAIN out : out[s].type = "paragraph" /\ out[s].key = i
    <3>1. /\ \A s \in DOMAIN body :
               body[s].type = "paragraph" /\ body[s].key = i => body[s].texts = OwnText(<<1, i>>)
          /\ TextAt(<<1, i>>) # "none" =>
               \E s \in DOMAIN body : body[s].type = "paragraph" /\ body[s].key = i
      BY <1>14, <2>1 DEF Leading
    <3>2. ASSUME NEW s \in DOMAIN out, out[s].type = "paragraph", out[s].key = i
          PROVE  out[s].texts = OwnText(<<1, i>>)
      <4>1. s \in 1 .. a
        <5>1. ASSUME NEW r \in 1 .. b, s = r + a PROVE FALSE
          <6>1. out[s].type = "header"
            BY <1>3, <1>7, <5>1 DEF OfHeads
          <6> QED
            BY <3>2, <6>1
        <5> QED
          BY <1>8, <5>1
      <4> QED
        BY <1>6, <3>1, <3>2, <4>1
    <3>3. ASSUME TextAt(<<1, i>>) # "none"
          PROVE  \E s \in DOMAIN out : out[s].type = "paragraph" /\ out[s].key = i
      <4>1. PICK r \in DOMAIN body : body[r].type = "paragraph" /\ body[r].key = i
        BY <3>1, <3>3
      <4>2. r \in DOMAIN out /\ out[r] = body[r]
        BY <1>4, <1>6
      <4> QED
        BY <4>1, <4>2
    <3> QED
      BY <3>2, <3>3
  <2> QED
    BY <2>1 DEF Leading
<1> QED
  BY <1>2, <1>5, <1>9, <1>10, <1>13, <1>14

-----------------------------------------------------------------------------
(* What the parsers make, whatever the format *)

\* Each segment has a text, none that of an empty item; whether it is translated is open.
HasTexts(segs) ==
  \A s \in DOMAIN segs :
    /\ segs[s].texts # <<>> /\ Range(segs[s].texts) \subseteq Places
    /\ \A t \in DOMAIN segs[s].texts : TextAt(segs[s].texts[t]) # "none"
\* a segment is one cell, under its place
CellByCell(segs) ==
  \A s \in DOMAIN segs : \E p \in DOMAIN file.parts : \E i \in DOMAIN file.parts[p] :
    /\ segs[s].part = p /\ segs[s].key = i /\ segs[s].texts = <<<<p, i>>>>
    /\ TextAt(<<p, i>>) # "none"
FrameByFrame(segs) == OnlyFrames(segs) /\ \A p \in DOMAIN file.parts : EachFrame(segs, p)
NamedApart == ~(file.format = "docx" /\ config.merge /\ config.tables /\ CellNameShared)

ParsedWell(segs) ==
  /\ segs \in Seq(DocSegment)
  /\ HasTexts(segs)
  /\ NamedApart => Distinct(segs)
  /\ Covers(segs)
  /\ file.format = "docx" /\ ~config.merge => Leading(segs)
  /\ file.format = "xlsx" => CellByCell(segs)
  /\ file.format = "pptx" => FrameByFrame(segs)
  /\ file.format = "pdf" => OnlyPages(segs)

\* Fresh segments have texts and are not translated.
LEMMA WellMadeHasTexts ==
  ASSUME NEW segs, WellMade(segs)
  PROVE  HasTexts(segs) /\ \A s \in DOMAIN segs : segs[s].state = "source"
BY DEF WellMade, HasTexts

\* A cell's segment is known by its sheet and its place.
LEMMA CellsByPlace ==
  ASSUME IsFile, NEW segs, OnlyCells(segs)
  PROVE  CellByCell(segs)
<1>1. ASSUME NEW s \in DOMAIN segs
      PROVE  \E p \in DOMAIN file.parts : \E i \in DOMAIN file.parts[p] :
               /\ segs[s].part = p /\ segs[s].key = i /\ segs[s].texts = <<<<p, i>>>>
               /\ TextAt(<<p, i>>) # "none"
  <2>1. PICK p \in DOMAIN file.parts : \E i \in DOMAIN file.parts[p] :
          segs[s] = CellSegment(p, i) /\ TextAt(<<p, i>>) # "none"
    BY DEF OnlyCells
  <2>2. PICK i \in DOMAIN file.parts[p] : segs[s] = CellSegment(p, i) /\ TextAt(<<p, i>>) # "none"
    BY <2>1
  <2>3. p \in Nat /\ i \in Nat
    BY PartsItems
  <2>4. /\ CellSegment(p, i).part = p /\ CellSegment(p, i).key = i
        /\ CellSegment(p, i).texts = <<<<p, i>>>>
    BY <2>3, CellSegmentTyped
  <2> QED
    BY <2>2, <2>4
<1> QED
  BY <1>1 DEF CellByCell

\* The four parsers, by format.
LEMMA ParsedSegmentsRight ==
  ASSUME IsFile, NEW segs, segs = ParsedSegments
  PROVE  ParsedWell(segs) /\ \A s \in DOMAIN segs : segs[s].state = "source"
<1>1. CASE file.format = "docx"
  <2>1. segs = DocxSegments
    BY <1>1 DEF ParsedSegments
  <2>2. /\ segs \in Seq(DocSegment) /\ WellMade(segs) /\ Covers(segs)
        /\ ~config.merge \/ CellNamesApart => Distinct(segs)
        /\ ~config.merge => Leading(segs)
    BY <1>1, <2>1, DocxRight
  <2>4. NamedApart => Distinct(segs)
    BY <1>1, <2>2 DEF NamedApart, CellNamesApart
  <2> QED
    BY <1>1, <2>2, <2>4, WellMadeHasTexts DEF ParsedWell
<1>2. CASE file.format = "xlsx"
  <2>1. segs = XlsxSegments
    BY <1>2 DEF ParsedSegments
  <2>2. /\ segs \in Seq(DocSegment) /\ WellMade(segs) /\ Distinct(segs) /\ Covers(segs)
        /\ OnlyCells(segs)
    BY <1>2, <2>1, XlsxRight
  <2> QED
    BY <1>2, <2>2, WellMadeHasTexts, CellsByPlace DEF ParsedWell
<1>3. CASE file.format = "pptx"
  <2>1. segs = PptxSegments
    BY <1>3 DEF ParsedSegments
  <2>2. /\ segs \in Seq(DocSegment) /\ WellMade(segs) /\ Distinct(segs) /\ Covers(segs)
        /\ OnlyFrames(segs) /\ \A p \in DOMAIN file.parts : EachFrame(segs, p)
    BY <1>3, <2>1, PptxRight
  <2> QED
    BY <1>3, <2>2, WellMadeHasTexts DEF ParsedWell, FrameByFrame
<1>4. CASE file.format = "pdf"
  <2>1. segs = PdfSegments
    BY <1>4 DEF ParsedSegments
  <2>2. /\ segs \in Seq(DocSegment) /\ WellMade(segs) /\ Distinct(segs) /\ Covers(segs)
        /\ OnlyPages(segs)
    BY <1>4, <2>1, PdfRight
  <2> QED
    BY <1>4, <2>2, WellMadeHasTexts DEF ParsedWell
<1> QED
  BY <1>1, <1>2, <1>3, <1>4 DEF IsFile, Formats

\* segs are the segments made, some of them translated
SameTexts(segs, made) ==
  /\ segs \in Seq(DocSegment) /\ DOMAIN segs = DOMAIN made
  /\ \A s \in DOMAIN segs :
       /\ segs[s].id = made[s].id /\ segs[s].type = made[s].type /\ segs[s].part = made[s].part
       /\ segs[s].key = made[s].key /\ segs[s].texts = made[s].texts

\* Translating touches none of it.
LEMMA TranslatedWell ==
  ASSUME IsFile, NEW made, ParsedWell(made), NEW segs, SameTexts(segs, made)
  PROVE  ParsedWell(segs)
<1>1. \A place : Holding(segs, place) = Holding(made, place)
  BY DEF Holding, SameTexts
<1>2. Covers(segs)
  BY <1>1 DEF ParsedWell, Covers, Held
<1>3. HasTexts(segs)
  BY DEF ParsedWell, HasTexts, SameTexts
<1>4. ASSUME NamedApart PROVE Distinct(segs)
  BY <1>4 DEF ParsedWell, Distinct, SameTexts
<1>5. ASSUME file.format = "docx", ~config.merge PROVE Leading(segs)
  <2>1. Leading(made)
    BY <1>5 DEF ParsedWell
  <2>2. ASSUME NEW i \in DOMAIN file.parts[1], \A j \in 1 .. i : Wanted(1, j)
        PROVE  /\ \A s \in DOMAIN segs :
                    segs[s].type = "paragraph" /\ segs[s].key = i => segs[s].texts = OwnText(<<1, i>>)
               /\ TextAt(<<1, i>>) # "none" =>
                    \E s \in DOMAIN segs : segs[s].type = "paragraph" /\ segs[s].key = i
    BY Z3, <2>1, <2>2 DEF Leading, SameTexts
  <2> QED
    BY <2>2 DEF Leading
<1>6. ASSUME file.format = "xlsx" PROVE CellByCell(segs)
  BY ZenonT(40), <1>6 DEF ParsedWell, CellByCell, SameTexts
<1>7. ASSUME file.format = "pptx" PROVE FrameByFrame(segs)
  <2>1. FrameByFrame(made)
    BY <1>7 DEF ParsedWell
  <2>2. ASSUME NEW s \in DOMAIN segs
        PROVE  /\ segs[s].part \in DOMAIN file.parts /\ OfFrame(segs[s], segs[s].part)
               /\ \A t \in DOMAIN segs[s].texts : segs[s].texts[t][1] = segs[s].part
    <3>1. /\ segs[s].part = made[s].part /\ segs[s].key = made[s].key
          /\ segs[s].texts = made[s].texts /\ s \in DOMAIN made
      BY DEF SameTexts
    <3>2. /\ made[s].part \in DOMAIN file.parts /\ OfFrame(made[s], made[s].part)
          /\ \A t \in DOMAIN made[s].texts : made[s].texts[t][1] = made[s].part
      BY <2>1, <3>1 DEF FrameByFrame, OnlyFrames
    <3>3. OfFrame(segs[s], segs[s].part)
      BY <3>1, <3>2 DEF OfFrame
    <3> QED
      BY <3>1, <3>2, <3>3
  <2>3. \A p \in DOMAIN file.parts : EachFrame(segs, p)
    BY ZenonT(40), <2>1 DEF FrameByFrame, EachFrame, SameTexts
  <2>4. OnlyFrames(segs)
    BY <2>2 DEF OnlyFrames
  <2> QED
    BY <2>3, <2>4 DEF FrameByFrame
<1>8. ASSUME file.format = "pdf" PROVE OnlyPages(segs)
  BY <1>8 DEF ParsedWell, OnlyPages, BottomUp, SameTexts
<1>9. segs \in Seq(DocSegment)
  BY DEF SameTexts
<1> QED
  BY <1>2, <1>3, <1>4, <1>5, <1>6, <1>7, <1>8, <1>9 DEF ParsedWell

-----------------------------------------------------------------------------
(* The inductive invariant *)

\* A file that is not parsed, or that the parser raised at, has no segments; one that is
\* has those of the parser, translated or still to be.
Unparsed == /\ parsed = <<>> /\ phase \notin {"parsed", "rendered"}
            /\ phase = "file" \/ ParserRaises
IsParsed == phase \in {"parsed", "queued", "rendered"} /\ ~ParserRaises /\ ParsedWell(parsed)
\* what is still to be translated, and what the job takes
Pending ==
  /\ todo = {s \in DOMAIN parsed : parsed[s].state = "source" /\ NeedsTranslation(parsed[s])}
  /\ \A s \in DOMAIN parsed : parsed[s].state # "source" => NeedsTranslation(parsed[s])
Numbers == {s \in DOMAIN parsed : TextAt(parsed[s].texts[1]) \notin {"number", "zero"}}
Handed ==
  phase = "queued" =>
    /\ file.format = "xlsx"  => queued = Keeping(parsed, Numbers)
    /\ file.format # "xlsx" => queued = parsed

DocIInv ==
  /\ IsFile
  /\ phase \in {"file", "parsed", "failed", "queued", "rendered"}
  /\ Unparsed \/ IsParsed
  /\ Pending
  /\ Handed
  /\ phase = "rendered" => todo = {}
  /\ TextsKeepTheirPlaces

\* A place of the file has an item.
LEMMA PlacesItems ==
  ASSUME IsFile, NEW place \in Places
  PROVE  ItemAt(place) \in Item
<1>1. ItemAt(place) \in Item
  <2>1. CASE \E i \in DOMAIN file.heads : place = <<Head0, i>>
    <3>1. PICK i \in DOMAIN file.heads : place = <<Head0, i>>
      BY <2>1
    <3>2. ItemAt(place) = file.heads[i]
      BY <3>1 DEF ItemAt
    <3> QED
      BY <3>2 DEF IsFile
  <2>2. CASE \E p \in DOMAIN file.parts : \E i \in DOMAIN file.parts[p] : place = <<p, i>>
    BY <2>2, PartsItems
  <2> QED
    BY <2>1, <2>2 DEF Places
<1> QED
  BY <1>1

\* The invariant implies DocTypeOK.
LEMMA InvTypes ==
  ASSUME DocIInv
  PROVE  DocTypeOK
<1>1. HasTexts(parsed)
  <2>1. CASE Unparsed
    <3>1. DOMAIN parsed = {}
      BY <2>1 DEF Unparsed
    <3> QED
      BY <3>1 DEF HasTexts
  <2>2. CASE IsParsed
    BY <2>2 DEF IsParsed, ParsedWell
  <2> QED
    BY <2>1, <2>2 DEF DocIInv
<1>2. Pending /\ phase \in {"file", "parsed", "failed", "queued", "rendered"}
  BY DEF DocIInv
<1>3. todo \subseteq DOMAIN parsed
  BY <1>2 DEF Pending
<1> QED
  BY <1>1, <1>2, <1>3 DEF DocTypeOK, HasTexts, Pending

\* The invariant has every text in a segment of the document and of the job: the job leaves out
\* numbers only, and those are not Japanese.
LEMMA InvSegmented ==
  ASSUME DocIInv
  PROVE  TextsSegmented
<1>1. IsFile /\ (Unparsed \/ IsParsed) /\ Handed
  BY DEF DocIInv
<1>2. SegmentIdsUnique
  <2>1. ASSUME NamedApart PROVE Distinct(parsed)
    <3>1. CASE Unparsed
      <4>1. DOMAIN parsed = {}
        BY <3>1 DEF Unparsed
      <4> QED
        BY <4>1 DEF Distinct
    <3>2. CASE IsParsed
      BY <2>1, <3>2 DEF IsParsed, ParsedWell
    <3> QED
      BY <1>1, <3>1, <3>2
  <2> QED
    BY <2>1 DEF SegmentIdsUnique, NamedApart, Distinct
<1>3. ASSUME NEW place \in Places, Meant(place), ~ParserRaises, phase # "file"
      PROVE  /\ Cardinality(Holding(parsed, place)) \in 1 .. Cardinality(ItemAt(place).grid)
             /\ phase = "queued" => Cardinality(Holding(queued, place)) \in 1 .. Cardinality(ItemAt(place).grid)
  <2>1. IsParsed
    BY <1>1, <1>3 DEF Unparsed
  <2>2. ParsedWell(parsed)
    BY <2>1 DEF IsParsed
  <2>3. Held(parsed, place) /\ parsed \in Seq(DocSegment)
    BY <1>3, <2>2 DEF ParsedWell, Covers
  <2>4. ItemAt(place) \in Item
    BY <1>1, PlacesItems
  <2>5. ASSUME phase = "queued" PROVE Held(queued, place)
    <3>1. CASE file.format = "xlsx"
      <4>1. queued = Keeping(parsed, Numbers)
        BY <1>1, <2>5, <3>1 DEF Handed
      <4>2. ASSUME NEW s \in DOMAIN parsed, place \in Range(parsed[s].texts)
            PROVE  s \in Numbers
        <5>1. CellByCell(parsed)
          BY <2>2, <3>1 DEF ParsedWell
        <5>a. PICK p \in DOMAIN file.parts :
                \E i \in DOMAIN file.parts[p] : parsed[s].texts = <<<<p, i>>>>
          BY <5>1 DEF CellByCell
        <5>2. PICK i \in DOMAIN file.parts[p] : parsed[s].texts = <<<<p, i>>>>
          BY <5>a
        <5>3. PICK pl : pl = <<p, i>>
          OBVIOUS
        <5>4. Range(<<pl>>) = {pl} /\ <<pl>>[1] = pl
          BY OneText
        <5>5. parsed[s].texts[1] = place
          BY <4>2, <5>2, <5>3, <5>4
        <5> QED
          BY <1>3, <5>5 DEF Numbers, Meant
      <4> QED
        BY <2>3, <4>1, <4>2, KeepingHeld
    <3>2. CASE file.format # "xlsx"
      BY <1>1, <2>3, <2>5, <3>2 DEF Handed
    <3> QED
      BY <3>1, <3>2
  <2> QED
    BY <2>3, <2>4, <2>5, HeldCounted
<1>4. NothingOverlooked
  BY <1>3 DEF NothingOverlooked
<1> QED
  BY <1>2, <1>4 DEF TextsSegmented

-----------------------------------------------------------------------------
(* What the renderers make of it *)

ShowsOwn(shown, place) ==
  /\ shown.texts = OwnText(place)
  /\ shown.state # "source" <=> TextAt(place) = "jp"
\* ready to be rendered
Ready == IsFile /\ IsParsed /\ Pending /\ todo = {}

\* With nothing left to translate, a segment is translated if it holds Japanese.
LEMMA AllTranslated ==
  ASSUME Ready, NEW s \in DOMAIN parsed
  PROVE  parsed[s].state # "source" <=> NeedsTranslation(parsed[s])
BY DEF Ready, Pending

\* A segment of one item, once translated, shows the item's own text.
LEMMA SegmentShowsOwn ==
  ASSUME Ready, NEW s \in DOMAIN parsed, NEW place, parsed[s].texts = OwnText(place)
  PROVE  ShowsOwn(Shown(parsed[s]), place)
<1>1. PICK seg : seg = parsed[s] /\ (seg.state # "source" <=> NeedsTranslation(seg))
  BY AllTranslated
<1>2. NeedsTranslation(seg) <=> TextAt(place) = "jp"
  <2>1. CASE TextAt(place) = "none"
    <3>1. DOMAIN seg.texts = {}
      BY <1>1, <2>1 DEF OwnText
    <3> QED
      BY <2>1, <3>1 DEF NeedsTranslation
  <2>2. CASE TextAt(place) # "none"
    <3>1. seg.texts = <<place>>
      BY <1>1, <2>2 DEF OwnText
    <3>2. DOMAIN seg.texts = {1} /\ seg.texts[1] = place
      BY <3>1, OneText
    <3> QED
      BY <3>2 DEF NeedsTranslation
  <2> QED
    BY <2>1, <2>2
<1>3. Shown(seg).texts = seg.texts /\ Shown(seg).state = seg.state
  BY DEF Shown
<1> QED
  BY <1>1, <1>2, <1>3 DEF ShowsOwn

\* An item that is left alone shows its own text, and need not be translated unless it is
\* Japanese.
LEMMA OriginalShowsOwn ==
  ASSUME NEW p, NEW i, TextAt(<<p, i>>) # "jp"
  PROVE  ShowsOwn(Original(p, i), <<p, i>>)
<1>1. Original(p, i).texts = OwnText(<<p, i>>) /\ Original(p, i).state = "source"
  BY DEF Original
<1> QED
  BY <1>1 DEF ShowsOwn

\* The last segment of a cell, and all are of that cell.
LEMMA XlsxRendered ==
  ASSUME Ready, file.format = "xlsx", NEW out, out = RenderXlsx,
         NEW p \in DOMAIN file.parts, NEW i \in DOMAIN file.parts[p]
  PROVE  ShowsOwn(out[p][i], <<p, i>>)
<1> DEFINE here == {s \in DOMAIN parsed : parsed[s].part = p /\ parsed[s].key = i}
           last == CHOOSE s \in here : \A r \in here : r <= s
<1>1. out[p][i] = IF here = {} THEN Original(p, i) ELSE Shown(parsed[last])
  BY DEF RenderXlsx
<1>2. IsFile /\ ParsedWell(parsed) /\ ~ParserRaises
  BY DEF Ready, IsParsed
<1>3. parsed \in Seq(DocSegment) /\ CellByCell(parsed) /\ Covers(parsed)
  BY <1>2 DEF ParsedWell
<1>4. PICK place : place = <<p, i>> /\ place[1] = p
  <2>1. <<p, i>>[1] = p
    OBVIOUS
  <2> QED
    BY <2>1, Zenon
<1>5. CASE here = {}
  <2>1. ASSUME TextAt(place) = "jp" PROVE FALSE
    <3>1. place \in Places /\ p # 0
      BY <1>2, <1>4, PartsItems
    <3>a. ~Hidden(place)
      <4>1. ItemAt(place) = file.parts[p][i] /\ file.parts[p][i].within # "table"
        BY <1>2, <1>4, PartsItems DEF IsFile
      <4> QED
        BY <4>1 DEF Hidden
    <3>2. Held(parsed, place)
      BY <1>2, <1>3, <1>4, <2>1, <3>1, <3>a DEF Covers, Meant, Head0
    <3>3. PICK s \in DOMAIN parsed : place \in Range(parsed[s].texts)
      BY <3>2 DEF Held, Holding
    <3>4. PICK q \in DOMAIN file.parts : \E j \in DOMAIN file.parts[q] :
            parsed[s].part = q /\ parsed[s].key = j /\ parsed[s].texts = <<<<q, j>>>>
      BY <1>3 DEF CellByCell
    <3>5. PICK j \in DOMAIN file.parts[q] :
            parsed[s].part = q /\ parsed[s].key = j /\ parsed[s].texts = <<<<q, j>>>>
      BY <3>4
    <3>6. PICK pl : pl = <<q, j>>
      OBVIOUS
    <3>7. place = pl
      BY <3>3, <3>5, <3>6, OneText
    <3>8. q = p /\ j = i
      BY <1>4, <3>6, <3>7
    <3> QED
      BY <1>5, <3>5, <3>8
  <2> QED
    BY <1>1, <1>4, <1>5, <2>1, OriginalShowsOwn
<1>6. CASE here # {}
  <2>1. Len(parsed) \in Nat /\ here \subseteq 1 .. Len(parsed)
    BY <1>3
  <2>2. PICK m \in here : \A r \in here : r <= m
    <3> HIDE DEF here
    <3> QED
      BY <1>6, <2>1, GreatestNumber
  <2>3. last \in here
    BY <2>2
  <2>4. PICK s \in DOMAIN parsed : s = last /\ parsed[s].part = p /\ parsed[s].key = i
    BY <2>3
  <2>5. parsed[s].texts = <<<<p, i>>>> /\ TextAt(<<p, i>>) # "none"
    <3>1. PICK q \in DOMAIN file.parts : \E j \in DOMAIN file.parts[q] :
            /\ parsed[s].part = q /\ parsed[s].key = j /\ parsed[s].texts = <<<<q, j>>>>
            /\ TextAt(<<q, j>>) # "none"
      BY <1>3 DEF CellByCell
    <3> QED
      BY <2>4, <3>1
  <2>6. parsed[s].texts = OwnText(<<p, i>>)
    BY <2>5 DEF OwnText
  <2>7. ShowsOwn(Shown(parsed[s]), <<p, i>>)
    BY <2>6, SegmentShowsOwn
  <2> QED
    BY <1>1, <1>6, <2>4, <2>7
<1> QED
  BY <1>5, <1>6

\* a paragraph that the renderer leaves alone, as its translation is empty
LeftAlone(out, i) ==
  /\ out[1][i] = Original(1, i)
  /\ \E s \in DOMAIN parsed : parsed[s].texts = OwnText(<<1, i>>) /\ parsed[s].state = "empty"

\* The first segment of that number, and all with that number are of that paragraph.
LEMMA DocxRendered ==
  ASSUME Ready, file.format = "docx", ~config.merge, NEW out, out = RenderDocx,
         NEW i \in DOMAIN file.parts[1],
         config.includeEmpty \/ \A j \in 1 .. i : TextAt(<<1, j>>) # "none"
  PROVE  ShowsOwn(out[1][i], <<1, i>>) \/ LeftAlone(out, i)
<1> DEFINE here == {s \in DOMAIN parsed : parsed[s].type = "paragraph" /\ 1 = 1 /\ parsed[s].key = i}
           first == CHOOSE s \in here : \A r \in here : s <= r
<1>1. IsFile /\ ParsedWell(parsed)
  BY DEF Ready, IsParsed
<1>2. parsed \in Seq(DocSegment) /\ Leading(parsed)
  BY <1>1 DEF ParsedWell
<1>3. /\ \A s \in DOMAIN parsed :
           parsed[s].type = "paragraph" /\ parsed[s].key = i => parsed[s].texts = OwnText(<<1, i>>)
      /\ TextAt(<<1, i>>) # "none" =>
           \E s \in DOMAIN parsed : parsed[s].type = "paragraph" /\ parsed[s].key = i
  <2>1. \A j \in 1 .. i : Wanted(1, j)
    BY DEF Wanted
  <2> QED
    BY <1>2, <2>1 DEF Leading
<1>4. 1 \in DOMAIN file.parts
  <2>1. file.parts # <<>> /\ file.parts \in Seq(Seq(Item))
    BY <1>1 DEF IsFile
  <2> QED
    BY <2>1
<1>5. out[1][i] = IF here = {} \/ parsed[first].state = "empty" THEN Original(1, i)
                                                              ELSE Shown(parsed[first])
  BY <1>4 DEF RenderDocx
<1>6. CASE here = {}
  BY <1>3, <1>5, <1>6, OriginalShowsOwn
<1>7. CASE here # {}
  <2>1. here \subseteq Nat
    BY <1>2
  <2>2. PICK m \in here : \A r \in here : m <= r
    <3> HIDE DEF here
    <3> QED
      BY <1>7, <2>1, LeastNumber
  <2>3. first \in here
    BY <2>2
  <2>4. PICK s \in DOMAIN parsed : s = first /\ parsed[s].type = "paragraph" /\ parsed[s].key = i
    BY <2>3
  <2>5. parsed[s].texts = OwnText(<<1, i>>)
    BY <1>3, <2>4
  <2>6. ShowsOwn(Shown(parsed[s]), <<1, i>>)
    BY <2>5, SegmentShowsOwn
  <2>7. CASE parsed[s].state = "empty"
    <3>1. out[1][i] = Original(1, i)
      BY <1>5, <2>4, <2>7
    <3> QED
      BY <2>5, <2>7, <3>1 DEF LeftAlone
  <2>8. CASE parsed[s].state # "empty"
    <3>1. out[1][i] = Shown(parsed[s])
      BY <1>5, <1>7, <2>4, <2>8
    <3> QED
      BY <2>6, <3>1
  <2> QED
    BY <2>7, <2>8
<1> QED
  BY <1>6, <1>7

\* Set from the bottom, the lines are those of the segment turned around, or none.
LEMMA PdfRendered ==
  ASSUME Ready, file.format = "pdf", config.merge, NEW out, out = RenderPdf
  PROVE  /\ DOMAIN out = DOMAIN parsed
         /\ \A s \in DOMAIN out : \A k, l \in DOMAIN out[s] :
              /\ out[s][k].texts[1][1] = parsed[s].key
              /\ k < l => ItemAt(out[s][k].texts[1]).at <= ItemAt(out[s][l].texts[1]).at
<1>1. IsFile /\ ParsedWell(parsed)
  BY DEF Ready, IsParsed
<1>2. parsed \in Seq(DocSegment) /\ OnlyPages(parsed) /\ HasTexts(parsed)
  BY <1>1 DEF ParsedWell
<1>3. ASSUME NEW s \in DOMAIN parsed, NEW k \in DOMAIN out[s], NEW l \in DOMAIN out[s]
      PROVE  /\ out[s][k].texts[1][1] = parsed[s].key
             /\ k < l => ItemAt(out[s][k].texts[1]).at <= ItemAt(out[s][l].texts[1]).at
  <2>1. PICK texts \in Seq(Place) : texts = parsed[s].texts
    <3>1. parsed[s] \in DocSegment
      BY <1>2
    <3> QED
      BY <3>1 DEF DocSegment
  <2>2. PICK n \in Nat : n = Len(texts) /\ DOMAIN texts = 1 .. n
    BY <2>1
  <2>a. out[s] = LET shown == IF parsed[s].state = "empty" THEN <<>> ELSE texts IN
                 [j \in DOMAIN shown |->
                    [texts |-> <<shown[Len(shown) + 1 - j]>>, state |-> parsed[s].state]]
    BY <2>1 DEF RenderPdf
  <2>b. parsed[s].state # "empty"
    <3>1. ASSUME parsed[s].state = "empty" PROVE DOMAIN out[s] = DOMAIN << >>
      BY <2>a, <3>1
    <3> QED
      BY <3>1
  <2>c. out[s] = [j \in DOMAIN texts |->
                   [texts |-> <<texts[Len(texts) + 1 - j]>>, state |-> parsed[s].state]]
    BY <2>a, <2>b
  <2>3. DOMAIN out[s] = 1 .. n
    BY <2>2, <2>c
  <2>4. ASSUME NEW j \in 1 .. n
        PROVE  n + 1 - j \in 1 .. n /\ out[s][j].texts[1] = texts[n + 1 - j]
    <3>1. out[s][j] = [texts |-> <<texts[n + 1 - j]>>, state |-> parsed[s].state]
      BY <2>2, <2>4, <2>c
    <3> QED
      BY <3>1
  <2>5. /\ \A t \in 1 .. n : texts[t][1] = parsed[s].key
        /\ \A t, u \in 1 .. n : t < u => ItemAt(texts[t]).at >= ItemAt(texts[u]).at
    BY <1>2, <2>1, <2>2 DEF OnlyPages, BottomUp
  <2>6. ASSUME NEW t \in 1 .. n PROVE ItemAt(texts[t]).at \in Nat
    <3>1. texts[t] \in Range(texts)
      BY <2>2 DEF Range
    <3>2. texts[t] \in Places
      BY <1>2, <2>1, <3>1 DEF HasTexts
    <3> QED
      BY <1>1, <3>2, PlacesItems DEF Item
  <2>7. k \in 1 .. n /\ l \in 1 .. n
    BY <2>3
  <2>8. PICK x \in 1 .. n, y \in 1 .. n : x = n + 1 - k /\ y = n + 1 - l
    BY <2>4, <2>7
  <2>9. out[s][k].texts[1] = texts[x] /\ out[s][l].texts[1] = texts[y] /\ (k < l => y < x)
    BY <2>4, <2>7, <2>8
  <2> QED
    BY <2>5, <2>6, <2>9
<1>4. DOMAIN out = DOMAIN parsed
  BY DEF RenderPdf
<1> QED
  BY <1>3, <1>4

Stays(shown, p) == \A t \in DOMAIN shown.texts : shown.texts[t][1] = p

\* The two pieces of a slide, its frames and the boxes put on it.
TwoPieces(out, frames, boxes, n, m) ==
  /\ DOMAIN out = 1 .. n + m
  /\ \A i \in 1 .. n : out[i] = frames[i]
  /\ \A i \in 1 .. n + m : i \notin 1 .. n => \E k \in 1 .. m : out[i] = boxes[k]

\* A slide of the output is its frames and then the new boxes.
LEMMA SlideInPieces ==
  ASSUME NEW S, NEW n \in Nat, NEW m \in Nat, NEW frames \in [1 .. n -> S],
         NEW boxes \in [1 .. m -> S], NEW out, out = frames \o boxes
  PROVE  TwoPieces(out, frames, boxes, n, m)
<1>1. frames \in Seq(S) /\ boxes \in Seq(S)
  OBVIOUS
<1>2. Len(frames) = n /\ Len(boxes) = m
  OBVIOUS
<1>3. /\ Len(out) = n + m
      /\ \A i \in 1 .. n + m : out[i] = IF i <= n THEN frames[i] ELSE boxes[i - n]
  <2>1. /\ Len(frames \o boxes) = Len(frames) + Len(boxes)
        /\ \A i \in 1 .. Len(frames) + Len(boxes) :
             (frames \o boxes)[i] = IF i <= Len(frames) THEN frames[i] ELSE boxes[i - Len(frames)]
    BY ONLY ZenonT(40), <1>1, ConcatProperties
  <2> QED
    BY <1>2, <2>1
<1>4. DOMAIN out = 1 .. n + m
  <2>1. out \in Seq(S)
    BY <1>1
  <2> QED
    BY <1>3, <2>1
<1>5. ASSUME NEW i \in 1 .. n PROVE out[i] = frames[i]
  <2>1. i \in 1 .. n + m /\ i <= n
    OBVIOUS
  <2> QED
    BY <1>3, <2>1
<1>6. ASSUME NEW i \in 1 .. n + m, i \notin 1 .. n PROVE \E k \in 1 .. m : out[i] = boxes[k]
  <2>1. ~ (i <= n) /\ i - n \in 1 .. m
    BY <1>6
  <2> QED
    BY <1>3, <2>1
<1> QED
  BY <1>4, <1>5, <1>6 DEF TwoPieces

\* What RenderPptx makes of a slide: its frames come first.
LEMMA SlideRendered ==
  ASSUME Ready, NEW out, out = RenderPptx, NEW p \in DOMAIN file.parts
  PROVE  /\ \A i \in DOMAIN file.parts[p] :
              out[p][i] = IF SlideOf(p) = {} THEN Original(p, i)
                          ELSE IF Inserted(p, i) = {} THEN Cleared(p, i)
                          ELSE Shown(parsed[CHOOSE s \in Inserted(p, i) :
                                              \A r \in Inserted(p, i) : r <= s])
         /\ \A i \in DOMAIN out[p] : i \notin DOMAIN file.parts[p] =>
              \E s \in SlideOf(p) : out[p][i] = Shown(parsed[s])
<1>1. IsFile /\ parsed \in Seq(DocSegment)
  BY DEF Ready, IsParsed, ParsedWell
<1>2. PICK n \in Nat : n = Len(file.parts[p]) /\ DOMAIN file.parts[p] = 1 .. n
  BY <1>1, PartsItems
<1>3. CASE SlideOf(p) = {}
  <2>1. out[p] = [i \in DOMAIN file.parts[p] |-> Original(p, i)]
    BY <1>3 DEF RenderPptx
  <2> QED
    BY <1>3, <2>1
<1>4. CASE SlideOf(p) # {}
  <2> DEFINE Frame(i) == LET here == Inserted(p, i) IN
                         IF here = {} THEN Cleared(p, i)
                         ELSE Shown(parsed[CHOOSE s \in here : \A r \in here : r <= s])
             frames == [i \in DOMAIN file.parts[p] |-> Frame(i)]
             kept   == {s \in SlideOf(p) : NewBox(parsed[s])}
  <2>1. PICK boxed \in Seq(DocSegment) : boxed = Boxes(p) /\ \E g : Picks(boxed, parsed, kept, g)
    <3>1. Boxes(p) = Keeping(parsed, kept)
      BY DEF Boxes
    <3> HIDE DEF kept
    <3> QED
      BY <1>1, <3>1, KeepingPicks
  <2>2. PICK g : Picks(boxed, parsed, kept, g)
    BY <2>1
  <2>3. PICK m \in Nat : m = Len(boxed) /\ DOMAIN boxed = 1 .. m
    BY <2>1
  <2> DEFINE boxes == [k \in DOMAIN boxed |-> Shown(boxed[k])]
  <2>4. out[p] = frames \o boxes
    BY <1>4, <2>1 DEF RenderPptx
  <2>5. \A i \in 1 .. n : frames[i] = Frame(i)
    BY <1>2
  <2>6. ASSUME NEW k \in 1 .. m PROVE \E s \in SlideOf(p) : boxes[k] = Shown(parsed[s])
    <3>1. g[k] \in kept /\ boxed[k] = parsed[g[k]]
      BY <1>1, <2>2, <2>3 DEF Picks
    <3>2. g[k] \in SlideOf(p) /\ boxes[k] = Shown(parsed[g[k]])
      BY <2>3, <3>1
    <3> QED
      BY <3>2
  <2> DEFINE S == {Frame(i) : i \in 1 .. n} \cup {Shown(boxed[k]) : k \in 1 .. m}
  <2>7. frames \in [1 .. n -> S] /\ boxes \in [1 .. m -> S]
    <3> HIDE DEF Frame
    <3> QED
      BY <1>2, <2>3
  <2> HIDE DEF frames, boxes, kept, S
  <2>8. /\ DOMAIN out[p] = 1 .. n + m
        /\ \A i \in 1 .. n : out[p][i] = frames[i]
        /\ \A i \in 1 .. n + m : i \notin 1 .. n => \E k \in 1 .. m : out[p][i] = boxes[k]
    <3>1. PICK f, b, Items : f = frames /\ b = boxes /\ Items = S
      OBVIOUS
    <3>2. PICK slide : slide = out[p] /\ slide = f \o b
      BY <2>4, <3>1
    <3>3. f \in [1 .. n -> Items] /\ b \in [1 .. m -> Items]
      BY <2>7, <3>1
    <3>4. TwoPieces(slide, f, b, n, m)
      BY <3>2, <3>3, SlideInPieces
    <3> QED
      BY <3>1, <3>2, <3>4 DEF TwoPieces
  <2>9. \A i \in DOMAIN out[p] : i \notin DOMAIN file.parts[p] =>
          \E s \in SlideOf(p) : out[p][i] = Shown(parsed[s])
    BY <1>2, <2>6, <2>8
  <2>10. \A i \in DOMAIN file.parts[p] :
          out[p][i] = IF Inserted(p, i) = {} THEN Cleared(p, i)
                      ELSE Shown(parsed[CHOOSE s \in Inserted(p, i) :
                                          \A r \in Inserted(p, i) : r <= s])
    BY <1>2, <2>5, <2>8
  <2> QED
    BY <1>4, <2>9, <2>10
<1> QED
  BY <1>3, <1>4

\* What is shown on a slide is of that slide.
LEMMA TextsStay ==
  ASSUME Ready, file.format = "pptx", NEW out, out = RenderPptx, NEW p \in DOMAIN file.parts,
         NEW i \in DOMAIN out[p]
  PROVE  Stays(out[p][i], p)
<1>1. IsFile /\ parsed \in Seq(DocSegment) /\ OnlyFrames(parsed)
  BY DEF Ready, IsParsed, ParsedWell, FrameByFrame
<1>2. ASSUME NEW s \in SlideOf(p) PROVE Stays(Shown(parsed[s]), p)
  <2>1. s \in DOMAIN parsed /\ parsed[s].part = p
    BY DEF SlideOf
  <2>2. \A t \in DOMAIN parsed[s].texts : parsed[s].texts[t][1] = p
    BY <1>1, <2>1 DEF OnlyFrames
  <2>3. Shown(parsed[s]).texts = parsed[s].texts
    BY DEF Shown
  <2> QED
    BY <2>2, <2>3 DEF Stays
<1>3. ASSUME NEW j \in DOMAIN file.parts[p] PROVE Stays(Original(p, j), p)
  <2>1. PICK place : place = <<p, j>> /\ place[1] = p
    <3>1. <<p, j>>[1] = p
      OBVIOUS
    <3> QED
      BY <3>1, Zenon
  <2>2. place \in Place /\ place \in Places
    BY <1>1, <2>1, PartsItems
  <2>3. PICK texts : texts = OwnText(place)
    OBVIOUS
  <2>4. \A t \in DOMAIN texts : texts[t] = place
    BY <2>2, <2>3, OwnTextRight
  <2>5. Original(p, j).texts = texts
    BY <2>1, <2>3 DEF Original
  <2> QED
    BY <2>1, <2>4, <2>5 DEF Stays
<1>4. ASSUME NEW j \in DOMAIN file.parts[p] PROVE Stays(Cleared(p, j), p)
  <2>1. CASE Inside(<<p, j>>)
    BY <1>3, <2>1 DEF Cleared
  <2>2. CASE ~Inside(<<p, j>>)
    <3>1. Cleared(p, j).texts = <<>>
      BY <2>2 DEF Cleared
    <3>2. DOMAIN Cleared(p, j).texts = {}
      BY <3>1
    <3> QED
      BY <3>2 DEF Stays
  <2> QED
    BY <2>1, <2>2
<1>5. CASE i \notin DOMAIN file.parts[p]
  BY <1>2, <1>5, SlideRendered
<1>6. CASE i \in DOMAIN file.parts[p]
  <2> DEFINE here == Inserted(p, i)
             last == CHOOSE s \in here : \A r \in here : r <= s
  <2>1. out[p][i] = IF SlideOf(p) = {} THEN Original(p, i)
                    ELSE IF here = {} THEN Cleared(p, i) ELSE Shown(parsed[last])
    BY <1>6, SlideRendered
  <2>2. ASSUME here # {} PROVE last \in SlideOf(p)
    <3>1. Len(parsed) \in Nat /\ here \subseteq 1 .. Len(parsed) /\ here \subseteq SlideOf(p)
      BY <1>1 DEF Inserted, SlideOf
    <3>2. PICK m \in here : \A r \in here : r <= m
      <4> HIDE DEF here
      <4> QED
        BY <2>2, <3>1, GreatestNumber
    <3>3. last \in here
      BY <3>2
    <3> QED
      BY <3>1, <3>3
  <2> HIDE DEF here, last
  <2> QED
    BY <1>2, <1>3, <1>4, <1>6, <2>1, <2>2
<1> QED
  BY <1>5, <1>6

\* A frame outside groups and tables that shares its position with no other shape.
Alone(p, i) ==
  /\ file.parts[p][i].within = "none"
  /\ \A j \in DOMAIN file.parts[p] : j # i => file.parts[p][j].at # file.parts[p][i].at

\* Such a frame keeps its text: _insert_segment_text finds it, and no
\* other segment finds it too.
LEMMA FramesKeepTheirTexts ==
  ASSUME Ready, file.format = "pptx", ~config.merge, NEW out, out = RenderPptx,
         NEW p \in DOMAIN file.parts, NEW i \in DOMAIN file.parts[p], Alone(p, i)
  PROVE  ShowsOwn(out[p][i], <<p, i>>)
<1>1. IsFile /\ ParsedWell(parsed) /\ ~ParserRaises
  BY DEF Ready, IsParsed
<1>2. /\ parsed \in Seq(DocSegment) /\ HasTexts(parsed)
      /\ OnlyFrames(parsed) /\ EachFrame(parsed, p)
  BY <1>1 DEF ParsedWell, FrameByFrame
<1>3. /\ \A j \in DOMAIN file.parts[p] :
           /\ file.parts[p][j] \in Item /\ ItemAt(<<p, j>>) = file.parts[p][j] /\ j \in Nat
      /\ file.parts[p][i].at \in Nat /\ file.parts[p][i].at # 0
  <2>1. ASSUME NEW j \in DOMAIN file.parts[p]
        PROVE  file.parts[p][j] \in Item /\ ItemAt(<<p, j>>) = file.parts[p][j] /\ j \in Nat
    <3>1. file.parts[p][j] \in Item /\ ItemAt(<<p, j>>) = file.parts[p][j]
      BY <1>1, PartsItems
    <3>2. DOMAIN file.parts[p] = 1 .. Len(file.parts[p]) /\ Len(file.parts[p]) \in Nat
      BY <1>1, PartsItems
    <3> QED
      BY <3>1, <3>2
  <2>2. file.parts[p][i] \in Item
    BY <2>1
  <2> QED
    BY <2>1, <2>2 DEF Item
<1>4. ASSUME NEW s \in DOMAIN parsed, parsed[s].part = p
      PROVE  \E j \in DOMAIN file.parts[p] :
               parsed[s].texts = <<<<p, j>>>> /\ parsed[s].key = Position(<<p, j>>)
  BY <1>2, <1>4 DEF OnlyFrames, OfFrame
<1>b. ASSUME NEW j \in DOMAIN file.parts[p]
      PROVE  Inside(<<p, j>>) <=> file.parts[p][j].within # "none"
  BY <1>3 DEF Inside
<1>5. FramesAt(p, file.parts[p][i].at) = {i}
  BY <1>b DEF FramesAt, Alone
<1>6. ASSUME NEW s \in DOMAIN parsed, parsed[s].texts = <<<<p, i>>>>
      PROVE  s \in SlideOf(p) /\ s \in Inserted(p, i)
  <2>1. parsed[s].part = p
    <3>1. PICK place : place = <<p, i>> /\ place[1] = p
      <4>1. <<p, i>>[1] = p
        OBVIOUS
      <4> QED
        BY <4>1, Zenon
    <3>2. DOMAIN parsed[s].texts = {1} /\ parsed[s].texts[1] = place
      BY <1>6, <3>1, OneText
    <3> QED
      BY <1>2, <3>1, <3>2 DEF OnlyFrames
  <2>2. PICK j \in DOMAIN file.parts[p] :
          parsed[s].texts = <<<<p, j>>>> /\ parsed[s].key = Position(<<p, j>>)
    BY <1>4, <2>1
  <2>3. j = i
    BY <1>6, <2>2
  <2>4. parsed[s].key = file.parts[p][i].at
    BY <1>3, <1>b, <2>2, <2>3 DEF Position, Alone
  <2>5. ~NewBox(parsed[s])
    BY <1>3, <1>5, <2>1, <2>4 DEF NewBox
  <2>6. FrameOf(parsed[s]) = i
    <3>1. FramesAt(parsed[s].part, parsed[s].key) = {i}
      BY <1>5, <2>1, <2>4
    <3>2. i <= i
      <4>1. i \in Nat
        BY <1>3
      <4> QED
        BY <4>1
    <3> QED
      BY <3>1, <3>2 DEF FrameOf
  <2> QED
    BY <2>1, <2>5, <2>6 DEF SlideOf, Inserted
<1>7. ASSUME TextAt(<<p, i>>) # "none"
      PROVE  SlideOf(p) # {} /\ Inserted(p, i) # {}
  <2>1. Readable(<<p, i>>)
    BY <1>3, <1>7 DEF Readable, Hidden, Alone
  <2> QED
    BY <1>2, <1>6, <2>1 DEF EachFrame
<1>8. ASSUME NEW s \in Inserted(p, i) PROVE s \in DOMAIN parsed /\ parsed[s].texts = OwnText(<<p, i>>)
  <2>1. /\ s \in DOMAIN parsed /\ parsed[s].part = p /\ ~NewBox(parsed[s])
        /\ FrameOf(parsed[s]) = i
    BY DEF Inserted, SlideOf
  <2>2. PICK key : key = parsed[s].key /\ key # 0
    BY <2>1 DEF NewBox
  <2>3. i \in FramesAt(p, key)
    <3>1. PICK frames : frames = FramesAt(p, key)
      OBVIOUS
    <3>2. frames # {} /\ frames \subseteq Nat
      BY <1>3, <2>1, <2>2, <3>1 DEF NewBox, FramesAt
    <3>3. PICK least \in frames : \A j \in frames : least <= j
      BY <3>2, LeastNumber
    <3>4. (CHOOSE m \in frames : \A j \in frames : m <= j) \in frames
      BY <3>3
    <3>5. FrameOf(parsed[s]) = CHOOSE m \in frames : \A j \in frames : m <= j
      BY <2>1, <2>2, <3>1 DEF FrameOf
    <3> QED
      BY <2>1, <3>1, <3>4, <3>5
  <2>4. key = file.parts[p][i].at
    BY <2>3 DEF FramesAt
  <2>5. PICK j \in DOMAIN file.parts[p] :
          parsed[s].texts = <<<<p, j>>>> /\ key = Position(<<p, j>>)
    BY <1>4, <2>1, <2>2
  <2>6. j = i
    BY <1>3, <1>b, <2>2, <2>4, <2>5 DEF Position, Alone
  <2>7. TextAt(<<p, i>>) # "none"
    <3>1. PICK place : place = <<p, i>>
      OBVIOUS
    <3>2. DOMAIN parsed[s].texts = {1} /\ parsed[s].texts[1] = place
      BY <2>5, <2>6, <3>1, OneText
    <3> QED
      BY <1>2, <2>1, <3>1, <3>2 DEF HasTexts
  <2> QED
    BY <2>1, <2>5, <2>6, <2>7 DEF OwnText
<1> DEFINE here == Inserted(p, i)
           last == CHOOSE s \in here : \A r \in here : r <= s
<1>9. out[p][i] = IF SlideOf(p) = {} THEN Original(p, i)
                  ELSE IF here = {} THEN Cleared(p, i) ELSE Shown(parsed[last])
  BY SlideRendered
<1>10. here # {} => SlideOf(p) # {}
  BY DEF Inserted
<1>11. CASE here # {}
  <2>1. Len(parsed) \in Nat /\ here \subseteq 1 .. Len(parsed)
    BY <1>2 DEF Inserted, SlideOf
  <2>2. PICK m \in here : \A r \in here : r <= m
    <3> HIDE DEF here
    <3> QED
      BY <1>11, <2>1, GreatestNumber
  <2>3. last \in here
    BY <2>2
  <2>4. ShowsOwn(Shown(parsed[last]), <<p, i>>)
    <3>1. PICK s \in Inserted(p, i) : s = last
      BY <2>3
    <3> QED
      BY <1>8, <3>1, SegmentShowsOwn
  <2> QED
    BY <1>9, <1>10, <1>11, <2>4
<1>12. CASE here = {}
  <2>1. TextAt(<<p, i>>) = "none"
    BY <1>7, <1>12
  <2>2. CASE SlideOf(p) = {}
    BY <1>9, <2>1, <2>2, OriginalShowsOwn
  <2>3. CASE SlideOf(p) # {}
    <3>1. out[p][i] = [texts |-> <<>>, state |-> "source"]
      BY <1>9, <1>12, <1>b, <2>3 DEF Cleared, Alone
    <3> QED
      BY <2>1, <3>1 DEF ShowsOwn, OwnText
  <2> QED
    BY <2>2, <2>3
<1> QED
  BY <1>11, <1>12

-----------------------------------------------------------------------------
(* What a step of the document leaves alone *)

SameFile == file' = file /\ config' = config

\* The places, the parser's failure and the naming depend on the file and the configuration only.
LEMMA SamePlaces ==
  ASSUME SameFile
  PROVE  /\ Places' = Places
         /\ ParserRaises' <=> ParserRaises
         /\ NamedApart' <=> NamedApart
         /\ IsFile' <=> IsFile
<1>1. Places' = Places
  BY DEF SameFile, Places, Head0
<1>2. ASSUME NEW place
      PROVE  /\ (ItemAt(place))' = ItemAt(place) /\ (TextAt(place))' = TextAt(place)
             /\ (Hidden(place))' <=> Hidden(place)
             /\ (Inside(place))' <=> Inside(place)
  BY DEF SameFile, TextAt, ItemAt, Hidden, Inside, Head0
<1>3. ParserRaises' <=> ParserRaises
  <2>1. ASSUME NEW place PROVE (Title(place))' <=> Title(place)
    BY <1>2 DEF Title
  <2>2. file' = file
    BY DEF SameFile
  <2> QED
    BY <2>1, <2>2 DEF ParserRaises
<1>4. NamedApart' <=> NamedApart
  <2>1. InCells' = InCells
    BY <1>1, <1>2 DEF InCells
  <2>2. CellNameShared' <=> CellNameShared
    BY <1>2, <2>1 DEF CellNameShared
  <2> QED
    BY <2>2 DEF SameFile, NamedApart
<1>5. IsFile' <=> IsFile
  BY DEF SameFile, IsFile
<1> QED
  BY <1>1, <1>3, <1>4, <1>5

\* So does what a list of segments must hold ...
LEMMA SameCoverage ==
  ASSUME SameFile, NEW segs, parsed' = segs, Covers(segs)
  PROVE  Covers(parsed)'
<1>1. ASSUME NEW place, (Meant(place))' PROVE Meant(place)
  BY <1>1 DEF Meant, SameFile, TextAt, ItemAt, Hidden, Head0
<1>2. ASSUME NEW place, Held(segs, place)
      PROVE  /\ Holding(parsed', place) # {}
             /\ \E c \in [Holding(parsed', place) -> (ItemAt(place))'.grid] : IsInjective(c)
  <2>1. (ItemAt(place))'.grid = ItemAt(place).grid
    BY DEF ItemAt, SameFile, Head0
  <2> QED
    BY <1>2, <2>1 DEF Held
<1>3. ASSUME NEW place \in Places', (Meant(place))', ~ParserRaises'
      PROVE  (Held(parsed, place))'
  <2>1. Held(segs, place)
    BY <1>1, <1>3, SamePlaces DEF Covers
  <2> QED
    BY <1>2, <2>1 DEF Held
<1> QED
  BY <1>3 DEF Covers

\* ... and what a parse must give.
LEMMA StillParsedWell ==
  ASSUME SameFile, NEW segs, parsed' = segs, ParsedWell(segs)
  PROVE  (ParsedWell(parsed))'
<1>1. file' = file /\ config' = config
  BY DEF SameFile
<1>2. ASSUME NEW place
      PROVE  /\ (TextAt(place))' = TextAt(place) /\ (OwnText(place))' = OwnText(place)
             /\ (ItemAt(place))' = ItemAt(place) /\ (Position(place))' = Position(place)
             /\ (Readable(place))' <=> Readable(place)
  BY <1>1 DEF TextAt, ItemAt, OwnText, Position, Inside, Readable, Hidden, Head0
<1>3. (HasTexts(parsed))'
  <2>1. HasTexts(segs)
    BY DEF ParsedWell
  <2>2. \A place : (TextAt(place))' = TextAt(place)
    BY <1>2
  <2>3. ASSUME NEW s \in DOMAIN segs, NEW t \in DOMAIN segs[s].texts
        PROVE  (TextAt(segs[s].texts[t]))' # "none"
    BY <1>2, <2>1 DEF HasTexts
  <2>4. ASSUME NEW s \in DOMAIN segs
        PROVE  segs[s].texts # <<>> /\ Range(segs[s].texts) \subseteq Places'
    BY <2>1, SamePlaces DEF HasTexts
  <2> QED
    BY <2>3, <2>4 DEF HasTexts
<1>4. (NamedApart => Distinct(parsed))'
  BY SamePlaces DEF ParsedWell, Distinct
<1>5. (Covers(parsed))'
  BY SameCoverage DEF ParsedWell
<1>6. (file.format = "docx" /\ ~config.merge => Leading(parsed))'
  <2>1. ASSUME file.format = "docx", ~config.merge PROVE (Leading(parsed))'
    <3>1. Leading(segs)
      BY <2>1 DEF ParsedWell
    <3>2. \A p, i : (TextAt(<<p, i>>))' = TextAt(<<p, i>>) /\ (OwnText(<<p, i>>))' = OwnText(<<p, i>>)
      BY <1>2
    <3>3. \A p, i : (Wanted(p, i))' <=> Wanted(p, i)
      BY <1>1, <3>2 DEF Wanted
    <3>4. ASSUME NEW i \in DOMAIN file.parts[1], \A j \in 1 .. i : (Wanted(1, j))'
          PROVE  /\ \A s \in DOMAIN segs :
                      segs[s].type = "paragraph" /\ segs[s].key = i =>
                        segs[s].texts = (OwnText(<<1, i>>))'
                 /\ (TextAt(<<1, i>>))' # "none" =>
                      \E s \in DOMAIN segs : segs[s].type = "paragraph" /\ segs[s].key = i
      BY <3>1, <3>2, <3>3, <3>4 DEF Leading
    <3> QED
      BY <1>1, <3>4 DEF Leading
  <2> QED
    BY <1>1, <2>1
<1>7. (file.format = "xlsx" => CellByCell(parsed))'
  <2>1. ASSUME file.format = "xlsx" PROVE (CellByCell(parsed))'
    <3>1. CellByCell(segs)
      BY <2>1 DEF ParsedWell
    <3>2. \A p, i : (TextAt(<<p, i>>))' = TextAt(<<p, i>>)
      BY <1>2
    <3> QED
      BY <1>1, <3>1, <3>2 DEF CellByCell
  <2> QED
    BY <1>1, <2>1
<1>8. (file.format = "pptx" => FrameByFrame(parsed))'
  <2>1. ASSUME file.format = "pptx" PROVE (FrameByFrame(parsed))'
    <3>1. OnlyFrames(segs) /\ \A p \in DOMAIN file.parts : EachFrame(segs, p)
      BY <2>1 DEF ParsedWell, FrameByFrame
    <3>2. \A p, i : /\ (TextAt(<<p, i>>))' = TextAt(<<p, i>>)
                    /\ (Position(<<p, i>>))' = Position(<<p, i>>)
                    /\ (Readable(<<p, i>>))' <=> Readable(<<p, i>>)
      BY <1>2
    <3>3. ASSUME NEW s \in DOMAIN segs
          PROVE  /\ segs[s].part \in DOMAIN file.parts /\ (OfFrame(segs[s], segs[s].part))'
                 /\ \A t \in DOMAIN segs[s].texts : segs[s].texts[t][1] = segs[s].part
      <4>1. /\ segs[s].part \in DOMAIN file.parts /\ OfFrame(segs[s], segs[s].part)
            /\ \A t \in DOMAIN segs[s].texts : segs[s].texts[t][1] = segs[s].part
        BY <3>1 DEF OnlyFrames
      <4>2. (OfFrame(segs[s], segs[s].part))'
        BY <1>1, <3>2, <4>1 DEF OfFrame
      <4> QED
        BY <4>1, <4>2
    <3>4. (OnlyFrames(parsed))'
      BY <1>1, <3>3 DEF OnlyFrames, OfFrame
    <3>5. ASSUME NEW p \in DOMAIN file.parts PROVE (EachFrame(parsed, p))'
      BY <1>1, <3>1, <3>2 DEF EachFrame
    <3> QED
      BY <1>1, <3>4, <3>5 DEF FrameByFrame
  <2> QED
    BY <1>1, <2>1
<1>9. (file.format = "pdf" => OnlyPages(parsed))'
  <2>1. ASSUME file.format = "pdf" PROVE (OnlyPages(parsed))'
    <3>1. OnlyPages(segs)
      BY <2>1 DEF ParsedWell
    <3>2. ASSUME config.merge, NEW s \in DOMAIN segs,
                 NEW k \in DOMAIN segs[s].texts, NEW l \in DOMAIN segs[s].texts, k < l
          PROVE  (ItemAt(segs[s].texts[k]))'.at >= (ItemAt(segs[s].texts[l]))'.at
      <4>1. ItemAt(segs[s].texts[k]).at >= ItemAt(segs[s].texts[l]).at
        BY <3>1, <3>2 DEF OnlyPages, BottomUp
      <4>2. (ItemAt(segs[s].texts[k]))' = ItemAt(segs[s].texts[k])
        BY <1>2
      <4>3. (ItemAt(segs[s].texts[l]))' = ItemAt(segs[s].texts[l])
        BY <1>2
      <4> QED
        BY <4>1, <4>2, <4>3
    <3>3. ASSUME NEW s \in DOMAIN segs
          PROVE  /\ \A t \in DOMAIN segs[s].texts : segs[s].texts[t][1] = segs[s].key
                 /\ config.merge => \A k, l \in DOMAIN segs[s].texts :
                      k < l => (ItemAt(segs[s].texts[k]))'.at >= (ItemAt(segs[s].texts[l]))'.at
      <4>1. \A t \in DOMAIN segs[s].texts : segs[s].texts[t][1] = segs[s].key
        BY <3>1 DEF OnlyPages
      <4> QED
        BY <3>2, <4>1
    <3> QED
      BY <1>1, <3>3 DEF OnlyPages, BottomUp
  <2> QED
    BY <1>1, <2>1
<1>10. parsed' \in Seq(DocSegment)
  BY DEF ParsedWell
<1> QED
  BY <1>3, <1>4, <1>5, <1>6, <1>7, <1>8, <1>9, <1>10 DEF ParsedWell

-----------------------------------------------------------------------------
(* What the output shows *)

ShowsCells(out) ==
  \A p \in DOMAIN file.parts : \A i \in DOMAIN file.parts[p] : ShowsOwn(out[p][i], <<p, i>>)
ShowsParagraphs(out) ==
  \A i \in DOMAIN file.parts[1] :
    config.includeEmpty \/ (\A j \in 1 .. i : TextAt(<<1, j>>) # "none") =>
      ShowsOwn(out[1][i], <<1, i>>) \/ LeftAlone(out, i)
ShowsSlides(out) ==
  \A p \in DOMAIN file.parts :
    /\ \A i \in DOMAIN out[p] : Stays(out[p][i], p)
    /\ ~config.merge => \A i \in DOMAIN file.parts[p] :
                          Alone(p, i) => ShowsOwn(out[p][i], <<p, i>>)
ShowsPages(out) ==
  \A s \in DOMAIN out : \A k, l \in DOMAIN out[s] :
    /\ out[s][k].texts[1][1] = parsed[s].key
    /\ k < l => ItemAt(out[s][k].texts[1]).at <= ItemAt(out[s][l].texts[1]).at
Shows(out) ==
  /\ file.format = "xlsx" => ShowsCells(out)
  /\ file.format = "docx" /\ ~config.merge => ShowsParagraphs(out)
  /\ file.format = "pptx" => ShowsSlides(out)
  /\ file.format = "pdf" /\ config.merge => ShowsPages(out)

\* That is what the property says of a rendered document.
LEMMA ShownInPlace ==
  ASSUME phase = "rendered"
  PROVE  TextsKeepTheirPlaces <=> Shows(rendered)
<1>1. CellsInPlace <=> (file.format = "xlsx" => ShowsCells(rendered))
  BY DEF CellsInPlace, ShowsCells, ShowsOwn, Own
<1>2. ParagraphsInPlace <=> (file.format = "docx" /\ ~config.merge => ShowsParagraphs(rendered))
  BY DEF ParagraphsInPlace, ShowsParagraphs, ShowsOwn, Own, LeftAsWas, LeftAlone
<1>3. SlidesKeepTheirTexts <=> (file.format = "pptx" => ShowsSlides(rendered))
  BY DEF SlidesKeepTheirTexts, ShowsSlides, ShowsOwn, Own, Stays, Alone
<1>4. PagesReadTopDown <=> (file.format = "pdf" /\ config.merge => ShowsPages(rendered))
  BY DEF PagesReadTopDown, ShowsPages
<1> QED
  BY <1>1, <1>2, <1>3, <1>4 DEF TextsKeepTheirPlaces, Shows

\* There is nothing to say of a document that is not rendered.
LEMMA NotRendered ==
  ASSUME phase # "rendered"
  PROVE  TextsKeepTheirPlaces
BY DEF TextsKeepTheirPlaces, CellsInPlace, ParagraphsInPlace, SlidesKeepTheirTexts, PagesReadTopDown

\* A rendered document that is left alone goes on showing what it did.
LEMMA StillShows ==
  ASSUME SameFile, parsed' = parsed, NEW out, rendered' = out, Shows(out)
  PROVE  (Shows(rendered))'
<1>1. file' = file /\ config' = config
  BY DEF SameFile
<1>2. ASSUME NEW place
      PROVE  /\ (TextAt(place))' = TextAt(place) /\ (OwnText(place))' = OwnText(place)
             /\ (ItemAt(place))' = ItemAt(place)
  BY <1>1 DEF TextAt, ItemAt, OwnText, Head0
<1>a. ASSUME NEW i, LeftAlone(out, i) PROVE (LeftAlone(rendered, i))'
  <2>1. (Original(1, i))' = Original(1, i)
    BY <1>2 DEF Original
  <2>2. (OwnText(<<1, i>>))' = OwnText(<<1, i>>)
    BY <1>2
  <2> QED
    BY <1>a, <2>1, <2>2 DEF LeftAlone
<1>3. ASSUME NEW shown, NEW place, ShowsOwn(shown, place) PROVE (ShowsOwn(shown, place))'
  BY <1>2, <1>3 DEF ShowsOwn
<1>4. ASSUME file.format = "xlsx" PROVE (ShowsCells(rendered))'
  <2>1. \A p \in DOMAIN file.parts : \A i \in DOMAIN file.parts[p] : (ShowsOwn(out[p][i], <<p, i>>))'
    BY <1>3, <1>4 DEF Shows, ShowsCells
  <2> QED
    BY <1>1, <2>1 DEF ShowsCells, ShowsOwn
<1>5. ASSUME file.format = "docx", ~config.merge PROVE (ShowsParagraphs(rendered))'
  <2>1. \A j : (TextAt(<<1, j>>))' = TextAt(<<1, j>>)
    BY <1>2
  <2>2. ASSUME NEW i \in DOMAIN file.parts[1],
               config.includeEmpty \/ \A j \in 1 .. i : (TextAt(<<1, j>>))' # "none"
        PROVE  (ShowsOwn(out[1][i], <<1, i>>))' \/ (LeftAlone(rendered, i))'
    BY <1>3, <1>5, <1>a, <2>1, <2>2 DEF Shows, ShowsParagraphs
  <2> QED
    BY <1>1, <2>2 DEF ShowsParagraphs, ShowsOwn, LeftAlone
<1>6. ASSUME file.format = "pptx" PROVE (ShowsSlides(rendered))'
  <2>1. ASSUME NEW p \in DOMAIN file.parts
        PROVE  /\ \A i \in DOMAIN out[p] : Stays(out[p][i], p)
               /\ ~config.merge => \A i \in DOMAIN file.parts[p] :
                                     Alone(p, i) => (ShowsOwn(out[p][i], <<p, i>>))'
    BY <1>3, <1>6 DEF Shows, ShowsSlides
  <2>2. \A p, i : (Alone(p, i))' <=> Alone(p, i)
    BY <1>1 DEF Alone
  <2> QED
    BY <1>1, <2>1, <2>2 DEF ShowsSlides, ShowsOwn
<1>7. ASSUME file.format = "pdf", config.merge PROVE (ShowsPages(rendered))'
  <2>1. ShowsPages(out)
    BY <1>7 DEF Shows
  <2>2. ASSUME NEW s \in DOMAIN out, NEW k \in DOMAIN out[s], NEW l \in DOMAIN out[s]
        PROVE  /\ out[s][k].texts[1][1] = parsed[s].key
               /\ k < l => (ItemAt(out[s][k].texts[1]))'.at <= (ItemAt(out[s][l].texts[1]))'.at
    <3>1. (ItemAt(out[s][k].texts[1]))' = ItemAt(out[s][k].texts[1])
      BY <1>2
    <3>2. (ItemAt(out[s][l].texts[1]))' = ItemAt(out[s][l].texts[1])
      BY <1>2
    <3>3. /\ out[s][k].texts[1][1] = parsed[s].key
          /\ k < l => ItemAt(out[s][k].texts[1]).at <= ItemAt(out[s][l].texts[1]).at
      BY <2>1 DEF ShowsPages
    <3> QED
      BY <3>1, <3>2, <3>3
  <2> QED
    BY <2>2 DEF ShowsPages
<1> QED
  BY <1>1, <1>4, <1>5, <1>6, <1>7 DEF Shows

\* The four renderers, by format.
LEMMA RenderedShows ==
  ASSUME Ready, NEW out,
         out = CASE file.format = "docx" -> RenderDocx
                 [] file.format = "xlsx" -> RenderXlsx
                 [] file.format = "pptx" -> RenderPptx
                 [] file.format = "pdf"  -> RenderPdf
  PROVE  Shows(out)
<1>1. CASE file.format = "docx"
  <2>1. out = RenderDocx
    BY <1>1
  <2>2. ASSUME ~config.merge PROVE ShowsParagraphs(out)
    BY <1>1, <2>1, <2>2, DocxRendered DEF ShowsParagraphs
  <2> QED
    BY <1>1, <2>2 DEF Shows
<1>2. CASE file.format = "xlsx"
  <2>1. out = RenderXlsx
    BY <1>2
  <2>2. ShowsCells(out)
    BY <1>2, <2>1, XlsxRendered DEF ShowsCells
  <2> QED
    BY <1>2, <2>2 DEF Shows
<1>3. CASE file.format = "pptx"
  <2>1. out = RenderPptx
    BY <1>3
  <2>2. ASSUME NEW p \in DOMAIN file.parts
        PROVE  /\ \A i \in DOMAIN out[p] : Stays(out[p][i], p)
               /\ ~config.merge => \A i \in DOMAIN file.parts[p] :
                                     Alone(p, i) => ShowsOwn(out[p][i], <<p, i>>)
    BY <1>3, <2>1, TextsStay, FramesKeepTheirTexts
  <2> QED
    BY <1>3, <2>2 DEF Shows, ShowsSlides
<1>4. CASE file.format = "pdf"
  <2>1. out = RenderPdf
    BY <1>4
  <2>2. ASSUME config.merge PROVE ShowsPages(out)
    BY <1>4, <2>1, <2>2, PdfRendered DEF ShowsPages
  <2> QED
    BY <1>4, <2>2 DEF Shows
<1> QED
  BY <1>1, <1>2, <1>3, <1>4 DEF Ready, IsFile, Formats

\* What ShownInPlace and NotRendered say, of the state after a step.
LEMMA ShownInPlaceNext ==
  ASSUME phase' = "rendered" => (Shows(rendered))'
  PROVE  TextsKeepTheirPlaces'
<1>1. CASE phase' = "rendered"
  <2>1. CellsInPlace'
    BY <1>1 DEF Shows, CellsInPlace, ShowsCells, ShowsOwn, Own
  <2>2. ParagraphsInPlace'
    BY <1>1 DEF Shows, ParagraphsInPlace, ShowsParagraphs, ShowsOwn, Own, LeftAsWas, LeftAlone
  <2>3. SlidesKeepTheirTexts'
    BY <1>1 DEF Shows, SlidesKeepTheirTexts, ShowsSlides, ShowsOwn, Own, Stays, Alone
  <2>4. PagesReadTopDown'
    BY <1>1 DEF Shows, PagesReadTopDown, ShowsPages
  <2> QED
    BY <2>1, <2>2, <2>3, <2>4 DEF TextsKeepTheirPlaces
<1>2. CASE phase' # "rendered"
  BY <1>2 DEF TextsKeepTheirPlaces, CellsInPlace, ParagraphsInPlace, SlidesKeepTheirTexts,
              PagesReadTopDown
<1> QED
  BY <1>1, <1>2

-----------------------------------------------------------------------------
(* The invariant holds *)

\* It holds of a file that has come in, whatever file of its type it is.
LEMMA DocInvStarts ==
  ASSUME IsFile, DocumentStart
  PROVE  DocIInv
<1>1. phase = "file" /\ parsed = <<>> /\ todo = {} /\ DOMAIN parsed = {}
  BY DEF DocumentStart
<1>2. Unparsed
  BY <1>1 DEF Unparsed
<1>3. Pending
  BY <1>1 DEF Pending
<1>4. Handed
  BY <1>1 DEF Handed
<1>5. TextsKeepTheirPlaces
  BY <1>1, NotRendered
<1> QED
  BY <1>1, <1>2, <1>3, <1>4, <1>5 DEF DocIInv

\* Every file that may come is a file.
LEMMA FilesAreFiles ==
  ASSUME DocInit
  PROVE  IsFile
<1>1. file \in DocumentFiles /\ config \in ParserConfigs
  BY DEF DocInit
<1>2. /\ file.format \in Formats /\ file.parts \in Seq(Seq(Item)) /\ file.heads \in Seq(Item)
      /\ IF file.format = "docx" THEN file.parts # <<>> ELSE file.heads = <<>>
      /\ \A p \in DOMAIN file.parts : \A i \in DOMAIN file.parts[p] :
           file.parts[p][i].within = "table" =>
             file.format = "pptx" \/ (file.format = "docx" /\ p > 1)
  BY <1>1, DocumentAssumption
<1>3. config \in ParserConfig
  BY <1>1, DocumentAssumption
<1> QED
  BY <1>2, <1>3 DEF IsFile

\* Which segments need a translation depends on the file only.
LEMMA SameJapanese ==
  ASSUME SameFile, NEW seg
  PROVE  (NeedsTranslation(seg))' <=> NeedsTranslation(seg)
<1>1. ASSUME NEW place PROVE (TextAt(place))' = TextAt(place)
  BY DEF SameFile, TextAt, ItemAt, Head0
<1>2. \A t \in DOMAIN seg.texts : (TextAt(seg.texts[t]))' = TextAt(seg.texts[t])
  BY <1>1
<1> QED
  BY <1>2 DEF NeedsTranslation

\* Parse keeps the invariant.
LEMMA ParseKeeps ==
  ASSUME DocIInv, Parse
  PROVE  DocIInv'
<1>1. /\ SameFile /\ phase = "file" /\ phase' = "parsed" /\ ~ParserRaises
      /\ parsed' = ParsedSegments
      /\ todo' = {s \in DOMAIN parsed' : NeedsTranslation(parsed'[s])}
  BY DEF Parse, SameFile
<1>2. IsFile /\ IsFile' /\ ~ParserRaises'
  BY <1>1, SamePlaces DEF DocIInv
<1>3. PICK segs : segs = ParsedSegments
  OBVIOUS
<1>4. ParsedWell(segs) /\ \A s \in DOMAIN segs : segs[s].state = "source"
  BY <1>2, <1>3, ParsedSegmentsRight
<1>5. (ParsedWell(parsed))'
  BY <1>1, <1>3, <1>4, StillParsedWell
<1>6. IsParsed'
  BY <1>1, <1>2, <1>5 DEF IsParsed
<1>7. Pending'
  <2>1. \A s : (NeedsTranslation(segs[s]))' <=> NeedsTranslation(segs[s])
    BY <1>1, SameJapanese
  <2>2. parsed' = segs
    BY <1>1, <1>3
  <2>3. ASSUME NEW s \in DOMAIN segs
        PROVE  /\ segs[s].state = "source"
               /\ (NeedsTranslation(parsed[s]))' <=> NeedsTranslation(segs[s])
    BY <1>4, <2>1, <2>2 DEF NeedsTranslation
  <2> QED
    BY <1>1, <2>2, <2>3 DEF Pending
<1>8. Handed'
  BY <1>1 DEF Handed
<1>9. TextsKeepTheirPlaces'
  BY <1>1, ShownInPlaceNext
<1> QED
  BY <1>1, <1>2, <1>6, <1>7, <1>8, <1>9 DEF DocIInv

\* A step that leaves the segments alone leaves them well parsed ...
LEMMA ParsedStays ==
  ASSUME SameFile, parsed' = parsed, ParsedWell(parsed)
  PROVE  (ParsedWell(parsed))'
<1>1. PICK segs : segs = parsed
  OBVIOUS
<1> QED
  BY <1>1, StillParsedWell

\* ... and pending as they were.
LEMMA PendingStays ==
  ASSUME SameFile, parsed' = parsed, todo' = todo, Pending
  PROVE  Pending'
<1>1. \A s : (NeedsTranslation(parsed[s]))' <=> NeedsTranslation(parsed[s])
  <2>1. ASSUME NEW s PROVE (NeedsTranslation(parsed[s]))' <=> NeedsTranslation(parsed[s])
    <3>1. PICK seg : seg = parsed[s]
      OBVIOUS
    <3>2. (NeedsTranslation(seg))' <=> NeedsTranslation(seg)
      BY SameJapanese
    <3> QED
      BY <3>1, <3>2 DEF NeedsTranslation
  <2> QED
    BY <2>1
<1> QED
  BY <1>1 DEF Pending

\* A parser that raises keeps it: the presentation has no segments, and is expected to have none.
LEMMA ParseFailsKeeps ==
  ASSUME DocIInv, ParseFails
  PROVE  DocIInv'
<1>1. /\ SameFile /\ phase = "file" /\ phase' = "failed" /\ ParserRaises
      /\ parsed' = parsed /\ todo' = todo
  BY DEF ParseFails, SameFile
<1>2. IsFile' /\ ParserRaises'
  BY <1>1, SamePlaces DEF DocIInv
<1>3. Unparsed /\ Pending
  BY <1>1 DEF DocIInv, IsParsed
<1>4. Unparsed'
  BY <1>1, <1>2, <1>3 DEF Unparsed
<1>5. Pending'
  BY <1>1, <1>3, PendingStays
<1>6. Handed'
  BY <1>1 DEF Handed
<1>7. TextsKeepTheirPlaces'
  BY <1>1, ShownInPlaceNext
<1> QED
  BY <1>1, <1>2, <1>4, <1>5, <1>6, <1>7 DEF DocIInv

\* Handing the segments to a job keeps it.
LEMMA ExtractKeeps ==
  ASSUME DocIInv, Extract
  PROVE  DocIInv'
<1>1. /\ SameFile /\ phase \in {"parsed", "failed"} /\ phase' = "queued"
      /\ parsed' = parsed /\ todo' = todo
      /\ queued' = IF file.format = "xlsx" THEN Keeping(parsed, Numbers) ELSE parsed
  BY DEF Extract, SameFile, Numbers
<1>2. IsFile' /\ (ParserRaises' <=> ParserRaises) /\ Pending /\ file' = file
  BY <1>1, SamePlaces DEF DocIInv, SameFile
<1>3. Unparsed' \/ IsParsed'
  <2>1. CASE Unparsed
    BY <1>1, <1>2, <2>1 DEF Unparsed
  <2>2. CASE IsParsed
    <3>1. (ParsedWell(parsed))'
      BY <1>1, <2>2, ParsedStays DEF IsParsed
    <3> QED
      BY <1>1, <1>2, <2>2, <3>1 DEF IsParsed
  <2> QED
    BY <2>1, <2>2 DEF DocIInv
<1>4. Pending'
  BY <1>1, <1>2, PendingStays
<1>5. Handed'
  <2>1. Numbers' = Numbers
    BY <1>1, <1>2 DEF Numbers, TextAt, ItemAt, Head0
  <2> QED
    BY <1>1, <1>2, <2>1 DEF Handed
<1>6. TextsKeepTheirPlaces'
  BY <1>1, ShownInPlaceNext
<1> QED
  BY <1>1, <1>2, <1>3, <1>4, <1>5, <1>6 DEF DocIInv

\* Translating a segment keeps it: only the state of one segment changes, and it leaves the list
\* of those still to do.
LEMMA TranslateSegmentKeeps ==
  ASSUME DocIInv, NEW s \in DOMAIN parsed, NEW outcome \in {"translated", "empty", "error"},
         TranslateSegment(s, outcome)
  PROVE  DocIInv'
<1>1. /\ SameFile /\ phase = "parsed" /\ phase' = phase /\ s \in todo
      /\ parsed' = [parsed EXCEPT ![s].state = outcome]
      /\ todo' = todo \ {s}
  BY DEF TranslateSegment, SameFile
<1>2. IsFile /\ IsFile' /\ (ParserRaises' <=> ParserRaises) /\ Pending
  BY <1>1, SamePlaces DEF DocIInv
<1>3. IsParsed /\ ParsedWell(parsed) /\ parsed \in Seq(DocSegment)
  BY <1>1 DEF DocIInv, Unparsed, IsParsed, ParsedWell
<1>4. PICK made \in Seq(DocSegment) : made = parsed
  BY <1>3
<1>5. PICK segs : segs = [made EXCEPT ![s].state = outcome] /\ segs = parsed'
  BY <1>1, <1>4
<1>6. PICK n \in Nat : DOMAIN made = 1 .. n /\ made \in [1 .. n -> DocSegment]
  <2>1. Len(made) \in Nat /\ DOMAIN made = 1 .. Len(made) /\ made \in [1 .. Len(made) -> DocSegment]
    BY <1>4
  <2> QED
    BY <2>1
<1>7. PICK seg : seg = [made[s] EXCEPT !.state = outcome]
  OBVIOUS
<1>8. /\ seg \in DocSegment /\ seg.id = made[s].id /\ seg.type = made[s].type
      /\ seg.part = made[s].part /\ seg.key = made[s].key /\ seg.texts = made[s].texts
      /\ seg.state = outcome
  <2>1. made[s] \in DocSegment
    BY <1>4, <1>6
  <2> QED
    BY <1>7, <2>1 DEF DocSegment
<1>9. /\ DOMAIN segs = 1 .. n /\ segs[s] = seg /\ s \in 1 .. n
      /\ \A r \in 1 .. n : r # s => segs[r] = made[r]
  BY <1>4, <1>5, <1>6, <1>7
<1>10. segs \in Seq(DocSegment)
  <2>1. segs \in [1 .. n -> DocSegment]
    BY <1>5, <1>6, <1>7, <1>8, <1>9
  <2> QED
    BY <2>1
<1>11. SameTexts(segs, made)
  <2>1. ASSUME NEW r \in 1 .. n
        PROVE  /\ segs[r].id = made[r].id /\ segs[r].type = made[r].type
               /\ segs[r].part = made[r].part /\ segs[r].key = made[r].key
               /\ segs[r].texts = made[r].texts
    BY <1>8, <1>9
  <2> QED
    BY <1>6, <1>9, <1>10, <2>1 DEF SameTexts
<1>12. (ParsedWell(parsed))'
  <2>1. ParsedWell(made)
    BY <1>3, <1>4
  <2>2. ParsedWell(segs)
    BY <1>2, <1>11, <2>1, TranslatedWell
  <2> QED
    BY <1>1, <1>5, <2>2, StillParsedWell
<1>13. IsParsed'
  BY <1>1, <1>2, <1>3, <1>12 DEF IsParsed
<1>14. Pending'
  <2>1. ASSUME NEW r \in 1 .. n
        PROVE  (NeedsTranslation(parsed[r]))' <=> NeedsTranslation(made[r])
    <3>1. PICK old, new : old = made[r] /\ new = segs[r] /\ old.texts = new.texts
      BY <1>8, <1>9
    <3>2. NeedsTranslation(old) <=> NeedsTranslation(new)
      BY <3>1 DEF NeedsTranslation
    <3>3. (NeedsTranslation(new))' <=> NeedsTranslation(new)
      BY <1>1, SameJapanese
    <3> QED
      BY <1>5, <3>1, <3>2, <3>3 DEF NeedsTranslation
  <2>2. todo = {r \in 1 .. n : made[r].state = "source" /\ NeedsTranslation(made[r])}
    BY <1>2, <1>4, <1>6 DEF Pending
  <2>3. todo' = {r \in 1 .. n : segs[r].state = "source" /\ (NeedsTranslation(parsed[r]))'}
    BY <1>1, <1>8, <1>9, <2>1, <2>2
  <2>4. ASSUME NEW r \in 1 .. n, segs[r].state # "source" PROVE (NeedsTranslation(parsed[r]))'
    <3>1. CASE r = s
      BY <1>1, <2>1, <2>2, <3>1
    <3>2. CASE r # s
      <4>1. made[r].state # "source" => NeedsTranslation(made[r])
        BY <1>2, <1>4, <1>6 DEF Pending
      <4>2. segs[r] = made[r]
        BY <1>9, <3>2
      <4> QED
        BY <2>1, <2>4, <4>1, <4>2
    <3> QED
      BY <3>1, <3>2
  <2> QED
    BY <1>5, <1>9, <2>3, <2>4 DEF Pending
<1>15. Handed'
  BY <1>1 DEF Handed
<1>16. TextsKeepTheirPlaces'
  BY <1>1, ShownInPlaceNext
<1> QED
  BY <1>1, <1>2, <1>13, <1>14, <1>15, <1>16 DEF DocIInv

\* Rendering keeps it.
LEMMA RenderKeeps ==
  ASSUME DocIInv, Render
  PROVE  DocIInv'
<1>1. /\ SameFile /\ phase = "parsed" /\ phase' = "rendered" /\ todo = {}
      /\ parsed' = parsed /\ todo' = todo
      /\ rendered' = CASE file.format = "docx" -> RenderDocx
                       [] file.format = "xlsx" -> RenderXlsx
                       [] file.format = "pptx" -> RenderPptx
                       [] file.format = "pdf"  -> RenderPdf
  BY DEF Render, SameFile
<1>2. IsFile /\ IsFile' /\ (ParserRaises' <=> ParserRaises) /\ Pending
  BY <1>1, SamePlaces DEF DocIInv
<1>3. IsParsed
  BY <1>1 DEF DocIInv, Unparsed
<1>4. IsParsed'
  <2>1. (ParsedWell(parsed))'
    BY <1>1, <1>3, ParsedStays DEF IsParsed
  <2> QED
    BY <1>1, <1>2, <1>3, <2>1 DEF IsParsed
<1>5. Pending'
  BY <1>1, <1>2, PendingStays
<1>6. Handed'
  BY <1>1 DEF Handed
<1>7. TextsKeepTheirPlaces'
  <2>1. Ready
    BY <1>1, <1>2, <1>3 DEF Ready
  <2>2. PICK out : out = rendered'
    OBVIOUS
  <2>3. Shows(out)
    BY <1>1, <2>1, <2>2, RenderedShows
  <2>4. (Shows(rendered))'
    BY <1>1, <2>2, <2>3, StillShows
  <2> QED
    BY <2>4, ShownInPlaceNext
<1> QED
  BY <1>1, <1>2, <1>4, <1>5, <1>6, <1>7 DEF DocIInv

\* A step elsewhere keeps it.
LEMMA RestKeeps ==
  ASSUME DocIInv, UNCHANGED docVars
  PROVE  DocIInv'
<1>1. /\ SameFile /\ phase' = phase /\ parsed' = parsed /\ todo' = todo
      /\ queued' = queued /\ rendered' = rendered /\ file' = file
  BY DEF docVars, SameFile
<1>2. IsFile' /\ (ParserRaises' <=> ParserRaises) /\ Pending /\ Handed
  BY <1>1, SamePlaces DEF DocIInv
<1>3. Unparsed' \/ IsParsed'
  <2>1. CASE Unparsed
    BY <1>1, <1>2, <2>1 DEF Unparsed
  <2>2. CASE IsParsed
    <3>1. (ParsedWell(parsed))'
      BY <1>1, <2>2, ParsedStays DEF IsParsed
    <3> QED
      BY <1>1, <1>2, <2>2, <3>1 DEF IsParsed
  <2> QED
    BY <2>1, <2>2 DEF DocIInv
<1>4. Pending'
  BY <1>1, <1>2, PendingStays
<1>5. Handed'
  <2>1. Numbers' = Numbers
    BY <1>1, <1>2 DEF Numbers, TextAt, ItemAt, Head0
  <2> QED
    BY <1>1, <1>2, <2>1 DEF Handed
<1>6. TextsKeepTheirPlaces'
  <2>1. ASSUME phase' = "rendered" PROVE (Shows(rendered))'
    <3>1. Shows(rendered)
      BY <1>1, <2>1, ShownInPlace DEF DocIInv
    <3>2. PICK out : out = rendered
      OBVIOUS
    <3> QED
      BY <1>1, <3>1, <3>2, StillShows
  <2> QED
    BY <2>1, ShownInPlaceNext
<1> QED
  BY <1>1, <1>2, <1>3, <1>4, <1>5, <1>6 DEF DocIInv

\* One case for each action.
LEMMA DocNextKeeps ==
  ASSUME DocIInv, [DocNext]_docVars
  PROVE  DocIInv'
<1>1. CASE Parse
  BY <1>1, ParseKeeps
<1>2. CASE ParseFails
  BY <1>2, ParseFailsKeeps
<1>3. CASE Extract
  BY <1>3, ExtractKeeps
<1>4. CASE Render
  BY <1>4, RenderKeeps
<1>5. ASSUME NEW s \in DOMAIN parsed, NEW outcome \in {"translated", "empty", "error"},
             TranslateSegment(s, outcome)
      PROVE  DocIInv'
  BY <1>5, TranslateSegmentKeeps
<1>6. CASE UNCHANGED docVars
  BY <1>6, RestKeeps
<1> QED
  BY <1>1, <1>2, <1>3, <1>4, <1>5, <1>6 DEF DocNext

\* The invariant holds throughout.
THEOREM DocumentsHold == DocSpec => []DocIInv
<1>1. DocInit => DocIInv
  BY DocInvStarts, FilesAreFiles DEF DocInit
<1>2. DocIInv /\ [DocNext]_docVars => DocIInv'
  BY DocNextKeeps
<1> QED
  BY <1>1, <1>2, PTL DEF DocSpec

\* DocTypeOK for any file: a segment has texts, never that of an empty item, and only a segment
\* with Japanese is translated.
THEOREM DocumentsTyped == DocSpec => []DocTypeOK
<1>1. DocIInv => DocTypeOK
  BY InvTypes
<1> QED
  BY <1>1, DocumentsHold, PTL

\* TextsSegmented for any file: no Japanese text that the parsers look at is overlooked (in
\* any paragraph of a cell, unless the presentation is lost for want of a short title) or in more
\* segments than its cell has positions, and the segments of a document can be told from one
\* another, unless paragraphs of merged tables share the name of a cell.
THEOREM AllTextsSegmented == DocSpec => []TextsSegmented
<1>1. DocIInv => TextsSegmented
  BY InvSegmented
<1> QED
  BY <1>1, DocumentsHold, PTL

\* TextsKeepTheirPlaces for any file: what the renderers count and what the parsers counted agree,
\* as far as the property says they do.
THEOREM AllTextsInPlace == DocSpec => []TextsKeepTheirPlaces
<1>1. DocIInv => TextsKeepTheirPlaces
  BY DEF DocIInv
<1> QED
  BY <1>1, DocumentsHold, PTL

-----------------------------------------------------------------------------
(* The glossary: merging files *)

\* no two terms of one source
Apart(terms) == \A i, j \in DOMAIN terms : terms[i].source = terms[j].source => i = j

\* l is the last place of a term with that source
LastAt(terms, source, l) ==
  /\ l \in DOMAIN terms /\ terms[l].source = source /\ LastOf(terms, source) = terms[l]
  /\ \A j \in DOMAIN terms : terms[j].source = source => j <= l

\* The last term of a source that the list has.
LEMMA LastOfRight ==
  ASSUME NEW S, NEW terms \in Seq(S), NEW source, NEW i \in DOMAIN terms, terms[i].source = source
  PROVE  \E l : LastAt(terms, source, l)
<1>1. PICK n \in Nat : n = Len(terms) /\ DOMAIN terms = 1 .. n
  OBVIOUS
<1>2. PICK found : found = IndexOf(terms, source)
  OBVIOUS
<1>3. found \subseteq 1 .. n /\ found # {}
  BY <1>1, <1>2 DEF IndexOf
<1>4. PICK l \in found : \A j \in found : j <= l
  BY <1>1, <1>3, GreatestNumber
<1>5. PICK c \in found : c = CHOOSE k \in found : \A j \in found : j <= k
  BY <1>4
<1>6. \A j \in found : j <= c
  BY <1>4, <1>5
<1>7. LastOf(terms, source) = terms[c]
  BY <1>2, <1>5 DEF LastOf
<1>8. LastAt(terms, source, c)
  BY <1>1, <1>2, <1>3, <1>6, <1>7 DEF IndexOf, LastAt
<1> QED
  BY <1>8

\* The place of the last term of a source is the only such place.
LEMMA LastAtOnce ==
  ASSUME NEW S, NEW terms \in Seq(S), NEW source, NEW l, LastAt(terms, source, l),
         NEW i \in DOMAIN terms, terms[i].source = source,
         \A j \in DOMAIN terms : terms[j].source = source => j <= i
  PROVE  LastOf(terms, source) = terms[i]
<1>1. PICK n \in Nat : n = Len(terms) /\ DOMAIN terms = 1 .. n
  OBVIOUS
<1>2. l \in 1 .. n /\ i \in 1 .. n /\ i <= l /\ l <= i
  BY <1>1 DEF LastAt
<1> QED
  BY <1>2 DEF LastAt

\* Each source of a list has one term in the merged one, its last.
MergedOf(out, all) ==
  /\ Apart(out)
  /\ \A k \in DOMAIN out : out[k] = LastOf(all, out[k].source) /\ \E i \in DOMAIN all : out[k] = all[i]
  /\ \A i \in DOMAIN all : \E k \in DOMAIN out : out[k].source = all[i].source

LEMMA MergedRight ==
  ASSUME NEW S, NEW terms \in Seq(S), NEW more \in Seq(S), NEW all, all = terms \o more,
         NEW out, out = Merged(terms, more)
  PROVE  out \in Seq(S) /\ MergedOf(out, all)
<1>1. all \in Seq(S)
  OBVIOUS
<1>2. PICK n \in Nat : n = Len(all) /\ DOMAIN all = 1 .. n
  BY <1>1
<1>3. PICK firsts : firsts = Firsts(all)
  OBVIOUS
<1>4. PICK first \in Seq(S) : first = Keeping(all, firsts) /\ \E g : Picks(first, all, firsts, g)
  BY <1>1, KeepingPicks
<1>5. PICK g : Picks(first, all, firsts, g)
  BY <1>4
<1>6. PICK m \in Nat : m = Len(first) /\ DOMAIN first = 1 .. m
  BY <1>4
<1>7. /\ \A k \in 1 .. m : g[k] \in 1 .. n /\ g[k] \in firsts /\ first[k] = all[g[k]]
      /\ \A k, l \in 1 .. m : k < l => g[k] < g[l]
      /\ \A i \in 1 .. n : i \in firsts => \E k \in 1 .. m : g[k] = i
  BY <1>2, <1>5, <1>6 DEF Picks
<1>8. out = [k \in 1 .. m |-> LastOf(all, first[k].source)]
  BY <1>3, <1>4, <1>6 DEF Merged
<1>9. ASSUME NEW k \in 1 .. m
      PROVE  /\ out[k].source = all[g[k]].source /\ out[k] = LastOf(all, out[k].source)
             /\ \E i \in DOMAIN all : out[k] = all[i]
             /\ out[k] \in S
  <2>1. g[k] \in DOMAIN all /\ first[k].source = all[g[k]].source
    BY <1>2, <1>7
  <2>2. PICK source : source = first[k].source
    OBVIOUS
  <2>3. all[g[k]].source = source
    BY <2>1, <2>2
  <2>4. PICK l : LastAt(all, source, l)
    BY <1>1, <2>1, <2>3, LastOfRight
  <2>5. l \in DOMAIN all /\ all[l].source = source /\ LastOf(all, source) = all[l]
    BY <2>4 DEF LastAt
  <2>6. out[k] = all[l]
    BY <1>8, <2>2, <2>5
  <2>7. all[l] \in S
    BY <1>1, <2>5
  <2> QED
    BY <2>3, <2>5, <2>6, <2>7
<1>10. out \in Seq(S) /\ DOMAIN out = 1 .. m
  <2>1. out \in [1 .. m -> S]
    BY <1>8, <1>9
  <2> QED
    BY <2>1
<1>11. ASSUME NEW k \in 1 .. m, NEW l \in 1 .. m, k < l, out[k].source = out[l].source PROVE FALSE
  <2>1. g[k] \in 1 .. n /\ g[l] \in 1 .. n /\ g[k] < g[l] /\ g[l] \in firsts
    BY <1>7, <1>11
  <2>2. all[g[k]].source = out[k].source /\ all[g[l]].source = out[l].source
    BY <1>9
  <2>3. g[k] \in 1 .. g[l] - 1
    BY <2>1
  <2>4. all[g[k]].source # all[g[l]].source
    BY <1>3, <2>1, <2>3 DEF Firsts
  <2> QED
    BY <1>11, <2>2, <2>4
<1>12. Apart(out)
  <2>1. ASSUME NEW k \in 1 .. m, NEW l \in 1 .. m, out[k].source = out[l].source PROVE k = l
    <3>1. ~ (k < l) /\ ~ (l < k)
      BY <1>11, <2>1
    <3> QED
      BY <3>1
  <2> QED
    BY <1>10, <2>1 DEF Apart
<1>13. ASSUME NEW i \in 1 .. n PROVE \E k \in 1 .. m : out[k].source = all[i].source
  <2>1. PICK same : same = {j \in 1 .. n : all[j].source = all[i].source}
    OBVIOUS
  <2>2. same \subseteq 1 .. n /\ i \in same
    BY <2>1
  <2>3. same \subseteq Nat /\ same # {}
    BY <2>2
  <2>4. PICK j \in same : \A l \in same : j <= l
    BY <2>3, LeastNumber
  <2>5. j \in 1 .. n /\ all[j].source = all[i].source
    BY <2>1
  <2>6. ASSUME NEW l \in 1 .. j - 1 PROVE all[l].source # all[j].source
    <3>1. l \in 1 .. n /\ ~ (j <= l)
      BY <2>5
    <3>2. l \notin same
      BY <2>4, <3>1
    <3> QED
      BY <2>1, <2>5, <3>1, <3>2
  <2>7. j \in firsts
    BY <1>2, <1>3, <2>5, <2>6 DEF Firsts
  <2>8. PICK k \in 1 .. m : g[k] = j
    BY <1>7, <2>5, <2>7
  <2>9. out[k].source = all[j].source
    BY <1>9, <2>8
  <2> QED
    BY <2>5, <2>9
<1>14. MergedOf(out, all)
  <2>1. \A k \in DOMAIN out : out[k] = LastOf(all, out[k].source) /\ \E i \in DOMAIN all : out[k] = all[i]
    BY <1>9, <1>10
  <2>2. \A i \in DOMAIN all : \E k \in DOMAIN out : out[k].source = all[i].source
    BY <1>2, <1>10, <1>13
  <2> QED
    BY Zenon, <1>12, <2>1, <2>2 DEF MergedOf
<1> QED
  BY <1>10, <1>14

\* A merged list has the last term of each source the file has, and the old terms of the
\* sources it lacks.
Updated(out, terms, more) ==
  /\ Apart(out) /\ Range(out) \subseteq Range(terms) \cup Range(more)
  /\ \A i \in DOMAIN terms : \E k \in DOMAIN out :
       /\ out[k].source = terms[i].source
       /\ (\A j \in DOMAIN more : more[j].source # terms[i].source) => out[k] = terms[i]
  /\ \A j \in DOMAIN more : \E k \in DOMAIN out :
       out[k].source = more[j].source /\ out[k] = LastOf(more, more[j].source)

LEMMA MergedUpdates ==
  ASSUME NEW S, NEW terms \in Seq(S), Apart(terms), NEW more \in Seq(S)
  PROVE  Merged(terms, more) \in Seq(S) /\ Updated(Merged(terms, more), terms, more)
<1>1. PICK out, all : out = Merged(terms, more) /\ all = terms \o more
  OBVIOUS
<1>2. out \in Seq(S) /\ MergedOf(out, all)
  BY <1>1, MergedRight
<1>3. PICK a \in Nat, b \in Nat : a = Len(terms) /\ b = Len(more) /\ DOMAIN terms = 1 .. a /\ DOMAIN more = 1 .. b
  OBVIOUS
<1>4. all \in Seq(S) /\ Len(all) = a + b /\ DOMAIN all = 1 .. a + b
  BY <1>1, <1>3
<1>5. \A i \in 1 .. a : i \in DOMAIN all /\ all[i] = terms[i]
  BY <1>1, <1>3, <1>4
<1>6. \A j \in 1 .. b : a + j \in DOMAIN all /\ all[a + j] = more[j]
  BY <1>1, <1>3, <1>4
<1>7. \A i \in DOMAIN all : i \in 1 .. a \/ \E j \in 1 .. b : i = a + j
  <2>1. ASSUME NEW i \in 1 .. a + b, i \notin 1 .. a PROVE i - a \in 1 .. b /\ i = a + (i - a)
    BY <2>1
  <2> QED
    BY <1>4, <2>1
<1>8. /\ Apart(out)
      /\ \A k \in DOMAIN out : out[k] = LastOf(all, out[k].source) /\ \E i \in DOMAIN all : out[k] = all[i]
      /\ \A i \in DOMAIN all : \E k \in DOMAIN out : out[k].source = all[i].source
  BY <1>2 DEF MergedOf
<1>9. Range(out) \subseteq Range(terms) \cup Range(more)
  <2>1. ASSUME NEW k \in DOMAIN out PROVE out[k] \in Range(terms) \cup Range(more)
    <3>1. PICK i \in DOMAIN all : out[k] = all[i]
      BY <1>8
    <3>2. CASE i \in 1 .. a
      BY <1>3, <1>5, <3>1, <3>2 DEF Range
    <3>3. ASSUME NEW j \in 1 .. b, i = a + j PROVE out[k] \in Range(more)
      BY <1>3, <1>6, <3>1, <3>3 DEF Range
    <3> QED
      BY <1>7, <3>2, <3>3
  <2> QED
    BY <2>1 DEF Range
<1>10. ASSUME NEW i \in DOMAIN terms
       PROVE  \E k \in DOMAIN out :
                /\ out[k].source = terms[i].source
                /\ (\A j \in DOMAIN more : more[j].source # terms[i].source) => out[k] = terms[i]
  <2>1. i \in DOMAIN all /\ all[i] = terms[i]
    BY <1>3, <1>5
  <2>2. PICK k \in DOMAIN out : out[k].source = all[i].source
    BY <1>8, <2>1
  <2>3. ASSUME \A j \in DOMAIN more : more[j].source # terms[i].source PROVE out[k] = terms[i]
    <3>1. PICK source : source = terms[i].source
      OBVIOUS
    <3>2. all[i].source = source
      BY <2>1, <3>1
    <3>3. PICK l : LastAt(all, source, l)
      BY <1>4, <2>1, <3>2, LastOfRight
    <3>4. l \in DOMAIN all /\ all[l].source = source /\ LastOf(all, source) = all[l]
      BY <3>3 DEF LastAt
    <3>5. ASSUME NEW j \in 1 .. b, l = a + j PROVE FALSE
      BY <1>3, <1>6, <2>3, <3>1, <3>4, <3>5
    <3>6. l \in 1 .. a
      BY <1>7, <3>4, <3>5
    <3>7. l \in DOMAIN terms /\ terms[l].source = terms[i].source
      BY <1>3, <1>5, <3>1, <3>4, <3>6
    <3>8. l = i
      BY <3>7 DEF Apart
    <3>9. out[k] = LastOf(all, source)
      BY <1>8, <2>2, <3>2
    <3> QED
      BY <2>1, <3>4, <3>8, <3>9
  <2> QED
    BY <2>1, <2>2, <2>3
<1>11. ASSUME NEW j \in DOMAIN more
       PROVE  \E k \in DOMAIN out : out[k].source = more[j].source /\ out[k] = LastOf(more, more[j].source)
  <2>1. a + j \in DOMAIN all /\ all[a + j] = more[j]
    BY <1>3, <1>6
  <2>2. PICK k \in DOMAIN out : out[k].source = all[a + j].source
    BY <1>8, <2>1
  <2>3. PICK source : source = more[j].source
    OBVIOUS
  <2>4. PICK l : LastAt(more, source, l)
    BY <2>3, LastOfRight
  <2>5. /\ l \in DOMAIN more /\ more[l].source = source /\ LastOf(more, source) = more[l]
        /\ \A r \in DOMAIN more : more[r].source = source => r <= l
    BY <2>4 DEF LastAt
  <2>6. a + l \in DOMAIN all /\ all[a + l] = more[l] /\ l \in 1 .. b
    BY <1>3, <1>6, <2>5
  <2>7. ASSUME NEW r \in DOMAIN all, all[r].source = source PROVE r <= a + l
    <3>1. CASE r \in 1 .. a
      BY <2>6, <3>1
    <3>2. ASSUME NEW c \in 1 .. b, r = a + c PROVE r <= a + l
      <4>1. c \in DOMAIN more /\ more[c].source = source
        BY <1>3, <1>6, <2>7, <3>2
      <4>2. c <= l
        BY <2>5, <4>1
      <4> QED
        BY <2>6, <3>2, <4>2
    <3> QED
      BY <1>7, <3>1, <3>2
  <2>8. all[a + l].source = source
    BY <2>5, <2>6
  <2>9. PICK last : LastAt(all, source, last)
    BY <1>4, <2>6, <2>8, LastOfRight
  <2>10. LastOf(all, source) = all[a + l]
    BY <1>4, <2>6, <2>7, <2>8, <2>9, LastAtOnce
  <2>11. out[k] = LastOf(all, source)
    BY <1>8, <2>1, <2>2, <2>3
  <2> QED
    BY <2>1, <2>2, <2>3, <2>5, <2>6, <2>10, <2>11
<1> QED
  BY <1>1, <1>2, <1>8, <1>9, <1>10, <1>11 DEF Updated

-----------------------------------------------------------------------------
(* The glossary: words in a text *)

\* A word that stands in a text stands in it when letters are put before or after it.
LEMMA WithinMore ==
  ASSUME NEW S, NEW u \in Seq(S), NEW v \in Seq(S), NEW word \in Seq(S)
  PROVE  /\ Within(word, u) => Within(word, u \o v)
         /\ Within(v, u \o v)
<1>1. PICK a \in Nat, b \in Nat, c \in Nat : a = Len(u) /\ b = Len(v) /\ c = Len(word)
  OBVIOUS
<1>2. PICK w \in Seq(S) : w = u \o v /\ Len(w) = a + b
  <2>1. u \o v \in Seq(S) /\ Len(u \o v) = a + b
    BY <1>1
  <2> QED
    BY <2>1
<1>3. /\ \A i \in 1 .. a : w[i] = u[i]
      /\ \A i \in 1 .. b : w[a + i] = v[i]
  BY <1>1, <1>2
<1>4. ASSUME Within(word, u) PROVE Within(word, w)
  <2>1. PICK i \in 1 .. a + 1 - c : SubSeq(u, i, i + c - 1) = word
    BY <1>1, <1>4 DEF Within
  <2>2. i \in 1 .. a + b + 1 - c
    OBVIOUS
  <2>3. SubSeq(w, i, i + c - 1) = SubSeq(u, i, i + c - 1)
    <3>1. \A k \in i .. i + c - 1 : w[k] = u[k]
      BY <1>3
    <3>2. SubSeq(w, i, i + c - 1) = [k \in 1 .. c |-> w[i + k - 1]]
      BY <1>2
    <3>3. SubSeq(u, i, i + c - 1) = [k \in 1 .. c |-> u[i + k - 1]]
      OBVIOUS
    <3>4. \A k \in 1 .. c : w[i + k - 1] = u[i + k - 1]
      BY <3>1
    <3> QED
      BY <3>2, <3>3, <3>4
  <2>4. SubSeq(w, i, i + Len(word) - 1) = word /\ i \in 1 .. Len(w) + 1 - Len(word)
    BY <1>1, <1>2, <2>1, <2>2, <2>3
  <2> QED
    BY Zenon, <2>4 DEF Within
<1>5. Within(v, w)
  <2>1. a + 1 \in 1 .. a + b + 1 - b
    OBVIOUS
  <2>2. SubSeq(w, a + 1, a + 1 + b - 1) = v
    <3>1. SubSeq(w, a + 1, a + 1 + b - 1) = [k \in 1 .. b |-> w[a + 1 + k - 1]]
      BY <1>2
    <3>2. \A k \in 1 .. b : w[a + 1 + k - 1] = v[k]
      BY <1>3
    <3>3. v = [k \in 1 .. b |-> v[k]]
      BY <1>1
    <3> QED
      BY <3>1, <3>2, <3>3
  <2> QED
    BY <1>1, <1>2, <2>1, <2>2 DEF Within
<1> QED
  BY <1>2, <1>4, <1>5

\* Each piece stands in what they are together.
LEMMA PieceWithin ==
  ASSUME NEW S, NEW seqs \in Seq(Seq(S)), NEW i \in DOMAIN seqs
  PROVE  Within(seqs[i], FlattenSeq(seqs))
<1>1. PICK n \in Nat \ {0} : n = Len(seqs) /\ DOMAIN seqs = 1 .. n
  OBVIOUS
<1>2. PICK f : Joins(f, seqs, S, n) /\ FlattenSeq(seqs) = f[n]
  BY <1>1, Flattened
<1>3. /\ f \in [1 .. n -> Seq(S)] /\ f[1] = seqs[1]
      /\ \A k \in 2 .. n : f[k] = f[k - 1] \o seqs[k]
  BY <1>2 DEF Joins
<1>4. \A k \in 1 .. n : seqs[k] \in Seq(S)
  BY <1>1
<1> DEFINE lacks == {k \in i .. n : ~Within(seqs[i], f[k])}
<1>5. lacks = {}
  <2>1. SUFFICES ASSUME lacks # {} PROVE FALSE
    OBVIOUS
  <2>2. lacks \subseteq Nat
    BY <1>1
  <2>3. PICK k \in lacks : \A l \in lacks : k <= l
    BY <2>1, <2>2, LeastNumber
  <2>4. k \in i .. n /\ ~Within(seqs[i], f[k]) /\ i \in 1 .. n /\ k \in 1 .. n
    BY <1>1, <2>3
  <2>5. CASE k = 1
    <3>1. PICK u \in Seq(S) : u = <<>>
      <4>1. <<>> \in Seq(S)
        OBVIOUS
      <4> QED
        BY <4>1
    <3>2. PICK v \in Seq(S) : v = seqs[1]
      BY <1>4
    <3>3. u \o v = v
      BY <3>1, <3>2
    <3>4. Within(v, u \o v)
      BY WithinMore
    <3>5. i = 1
      BY <2>4, <2>5
    <3> QED
      BY <1>3, <2>4, <2>5, <3>2, <3>3, <3>4, <3>5
  <2>6. CASE k # 1
    <3>1. k \in 2 .. n /\ k - 1 \in 1 .. n /\ ~ (k <= k - 1)
      BY <2>4, <2>6
    <3>2. PICK u \in Seq(S), v \in Seq(S), word \in Seq(S) : u = f[k - 1] /\ v = seqs[k] /\ word = seqs[i]
      BY <1>3, <1>4, <2>4, <3>1
    <3>3. f[k] = u \o v
      BY <1>3, <3>1, <3>2
    <3>4. CASE i = k
      BY <2>4, <3>2, <3>3, <3>4, WithinMore
    <3>5. CASE i # k
      <4>1. k - 1 \in i .. n
        BY <2>4, <3>1, <3>5
      <4>2. k - 1 \notin lacks
        BY <2>3, <3>1
      <4>3. Within(word, u)
        BY <3>2, <4>1, <4>2
      <4> QED
        BY <2>4, <3>2, <3>3, <4>3, WithinMore
    <3> QED
      BY <3>4, <3>5
  <2> QED
    BY <2>5, <2>6
<1>6. n \in i .. n
  BY <1>1
<1> QED
  BY <1>2, <1>5, <1>6

\* A token's word stands in the text.
LEMMA TokenWithin ==
  ASSUME request.text \in Seq(Token), NEW k \in DOMAIN request.text
  PROVE  Within(request.text[k].word, Raw)
<1>1. PICK letters, tokens : letters = STRING /\ tokens = request.text
  OBVIOUS
<1>2. PICK words : words = [i \in DOMAIN tokens |-> tokens[i].word]
  OBVIOUS
<1>3. PICK n \in Nat : n = Len(tokens) /\ DOMAIN tokens = 1 .. n
  BY <1>1
<1>4. ASSUME NEW i \in 1 .. n PROVE tokens[i].word \in Seq(letters)
  <2>1. tokens[i] \in Token
    BY <1>1, <1>3
  <2> QED
    BY <1>1, <2>1 DEF Token
<1>5. words \in Seq(Seq(letters)) /\ DOMAIN words = 1 .. n
  <2>1. words \in [1 .. n -> Seq(letters)]
    BY <1>2, <1>3, <1>4
  <2> QED
    BY <2>1
<1>6. Within(words[k], FlattenSeq(words))
  BY <1>1, <1>3, <1>5, PieceWithin
<1>7. Raw = FlattenSeq(words)
  BY <1>1, <1>2 DEF Raw
<1> QED
  BY <1>1, <1>2, <1>6, <1>7

-----------------------------------------------------------------------------
(* The glossary: what is tried *)

Kinds == {"exact", "compound", "variant", "alike", "closer", "same"}
Terms == Range(entries) \cup Range(compounds)
\* the matches of terms of the glossary, certain ones of what stands in the text
Proposals == {m \in {MatchOf(t, kind) : t \in Terms, kind \in Kinds} :
                m.kind = "exact" => Within(m.term.source, Raw)}

\* A match of a term.
LEMMA ProposalOf ==
  ASSUME NEW t \in Terms, NEW kind \in Kinds, kind = "exact" => Within(t.source, Raw)
  PROVE  /\ MatchOf(t, kind) \in Proposals
         /\ MatchOf(t, kind).term = t
<1>1. MatchOf(t, kind).kind = kind /\ MatchOf(t, kind).term = t
  BY DEF MatchOf
<1> QED
  BY <1>1 DEF Proposals

\* What the type invariant says of a match.
LEMMA ProposalRight ==
  ASSUME NEW m \in Proposals
  PROVE  /\ m.term \in Terms /\ m.confidence \in Nat
         /\ m.confidence = 100 => m.kind = "exact" /\ Within(m.term.source, Raw)
<1>1. PICK t \in Terms, kind \in Kinds : m = MatchOf(t, kind)
  BY DEF Proposals
<1>2. m.term = t /\ m.kind = kind /\ m.confidence = Confidence(kind)
  BY <1>1 DEF MatchOf
<1>3. Confidence(kind) \in Nat /\ (Confidence(kind) = 100 => kind = "exact")
  BY DEF Kinds, Confidence
<1>4. m.kind = "exact" => Within(m.term.source, Raw)
  BY DEF Proposals
<1> QED
  BY <1>2, <1>3, <1>4

\* the matches of entries only
EntryProposals == {m \in Proposals : m.term \in Range(entries)}
\* The list has this match.
Has(ms, m) == \E i \in DOMAIN ms : ms[i] = m

\* Put together, pieces of a kind of matches are matches of that kind, and nothing is lost.
LEMMA TriedInARow ==
  ASSUME NEW S, NEW n \in Nat, NEW seqs, DOMAIN seqs = 1 .. n, seqs = [i \in 1 .. n |-> seqs[i]],
         \A i \in 1 .. n : seqs[i] \in Seq(S)
  PROVE  /\ FlattenSeq(seqs) \in Seq(S)
         /\ \A i \in 1 .. n : \A j \in DOMAIN seqs[i] : Has(FlattenSeq(seqs), seqs[i][j])
<1>1. seqs \in [1 .. n -> Seq(S)]
  OBVIOUS
<1>2. seqs \in Seq(Seq(S)) /\ DOMAIN seqs = 1 .. n
  BY <1>1
<1>3. PICK out : out = FlattenSeq(seqs)
  OBVIOUS
<1>4. out \in Seq(S) /\ Range(out) = UNION {Range(seqs[i]) : i \in 1 .. n}
  BY <1>2, <1>3, FlattenedElements
<1>5. ASSUME NEW i \in 1 .. n, NEW j \in DOMAIN seqs[i] PROVE Has(out, seqs[i][j])
  <2>1. seqs[i][j] \in Range(seqs[i])
    BY DEF Range
  <2>2. seqs[i][j] \in Range(out)
    BY <1>4, <2>1
  <2> QED
    BY <2>2 DEF Range, Has
<1> QED
  BY <1>3, <1>4, <1>5

\* Terms that stand in the text are tried.
LEMMA TextTriedRight ==
  ASSUME NEW S \in SUBSET Proposals, NEW n \in Nat, NEW terms, Len(terms) = n, DOMAIN terms = 1 .. n,
         NEW kind \in Kinds,
         \A i \in 1 .. n : Within(terms[i].source, Raw) => MatchOf(terms[i], kind) \in S
  PROVE  /\ TextTried(terms, kind) \in Seq(S)
         /\ \A i \in 1 .. n : Within(terms[i].source, Raw) => Has(TextTried(terms, kind), MatchOf(terms[i], kind))
<1>1. PICK seqs : seqs = [i \in 1 .. n |-> Tried(Within(terms[i].source, Raw), terms[i], kind)]
  OBVIOUS
<1>2. TextTried(terms, kind) = FlattenSeq(seqs)
  BY <1>1 DEF TextTried
<1>3. ASSUME NEW i \in 1 .. n
      PROVE  /\ seqs[i] \in Seq(S)
             /\ Within(terms[i].source, Raw) => seqs[i] = <<MatchOf(terms[i], kind)>>
  <2>1. seqs[i] = Tried(Within(terms[i].source, Raw), terms[i], kind)
    BY <1>1
  <2>2. CASE Within(terms[i].source, Raw)
    <3>1. seqs[i] = <<MatchOf(terms[i], kind)>>
      BY <2>1, <2>2 DEF Tried
    <3> QED
      BY <2>2, <3>1
  <2>3. CASE ~Within(terms[i].source, Raw)
    <3>1. seqs[i] = <<>>
      BY <2>1, <2>3 DEF Tried
    <3> QED
      BY <2>3, <3>1
  <2> QED
    BY <2>2, <2>3
<1>4. DOMAIN seqs = 1 .. n /\ seqs = [i \in 1 .. n |-> seqs[i]]
  BY <1>1
<1>5. /\ FlattenSeq(seqs) \in Seq(S)
      /\ \A i \in 1 .. n : \A j \in DOMAIN seqs[i] : Has(FlattenSeq(seqs), seqs[i][j])
  BY <1>3, <1>4, TriedInARow
<1>6. ASSUME NEW i \in 1 .. n, Within(terms[i].source, Raw)
      PROVE  Has(FlattenSeq(seqs), MatchOf(terms[i], kind))
  <2>1. seqs[i] = <<MatchOf(terms[i], kind)>>
    BY <1>3, <1>6
  <2>2. 1 \in DOMAIN seqs[i] /\ seqs[i][1] = MatchOf(terms[i], kind)
    BY <2>1
  <2>3. Has(FlattenSeq(seqs), seqs[i][1])
    BY <1>5, <2>2
  <2> QED
    BY <2>2, <2>3
<1> QED
  BY <1>2, <1>5, <1>6

\* the terms of the list in another order
SameTerms(out, terms) ==
  /\ Len(out) = Len(terms)
  /\ \A i \in DOMAIN terms : \E k \in DOMAIN terms : out[k] = terms[i]
\* sources that can be sorted by length
Measured(S) == \A t \in S : Len(t.source) \in Int

\* A sort by length leaves a list's terms.
LEMMA LongestFirstRight ==
  ASSUME NEW S, NEW terms \in Seq(S), Measured(S)
  PROVE  LongestFirst(terms) \in Seq(S) /\ SameTerms(LongestFirst(terms), terms)
<1>1. PICK n \in Nat : n = Len(terms) /\ DOMAIN terms = 1 .. n
  OBVIOUS
<1>2. PICK key : key = [i \in 1 .. n |-> -Len(terms[i].source)]
  OBVIOUS
<1>3. key \in [1 .. n -> Int]
  BY <1>1, <1>2 DEF Measured
<1>4. PICK out : out = SortedByKey(terms, key)
  OBVIOUS
<1>5. out = LongestFirst(terms)
  BY <1>1, <1>2, <1>4 DEF LongestFirst
<1>6. out \in Seq(S) /\ \E g : Sorts(out, terms, key, g)
  BY <1>1, <1>3, <1>4, SortedByKeySorts
<1>7. PICK g : Sorts(out, terms, key, g)
  BY <1>6
<1>8. /\ Len(out) = n
      /\ \A k \in 1 .. n : g[k] \in 1 .. n /\ out[k] = terms[g[k]]
      /\ \A i \in 1 .. n : \E k \in 1 .. n : g[k] = i
  BY <1>1, <1>7 DEF Sorts
<1>9. ASSUME NEW i \in 1 .. n PROVE \E k \in 1 .. n : out[k] = terms[i]
  <2>1. PICK k \in 1 .. n : g[k] = i
    BY <1>8
  <2>2. out[k] = terms[i]
    BY <1>8, <2>1
  <2> QED
    BY <2>2
<1> QED
  BY <1>1, <1>5, <1>6, <1>8, <1>9 DEF SameTerms

\* The glossary while it is made: terms of the type, one of each source.
Glossaried ==
  /\ entries \in Seq(Term) /\ compounds \in Seq(Term) /\ Apart(entries)
  /\ request.text \in Seq(Token)

\* The length of a source is a number, and the terms are those of the two lists.
LEMMA TermsTyped ==
  ASSUME Glossaried
  PROVE  /\ entries \in Seq(Range(entries)) /\ compounds \in Seq(Range(compounds))
         /\ \A t \in Terms : t \in Term /\ Len(t.source) \in Int
<1>1. /\ entries \in Seq(Range(entries)) /\ compounds \in Seq(Range(compounds))
  BY DEF Glossaried, Range
<1>2. ASSUME NEW t \in Terms PROVE t \in Term
  BY DEF Glossaried, Terms, Range
<1>3. ASSUME NEW t \in Term PROVE Len(t.source) \in Int
  <2>1. PICK letters : letters = STRING
    OBVIOUS
  <2>2. t.source \in Seq(letters)
    BY <2>1 DEF Term
  <2> QED
    BY <2>2
<1> QED
  BY <1>1, <1>2, <1>3

\* The entry of a word, and one that has it as a variant.
LEMMA EntriesFound ==
  ASSUME Glossaried, NEW word
  PROVE  /\ IndexOf(entries, word) # {} => EntryOf(word) \in Range(entries) /\ EntryOf(word).source = word
         /\ HavingVariant(word) # {} => VariantEntry(word) \in Range(entries)
         /\ \A i \in DOMAIN entries : entries[i].source = word => EntryOf(word) = entries[i]
<1>1. PICK n \in Nat : n = Len(entries) /\ DOMAIN entries = 1 .. n
  BY DEF Glossaried
<1>2. ASSUME IndexOf(entries, word) # {}
      PROVE  EntryOf(word) \in Range(entries) /\ EntryOf(word).source = word
  <2>1. PICK i : i = CHOOSE j \in IndexOf(entries, word) : TRUE
    OBVIOUS
  <2>2. i \in IndexOf(entries, word)
    BY <1>2, <2>1
  <2> QED
    BY <2>1, <2>2 DEF EntryOf, IndexOf, Range
<1>3. ASSUME HavingVariant(word) # {} PROVE VariantEntry(word) \in Range(entries)
  <2>1. PICK found : found = HavingVariant(word)
    OBVIOUS
  <2>2. found \subseteq 1 .. n /\ found # {}
    BY <1>1, <1>3, <2>1 DEF HavingVariant
  <2>3. PICK l \in found : \A j \in found : j <= l
    BY <2>2, GreatestNumber
  <2>4. PICK c \in found : c = CHOOSE i \in found : \A j \in found : j <= i
    BY <2>3
  <2>5. VariantEntry(word) = entries[c]
    BY <2>1, <2>4 DEF VariantEntry
  <2> QED
    BY <1>1, <2>2, <2>4, <2>5 DEF Range
<1>4. ASSUME NEW i \in DOMAIN entries, entries[i].source = word PROVE EntryOf(word) = entries[i]
  <2>1. IndexOf(entries, word) = {i}
    BY <1>4 DEF IndexOf, Glossaried, Apart
  <2>2. (CHOOSE j \in {i} : TRUE) = i
    OBVIOUS
  <2> QED
    BY <2>1, <2>2 DEF EntryOf
<1> QED
  BY <1>2, <1>3, <1>4

\* words of the text
Worded(tokens) == \A k \in DOMAIN tokens : Within(tokens[k].word, Raw)
\* a token's entry is tried
TokensFound(tried, tokens) ==
  \A k \in DOMAIN tokens : \A i \in DOMAIN entries :
    tokens[k].word = entries[i].source /\ ~tokens[k].function =>
      \E m \in EntryProposals : m.term = entries[i] /\ Has(tried, m)

\* The tokens try entries only, and each token the entry of its word.
LEMMA TokensTriedRight ==
  ASSUME Glossaried, NEW n \in Nat, NEW tokens, DOMAIN tokens = 1 .. n, Worded(tokens)
  PROVE  TokensTried(tokens) \in Seq(EntryProposals) /\ TokensFound(TokensTried(tokens), tokens)
<1>1. PICK seqs : seqs = [k \in 1 .. n |-> TokenTried(tokens[k])]
  OBVIOUS
<1>2. TokensTried(tokens) = FlattenSeq(seqs)
  BY <1>1 DEF TokensTried
<1>3. ASSUME NEW k \in 1 .. n
      PROVE  /\ seqs[k] \in Seq(EntryProposals)
             /\ \A i \in DOMAIN entries : tokens[k].word = entries[i].source /\ ~tokens[k].function =>
                  1 \in DOMAIN seqs[k] /\ seqs[k][1].term = entries[i]
  <2>1. PICK word : word = tokens[k].word
    OBVIOUS
  <2> DEFINE exact   == Tried(~tokens[k].function /\ IndexOf(entries, word) # {}, EntryOf(word), "exact")
             variant == Tried(~tokens[k].function /\ HavingVariant(word) # {}, VariantEntry(word), "variant")
  <2>2. seqs[k] = exact \o variant
    BY <1>1, <2>1 DEF TokenTried
  <2>3. ASSUME ~tokens[k].function, IndexOf(entries, word) # {}
        PROVE  exact = <<MatchOf(EntryOf(word), "exact")>> /\ MatchOf(EntryOf(word), "exact") \in EntryProposals
    <3>1. EntryOf(word) \in Range(entries) /\ EntryOf(word).source = word
      BY <2>3, EntriesFound
    <3>2. EntryOf(word) \in Terms /\ "exact" \in Kinds /\ Within(EntryOf(word).source, Raw)
      BY <2>1, <3>1 DEF Terms, Kinds, Worded
    <3>3. MatchOf(EntryOf(word), "exact") \in Proposals /\ MatchOf(EntryOf(word), "exact").term = EntryOf(word)
      BY <3>2, ProposalOf
    <3> QED
      BY <2>3, <3>1, <3>3 DEF Tried, EntryProposals
  <2>4. ASSUME ~tokens[k].function, HavingVariant(word) # {}
        PROVE  variant = <<MatchOf(VariantEntry(word), "variant")>> /\ MatchOf(VariantEntry(word), "variant") \in EntryProposals
    <3>1. VariantEntry(word) \in Range(entries)
      BY <2>4, EntriesFound
    <3>2. VariantEntry(word) \in Terms /\ "variant" \in Kinds /\ "variant" # "exact"
      BY <3>1 DEF Terms, Kinds
    <3>3. MatchOf(VariantEntry(word), "variant") \in Proposals /\ MatchOf(VariantEntry(word), "variant").term = VariantEntry(word)
      BY <3>2, ProposalOf
    <3> QED
      BY <2>4, <3>1, <3>3 DEF Tried, EntryProposals
  <2>5. ~ (~tokens[k].function /\ IndexOf(entries, word) # {}) => exact = <<>>
    BY DEF Tried
  <2>6. ~ (~tokens[k].function /\ HavingVariant(word) # {}) => variant = <<>>
    BY DEF Tried
  <2> HIDE DEF exact, variant
  <2>7. PICK S : S = EntryProposals
    OBVIOUS
  <2>8. exact \in Seq(S)
    <3>1. CASE ~tokens[k].function /\ IndexOf(entries, word) # {}
      <4>1. PICK m \in S : m = MatchOf(EntryOf(word), "exact")
        BY <2>3, <2>7, <3>1
      <4>2. exact = <<m>>
        BY <2>3, <3>1, <4>1
      <4> QED
        BY <4>2
    <3>2. CASE ~ (~tokens[k].function /\ IndexOf(entries, word) # {})
      BY <2>5, <3>2
    <3> QED
      BY <3>1, <3>2
  <2>9. variant \in Seq(S)
    <3>1. CASE ~tokens[k].function /\ HavingVariant(word) # {}
      <4>1. PICK m \in S : m = MatchOf(VariantEntry(word), "variant")
        BY <2>4, <2>7, <3>1
      <4>2. variant = <<m>>
        BY <2>4, <3>1, <4>1
      <4> QED
        BY <4>2
    <3>2. CASE ~ (~tokens[k].function /\ HavingVariant(word) # {})
      BY <2>6, <3>2
    <3> QED
      BY <3>1, <3>2
  <2>10. seqs[k] \in Seq(S)
    BY <2>2, <2>8, <2>9
  <2>11. ASSUME NEW i \in DOMAIN entries, word = entries[i].source, ~tokens[k].function
         PROVE  1 \in DOMAIN seqs[k] /\ seqs[k][1].term = entries[i]
    <3>1. i \in IndexOf(entries, word) /\ EntryOf(word) = entries[i]
      BY <2>11, EntriesFound DEF IndexOf
    <3>2. PICK m \in S : m = MatchOf(entries[i], "exact") /\ exact = <<m>>
      BY <2>3, <2>7, <2>11, <3>1
    <3>3. m.term = entries[i]
      BY <3>2 DEF MatchOf
    <3>4. 1 \in DOMAIN (<<m>> \o variant) /\ (<<m>> \o variant)[1] = m
      BY <2>9
    <3> QED
      BY <2>2, <3>2, <3>3, <3>4
  <2> QED
    BY <2>1, <2>7, <2>10, <2>11
<1>4. DOMAIN seqs = 1 .. n /\ seqs = [i \in 1 .. n |-> seqs[i]]
  BY <1>1
<1>5. /\ FlattenSeq(seqs) \in Seq(EntryProposals)
      /\ \A i \in 1 .. n : \A j \in DOMAIN seqs[i] : Has(FlattenSeq(seqs), seqs[i][j])
  BY <1>3, <1>4, TriedInARow
<1>6. ASSUME NEW k \in 1 .. n, NEW i \in DOMAIN entries,
             tokens[k].word = entries[i].source /\ ~tokens[k].function
      PROVE  \E m \in EntryProposals : m.term = entries[i] /\ Has(FlattenSeq(seqs), m)
  <2>1. 1 \in DOMAIN seqs[k] /\ seqs[k][1].term = entries[i] /\ seqs[k] \in Seq(EntryProposals)
    BY <1>3, <1>6
  <2>2. seqs[k][1] \in EntryProposals
    BY <2>1
  <2>3. Has(FlattenSeq(seqs), seqs[k][1])
    BY <1>5, <2>1
  <2> QED
    BY <2>1, <2>2, <2>3
<1> QED
  BY <1>2, <1>5, <1>6 DEF TokensFound

-----------------------------------------------------------------------------
(* The glossary: what is proposed *)

\* no two matches of one source
Told(ms) == \A i, j \in DOMAIN ms : ms[i].term.source = ms[j].term.source => i = j

\* Of what is tried, the first of each source.
LEMMA FirstOfEachRight ==
  ASSUME NEW S, NEW tried \in Seq(S)
  PROVE  /\ FirstOfEach(tried) \in Seq(S) /\ Told(FirstOfEach(tried))
         /\ \A i \in DOMAIN tried : \E j \in DOMAIN tried :
              /\ j <= i /\ tried[j].term.source = tried[i].term.source
              /\ Has(FirstOfEach(tried), tried[j])
<1>1. PICK n \in Nat : n = Len(tried) /\ DOMAIN tried = 1 .. n
  OBVIOUS
<1>2. PICK firsts : firsts = {i \in DOMAIN tried : ~Known(SubSeq(tried, 1, i - 1), tried[i].term)}
  OBVIOUS
<1>3. ASSUME NEW i \in 1 .. n
      PROVE  i \in firsts <=> \A j \in 1 .. i - 1 : tried[j].term.source # tried[i].term.source
  <2>1. /\ DOMAIN SubSeq(tried, 1, i - 1) = 1 .. i - 1
        /\ \A j \in 1 .. i - 1 : SubSeq(tried, 1, i - 1)[j] = tried[j]
    BY <1>1
  <2>2. Known(SubSeq(tried, 1, i - 1), tried[i].term)
          <=> \E j \in 1 .. i - 1 : tried[j].term.source = tried[i].term.source
    BY <2>1 DEF Known
  <2> QED
    BY <1>1, <1>2, <2>2
<1>4. PICK out \in Seq(S) : out = Keeping(tried, firsts) /\ \E g : Picks(out, tried, firsts, g)
  BY KeepingPicks
<1>5. PICK g : Picks(out, tried, firsts, g)
  BY <1>4
<1>6. PICK m \in Nat : m = Len(out) /\ DOMAIN out = 1 .. m
  BY <1>4
<1>7. /\ \A k \in 1 .. m : g[k] \in 1 .. n /\ g[k] \in firsts /\ out[k] = tried[g[k]]
      /\ \A k, l \in 1 .. m : k < l => g[k] < g[l]
      /\ \A i \in 1 .. n : i \in firsts => \E k \in 1 .. m : g[k] = i
  BY <1>1, <1>5, <1>6 DEF Picks
<1>8. ASSUME NEW k \in 1 .. m, NEW l \in 1 .. m, k < l PROVE out[k].term.source # out[l].term.source
  <2>1. g[k] \in 1 .. n /\ g[l] \in 1 .. n /\ g[k] < g[l] /\ g[l] \in firsts
    BY <1>7, <1>8
  <2>2. g[k] \in 1 .. g[l] - 1
    BY <2>1
  <2>3. tried[g[k]].term.source # tried[g[l]].term.source
    BY <1>3, <2>1, <2>2
  <2> QED
    BY <1>7, <2>3
<1>9. Told(out)
  <2>1. ASSUME NEW k \in 1 .. m, NEW l \in 1 .. m, out[k].term.source = out[l].term.source PROVE k = l
    <3>1. ~ (k < l) /\ ~ (l < k)
      BY <1>8, <2>1
    <3> QED
      BY <3>1
  <2> QED
    BY <1>6, <2>1 DEF Told
<1>10. ASSUME NEW i \in 1 .. n
       PROVE  \E j \in 1 .. n : /\ j <= i /\ tried[j].term.source = tried[i].term.source
                                /\ Has(out, tried[j])
  <2>1. PICK same : same = {j \in 1 .. n : tried[j].term.source = tried[i].term.source}
    OBVIOUS
  <2>2. same \subseteq 1 .. n /\ i \in same
    BY <2>1
  <2>3. same \subseteq Nat /\ same # {}
    BY <2>2
  <2>4. PICK j \in same : \A l \in same : j <= l
    BY <2>3, LeastNumber
  <2>5. j \in 1 .. n /\ tried[j].term.source = tried[i].term.source /\ j <= i
    BY <2>1, <2>2, <2>4
  <2>6. ASSUME NEW l \in 1 .. j - 1 PROVE tried[l].term.source # tried[j].term.source
    <3>1. l \in 1 .. n /\ ~ (j <= l)
      BY <2>5
    <3>2. l \notin same
      BY <2>4, <3>1
    <3> QED
      BY <2>1, <2>5, <3>1, <3>2
  <2>7. j \in firsts
    BY <1>3, <2>5, <2>6
  <2>8. PICK k \in 1 .. m : g[k] = j
    BY <1>7, <2>5, <2>7
  <2>9. Has(out, tried[j])
    BY <1>6, <1>7, <2>8 DEF Has
  <2> QED
    BY <2>5, <2>9
<1>11. out = FirstOfEach(tried)
  BY <1>2, <1>4 DEF FirstOfEach
<1> QED
  BY <1>1, <1>4, <1>9, <1>10, <1>11

\* the matches of ms come first in more
Leads(ms, more) == \A i \in DOMAIN ms : i \in DOMAIN more /\ more[i] = ms[i]

\* What is put after a list leaves it where it is.
LEMMA LeadsMore ==
  ASSUME NEW S, NEW u \in Seq(S), NEW v \in Seq(S), NEW ms, Leads(ms, u)
  PROVE  u \o v \in Seq(S) /\ Leads(ms, u \o v)
<1>1. PICK a \in Nat : a = Len(u) /\ DOMAIN u = 1 .. a
  OBVIOUS
<1>w. PICK w \in Seq(S) : w = u \o v
  <2>1. u \o v \in Seq(S)
    OBVIOUS
  <2> QED
    BY <2>1
<1>2. \A i \in 1 .. a : i \in DOMAIN w /\ w[i] = u[i]
  BY <1>1, <1>w
<1> QED
  BY <1>1, <1>w, <1>2 DEF Leads

\* A match of the entries that is tried first is of a term that is proposed: whatever has
\* its source before it is of the same entry.
LEMMA FirstTriedProposed ==
  ASSUME Glossaried, NEW lead \in Seq(EntryProposals), NEW tried \in Seq(Proposals), Leads(lead, tried),
         NEW m \in EntryProposals, Has(lead, m)
  PROVE  \E r \in DOMAIN FirstOfEach(tried) : FirstOfEach(tried)[r].term = m.term
<1>1. PICK S : S = Proposals
  OBVIOUS
<1>2. PICK a \in Nat, n \in Nat : /\ a = Len(lead) /\ n = Len(tried)
                                  /\ DOMAIN lead = 1 .. a /\ DOMAIN tried = 1 .. n
  OBVIOUS
<1>3. PICK i \in 1 .. a : lead[i] = m
  BY <1>2 DEF Has
<1>4. i \in 1 .. n /\ tried[i] = m
  BY <1>2, <1>3 DEF Leads
<1>5. PICK j \in 1 .. n : /\ j <= i /\ tried[j].term.source = tried[i].term.source
                          /\ Has(FirstOfEach(tried), tried[j])
  BY <1>2, <1>4, FirstOfEachRight
<1>6. j \in 1 .. a
  BY <1>3, <1>5
<1>7. tried[j] = lead[j] /\ lead[j] \in EntryProposals
  BY <1>2, <1>6 DEF Leads
<1>8. PICK x \in DOMAIN entries, y \in DOMAIN entries : entries[x] = tried[j].term /\ entries[y] = m.term
  <2>1. tried[j].term \in Range(entries) /\ m.term \in Range(entries)
    BY <1>7 DEF EntryProposals
  <2> QED
    BY <2>1 DEF Range
<1>9. x = y
  BY <1>4, <1>5, <1>8 DEF Glossaried, Apart
<1>10. tried[j].term = m.term
  BY <1>8, <1>9
<1> QED
  BY <1>5, <1>10 DEF Has

\* A token appends at most one match, of a source that was not seen.
LEMMA FuzzyTokenRight ==
  ASSUME Glossaried, NEW ms \in Seq(Proposals), Told(ms), NEW token
  PROVE  /\ FuzzyToken(ms, token) \in Seq(Proposals) /\ Told(FuzzyToken(ms, token))
         /\ Leads(ms, FuzzyToken(ms, token))
<1>1. PICK near : near = {i \in DOMAIN entries : /\ ~Known(ms, entries[i])
                                                 /\ Similar(token.word, entries[i].source)}
  OBVIOUS
<1>2. PICK i : i = CHOOSE c \in near : \A j \in near : c <= j
  OBVIOUS
<1>3. PICK m : m = MatchOf(entries[i], FuzzyKind(token.word, entries[i].source))
  OBVIOUS
<1>4. FuzzyToken(ms, token) = IF near = {} \/ KnownWord(ms, token.word) THEN ms ELSE Append(ms, m)
  BY <1>1, <1>2, <1>3 DEF FuzzyToken
<1>5. CASE near = {} \/ KnownWord(ms, token.word)
  BY <1>4, <1>5 DEF Leads
<1>6. CASE near # {} /\ ~KnownWord(ms, token.word)
  <2>1. near \subseteq Nat /\ near # {}
    BY <1>1, <1>6 DEF Glossaried
  <2>2. PICK c \in near : \A j \in near : c <= j
    BY <2>1, LeastNumber
  <2>3. i \in near
    BY <1>2, <2>2
  <2>4. i \in DOMAIN entries /\ ~Known(ms, entries[i])
    BY <1>1, <2>3
  <2>5. FuzzyKind(token.word, entries[i].source) \in Kinds /\ FuzzyKind(token.word, entries[i].source) # "exact"
    BY DEF FuzzyKind, Kinds
  <2>6. entries[i] \in Terms
    BY <2>4 DEF Terms, Range
  <2>7. m \in Proposals /\ m.term = entries[i]
    BY <1>3, <2>5, <2>6, ProposalOf
  <2>s. PICK S : S = Proposals
    OBVIOUS
  <2>8. PICK n \in Nat : n = Len(ms) /\ DOMAIN ms = 1 .. n
    OBVIOUS
  <2>9. PICK out : out = Append(ms, m)
    OBVIOUS
  <2>10. /\ out \in Seq(S) /\ DOMAIN out = 1 .. n + 1 /\ out[n + 1] = m
         /\ \A j \in 1 .. n : out[j] = ms[j]
    BY <2>7, <2>s, <2>8, <2>9
  <2>11. \A j \in 1 .. n : ms[j].term.source # m.term.source
    BY <2>4, <2>7, <2>8 DEF Known
  <2>12. ASSUME NEW j \in 1 .. n + 1, NEW l \in 1 .. n + 1, out[j].term.source = out[l].term.source
         PROVE  j = l
    <3>1. CASE j \in 1 .. n /\ l \in 1 .. n
      BY <2>8, <2>10, <2>12, <3>1 DEF Told
    <3>2. CASE j = n + 1 /\ l \in 1 .. n
      BY <2>10, <2>11, <2>12, <3>2
    <3>3. CASE j \in 1 .. n /\ l = n + 1
      BY <2>10, <2>11, <2>12, <3>3
    <3> QED
      BY <3>1, <3>2, <3>3
  <2>13. Told(out)
    BY <2>10, <2>12 DEF Told
  <2>14. Leads(ms, out)
    BY <2>8, <2>10 DEF Leads
  <2> QED
    BY <1>4, <1>6, <2>s, <2>9, <2>10, <2>13, <2>14
<1> QED
  BY <1>5, <1>6

\* f goes from token to token up to the k-th.
Tokenwise(f, ms, tokens, k) ==
  /\ f[0] = ms
  /\ \A i \in 1 .. k : f[i] = FuzzyToken(f[i - 1], tokens[i])
  /\ \A i \in 0 .. k : f[i] \in Seq(Proposals) /\ Told(f[i]) /\ Leads(ms, f[i])

\* One token after another, the matches before them stay and no source comes twice.
LEMMA FuzzyTokensRight ==
  ASSUME Glossaried, NEW ms \in Seq(Proposals), Told(ms), NEW n \in Nat, NEW tokens, Len(tokens) = n
  PROVE  /\ FuzzyTokens(ms, tokens) \in Seq(Proposals) /\ Told(FuzzyTokens(ms, tokens))
         /\ Leads(ms, FuzzyTokens(ms, tokens))
<1> DEFINE lacking == {k \in 0 .. n : ~ \E f : DOMAIN f = 0 .. k /\ Tokenwise(f, ms, tokens, k)}
<1>1. lacking = {}
  <2>1. SUFFICES ASSUME lacking # {} PROVE FALSE
    OBVIOUS
  <2>2. lacking \subseteq Nat
    OBVIOUS
  <2>3. PICK k \in lacking : \A l \in lacking : k <= l
    BY <2>1, <2>2, LeastNumber
  <2>4. k \in 0 .. n
    BY <2>3
  <2>5. k # 0
    <3>1. PICK f : f = [i \in 0 .. 0 |-> ms]
      OBVIOUS
    <3>2. DOMAIN f = 0 .. 0 /\ f[0] = ms /\ \A i \in 0 .. 0 : f[i] = ms
      BY <3>1
    <3>3. Leads(ms, ms) /\ 1 .. 0 = {}
      BY DEF Leads
    <3>4. Tokenwise(f, ms, tokens, 0)
      BY <3>2, <3>3 DEF Tokenwise
    <3> QED
      BY <2>3, <3>2, <3>4
  <2>6. k \in 1 .. n /\ k - 1 \in 0 .. n /\ ~ (k <= k - 1)
    BY <2>4, <2>5
  <2>7. k - 1 \notin lacking
    BY <2>3, <2>6
  <2>8. PICK f : DOMAIN f = 0 .. k - 1 /\ Tokenwise(f, ms, tokens, k - 1)
    BY <2>6, <2>7
  <2>9. /\ f[0] = ms
        /\ \A i \in 1 .. k - 1 : f[i] = FuzzyToken(f[i - 1], tokens[i])
        /\ \A i \in 0 .. k - 1 : f[i] \in Seq(Proposals) /\ Told(f[i]) /\ Leads(ms, f[i])
    BY <2>8 DEF Tokenwise
  <2>10. PICK before, after : before = f[k - 1] /\ after = FuzzyToken(f[k - 1], tokens[k])
    OBVIOUS
  <2>11. before \in Seq(Proposals) /\ Told(before) /\ Leads(ms, before)
    <3>1. k - 1 \in 0 .. k - 1
      BY <2>6
    <3> QED
      BY <2>9, <2>10, <3>1
  <2>12. after \in Seq(Proposals) /\ Told(after) /\ Leads(before, after)
    BY <2>10, <2>11, FuzzyTokenRight
  <2>13. Leads(ms, after)
    BY <2>11, <2>12 DEF Leads
  <2>14. PICK g : g = [i \in 0 .. k |-> IF i = k THEN after ELSE f[i]]
    OBVIOUS
  <2>15. /\ DOMAIN g = 0 .. k /\ g[k] = after
         /\ \A i \in 0 .. k - 1 : g[i] = f[i]
    BY <2>6, <2>14
  <2>16. ASSUME NEW i \in 1 .. k PROVE g[i] = FuzzyToken(g[i - 1], tokens[i])
    <3>1. i - 1 \in 0 .. k - 1
      BY <2>6
    <3>2. CASE i = k
      BY <2>10, <2>15, <3>1, <3>2
    <3>3. CASE i # k
      <4>1. i \in 1 .. k - 1 /\ i \in 0 .. k - 1
        BY <2>6, <3>3
      <4> QED
        BY <2>9, <2>15, <3>1, <4>1
    <3> QED
      BY <3>2, <3>3
  <2>17. ASSUME NEW i \in 0 .. k PROVE g[i] \in Seq(Proposals) /\ Told(g[i]) /\ Leads(ms, g[i])
    <3>1. CASE i = k
      BY <2>12, <2>13, <2>15, <3>1
    <3>2. CASE i # k
      <4>1. i \in 0 .. k - 1
        BY <2>6, <3>2
      <4> QED
        BY <2>9, <2>15, <4>1
    <3> QED
      BY <3>1, <3>2
  <2>18. g[0] = ms
    <3>1. 0 \in 0 .. k - 1
      BY <2>6
    <3> QED
      BY <2>9, <2>15, <3>1
  <2>19. Tokenwise(g, ms, tokens, k)
    BY <2>16, <2>17, <2>18 DEF Tokenwise
  <2> QED
    BY <2>3, <2>15, <2>19
<1>2. PICK f : DOMAIN f = 0 .. n /\ Tokenwise(f, ms, tokens, n)
  <2>1. n \in 0 .. n
    OBVIOUS
  <2> QED
    BY <1>1, <2>1
<1> HIDE DEF lacking
<1>3. /\ f[0] = ms
      /\ \A i \in 1 .. n : f[i] = FuzzyToken(f[i - 1], tokens[i])
      /\ \A i \in 0 .. n : f[i] \in Seq(Proposals) /\ Told(f[i]) /\ Leads(ms, f[i])
  BY <1>2 DEF Tokenwise
<1>4. PICK h : h = [k \in 0 .. n |-> IF k = 0 THEN ms ELSE FuzzyToken(f[k - 1], tokens[k])]
  OBVIOUS
<1>5. ASSUME NEW k \in 0 .. n PROVE h[k] = f[k]
  <2>1. CASE k = 0
    BY <1>3, <1>4, <2>1
  <2>2. CASE k # 0
    <3>1. k \in 1 .. n
      BY <2>2
    <3> QED
      BY <1>3, <1>4, <2>2, <3>1
  <2> QED
    BY <2>1, <2>2
<1>6. \E g : g = [k \in 0 .. n |-> IF k = 0 THEN ms ELSE FuzzyToken(g[k - 1], tokens[k])]
  <2>1. ASSUME NEW k \in 0 .. n
        PROVE  h[k] = IF k = 0 THEN ms ELSE FuzzyToken(h[k - 1], tokens[k])
    <3>1. CASE k = 0
      BY <1>4, <3>1
    <3>2. CASE k # 0
      <4>1. k - 1 \in 0 .. n
        BY <3>2
      <4>2. h[k - 1] = f[k - 1]
        BY <1>5, <4>1
      <4>3. h[k] = FuzzyToken(f[k - 1], tokens[k])
        BY <1>4, <3>2
      <4> QED
        BY <3>2, <4>2, <4>3
    <3> QED
      BY <3>1, <3>2
  <2>2. h = [k \in 0 .. n |-> h[k]]
    BY <1>4
  <2>3. h = [k \in 0 .. n |-> IF k = 0 THEN ms ELSE FuzzyToken(h[k - 1], tokens[k])]
    BY <2>1, <2>2
  <2> QED
    BY <2>3
<1>7. PICK g : /\ g = [k \in 0 .. n |-> IF k = 0 THEN ms ELSE FuzzyToken(g[k - 1], tokens[k])]
               /\ FuzzyTokens(ms, tokens) = g[n]
  BY <1>6 DEF FuzzyTokens
<1>8. /\ g[0] = ms
      /\ \A k \in 1 .. n : g[k] = FuzzyToken(g[k - 1], tokens[k])
  <2>1. ASSUME NEW k \in 0 .. n PROVE g[k] = IF k = 0 THEN ms ELSE FuzzyToken(g[k - 1], tokens[k])
    BY <1>7
  <2>2. 0 \in 0 .. n
    OBVIOUS
  <2>3. ASSUME NEW k \in 1 .. n PROVE k \in 0 .. n /\ k # 0
    OBVIOUS
  <2> QED
    BY <2>1, <2>2, <2>3
<1> DEFINE differ == {k \in 0 .. n : g[k] # f[k]}
<1>9. differ = {}
  <2> SUFFICES ASSUME differ # {} PROVE FALSE
    OBVIOUS
  <2>1. differ \subseteq Nat
    OBVIOUS
  <2>2. PICK k \in differ : \A l \in differ : k <= l
    BY <2>1, LeastNumber
  <2>3. k \in 0 .. n /\ g[k] # f[k]
    BY <2>2
  <2>4. k # 0
    BY <1>3, <1>8, <2>3
  <2>5. k \in 1 .. n /\ k - 1 \in 0 .. n /\ ~ (k <= k - 1)
    BY <2>3, <2>4
  <2>6. g[k - 1] = f[k - 1]
    BY <2>2, <2>5
  <2>7. g[k] = FuzzyToken(g[k - 1], tokens[k]) /\ f[k] = FuzzyToken(f[k - 1], tokens[k])
    BY <1>3, <1>8, <2>5
  <2> QED
    BY <2>3, <2>6, <2>7
<1>10. n \in 0 .. n
  OBVIOUS
<1>11. g[n] = f[n]
  BY <1>9, <1>10
<1> QED
  BY <1>3, <1>7, <1>10, <1>11

\* Each variant is one of an entry.
LEMMA VariantsFound ==
  ASSUME Glossaried
  PROVE  \E n \in Nat : DOMAIN Variants = 1 .. n /\ \A i \in 1 .. n : HavingVariant(Variants[i]) # {}
<1>1. PICK letters : letters = STRING
  OBVIOUS
<1>2. PICK words : words = Seq(letters)
  OBVIOUS
<1>3. PICK c \in Nat : c = Len(entries) /\ DOMAIN entries = 1 .. c
  BY DEF Glossaried
<1>4. PICK lists : lists = [k \in DOMAIN entries |-> entries[k].variants]
  OBVIOUS
<1>5. ASSUME NEW k \in 1 .. c PROVE lists[k] \in Seq(words)
  <2>1. PICK t \in Term : t = entries[k]
    BY <1>3 DEF Glossaried
  <2>2. t.variants \in Seq(words)
    BY <1>1, <1>2 DEF Term
  <2> QED
    BY <1>3, <1>4, <2>1, <2>2
<1>6. lists \in Seq(Seq(words)) /\ DOMAIN lists = 1 .. c
  <2>1. lists \in [1 .. c -> Seq(words)]
    BY <1>3, <1>4, <1>5
  <2> QED
    BY <2>1
<1>7. Variants = FlattenSeq(lists)
  BY <1>4 DEF Variants
<1>8. Variants \in Seq(words) /\ Range(Variants) = UNION {Range(lists[k]) : k \in DOMAIN lists}
  BY <1>6, <1>7, FlattenedElements
<1>9. PICK n \in Nat : DOMAIN Variants = 1 .. n
  BY <1>8
<1>10. ASSUME NEW i \in 1 .. n PROVE HavingVariant(Variants[i]) # {}
  <2>1. Variants[i] \in Range(Variants)
    BY <1>9 DEF Range
  <2>2. PICK k \in DOMAIN lists : Variants[i] \in Range(lists[k])
    BY <1>8, <2>1
  <2>3. k \in DOMAIN entries /\ lists[k] = entries[k].variants
    BY <1>4, <2>2
  <2> QED
    BY <2>2, <2>3 DEF HavingVariant
<1> QED
  BY <1>9, <1>10

\* Compounds, variants and near entries are tried as terms of the glossary.
LEMMA OtherTried ==
  ASSUME Glossaried
  PROVE  /\ CompoundsTried \in Seq(Proposals) /\ VariantsTried \in Seq(Proposals)
         /\ FuzzyTried \in Seq(Proposals)
<1>1. /\ entries \in Seq(Range(entries)) /\ compounds \in Seq(Range(compounds))
      /\ \A t \in Terms : t \in Term /\ Len(t.source) \in Int
  BY TermsTyped
<1>2. CompoundsTried \in Seq(Proposals)
  <2>n. PICK n \in Nat : n = Len(compounds)
    BY <1>1
  <2>1. PICK terms : terms = LongestFirst(compounds)
    OBVIOUS
  <2>2. Measured(Range(compounds))
    BY <1>1 DEF Terms, Measured
  <2>3. terms \in Seq(Range(compounds)) /\ Len(terms) = n
    <3>1. terms \in Seq(Range(compounds)) /\ SameTerms(terms, compounds)
      BY <1>1, <2>1, <2>2, LongestFirstRight
    <3> QED
      BY <2>n, <3>1 DEF SameTerms
  <2>4. DOMAIN terms = 1 .. n /\ \A i \in 1 .. n : terms[i] \in Range(compounds)
    BY <2>3
  <2>5. "compound" \in Kinds /\ "compound" # "exact"
    BY DEF Kinds
  <2>6. \A i \in 1 .. n : MatchOf(terms[i], "compound") \in Proposals
    BY <2>4, <2>5, ProposalOf DEF Terms
  <2>7. TextTried(terms, "compound") \in Seq(Proposals)
    BY <2>3, <2>4, <2>5, <2>6, TextTriedRight
  <2> QED
    BY <2>1, <2>7 DEF CompoundsTried
<1>3. VariantsTried \in Seq(Proposals)
  <2>1. PICK seqs : seqs = [i \in DOMAIN Variants |->
                              Tried(Within(Variants[i], Raw), VariantEntry(Variants[i]), "variant")]
    OBVIOUS
  <2>2. PICK n \in Nat : DOMAIN Variants = 1 .. n /\ \A i \in 1 .. n : HavingVariant(Variants[i]) # {}
    BY VariantsFound
  <2>4. ASSUME NEW i \in 1 .. n PROVE seqs[i] \in Seq(Proposals)
    <3>1. PICK t : t = VariantEntry(Variants[i])
      OBVIOUS
    <3>2. t \in Terms
      BY <2>2, <3>1, EntriesFound DEF Terms
    <3>s. PICK S : S = Proposals
      OBVIOUS
    <3>3. PICK m \in S : m = MatchOf(t, "variant")
      BY <3>2, <3>s, ProposalOf DEF Kinds
    <3>4. seqs[i] = Tried(Within(Variants[i], Raw), t, "variant")
      BY <2>1, <2>2, <3>1
    <3>5. seqs[i] = <<m>> \/ seqs[i] = <<>>
      BY <3>3, <3>4 DEF Tried
    <3>q. <<m>> \in Seq(S) /\ <<>> \in Seq(S)
      OBVIOUS
    <3>6. seqs[i] \in Seq(S)
      BY Zenon, <3>5, <3>q
    <3> QED
      BY <3>s, <3>6
  <2>5. DOMAIN seqs = 1 .. n /\ seqs = [i \in 1 .. n |-> seqs[i]]
    BY <2>1, <2>2
  <2>6. FlattenSeq(seqs) \in Seq(Proposals)
    BY <2>4, <2>5, TriedInARow
  <2> QED
    BY <2>1, <2>6 DEF VariantsTried
<1>4. FuzzyTried \in Seq(Proposals)
  <2>1. PICK seqs : seqs = [i \in DOMAIN entries |->
             Tried(FuzzyNear(entries[i].source), entries[i], FuzzyKind(entries[i].source, Raw))]
    OBVIOUS
  <2>2. PICK n \in Nat : n = Len(entries) /\ DOMAIN entries = 1 .. n
    BY <1>1
  <2>3. ASSUME NEW i \in 1 .. n PROVE seqs[i] \in Seq(Proposals)
    <3>1. PICK kind : kind = FuzzyKind(entries[i].source, Raw)
      OBVIOUS
    <3>2. kind \in Kinds /\ kind # "exact"
      BY <3>1 DEF FuzzyKind, Kinds
    <3>3. entries[i] \in Terms
      BY <2>2 DEF Terms, Range
    <3>s. PICK S : S = Proposals
      OBVIOUS
    <3>4. PICK m \in S : m = MatchOf(entries[i], kind)
      BY <3>2, <3>3, <3>s, ProposalOf
    <3>5. seqs[i] = Tried(FuzzyNear(entries[i].source), entries[i], kind)
      BY <2>1, <2>2, <3>1
    <3>6. seqs[i] = <<m>> \/ seqs[i] = <<>>
      BY <3>4, <3>5 DEF Tried
    <3>q. <<m>> \in Seq(S) /\ <<>> \in Seq(S)
      OBVIOUS
    <3>7. seqs[i] \in Seq(S)
      BY Zenon, <3>6, <3>q
    <3> QED
      BY <3>s, <3>7
  <2>4. DOMAIN seqs = 1 .. n /\ seqs = [i \in 1 .. n |-> seqs[i]]
    BY <2>1, <2>2
  <2>5. FlattenSeq(seqs) \in Seq(Proposals)
    BY <2>3, <2>4, TriedInARow
  <2> QED
    BY <2>1, <2>5 DEF FuzzyTried
<1> QED
  BY <1>2, <1>3, <1>4

\* t is to be proposed: it stands in the text, as a token that is no function word if there
\* are tokens.
Stands(t) ==
  IF request.mode = "plain" THEN Within(t.source, Raw)
  ELSE \E k \in DOMAIN request.text : request.text[k].word = t.source /\ ~request.text[k].function
\* the entries that stand in the text are among the matches
Proposed(ms) == \A i \in DOMAIN entries : Stands(entries[i]) => \E m \in DOMAIN ms : ms[m].term = entries[i]

\* Matching by tokens.
LEMMA WithPosRight ==
  ASSUME Glossaried, NEW tokens, tokens = request.text \/ tokens = <<>>
  PROVE  /\ MatchWithPos(tokens) \in Seq(Proposals) /\ Told(MatchWithPos(tokens))
         /\ tokens = request.text /\ request.mode # "plain" => Proposed(MatchWithPos(tokens))
<1>1. PICK n \in Nat : n = Len(tokens) /\ DOMAIN tokens = 1 .. n
  <2>1. request.text \in Seq(Token)
    BY DEF Glossaried
  <2>2. Len(<<>>) = 0 /\ DOMAIN <<>> = 1 .. 0
    OBVIOUS
  <2> QED
    BY <2>1, <2>2
<1>2. Worded(tokens)
  <2>1. CASE tokens = request.text
    BY <2>1, TokenWithin DEF Glossaried, Worded
  <2>2. CASE tokens = <<>>
    BY <2>2 DEF Worded
  <2> QED
    BY <2>1, <2>2
<1>3. PICK lead : lead = TokensTried(tokens)
  OBVIOUS
<1>4. lead \in Seq(EntryProposals) /\ TokensFound(lead, tokens)
  BY <1>1, <1>2, <1>3, TokensTriedRight
<1>5. EntryProposals \subseteq Proposals
  BY DEF EntryProposals
<1>6. PICK tried \in Seq(Proposals) : tried = lead \o CompoundsTried /\ Leads(lead, tried)
  <2>1. lead \in Seq(Proposals) /\ CompoundsTried \in Seq(Proposals)
    BY <1>4, <1>5, OtherTried
  <2>2. Leads(lead, lead)
    BY DEF Leads
  <2>3. lead \o CompoundsTried \in Seq(Proposals) /\ Leads(lead, lead \o CompoundsTried)
    BY <2>1, <2>2, LeadsMore
  <2> QED
    BY <2>3
<1>7. PICK first : first = FirstOfEach(tried)
  OBVIOUS
<1>8. first \in Seq(Proposals) /\ Told(first)
  BY <1>7, FirstOfEachRight
<1>9. PICK ms : ms = FuzzyTokens(first, tokens)
  OBVIOUS
<1>10. ms \in Seq(Proposals) /\ Told(ms) /\ Leads(first, ms)
  BY <1>1, <1>8, <1>9, FuzzyTokensRight
<1>11. ms = MatchWithPos(tokens)
  BY <1>3, <1>6, <1>7, <1>9 DEF MatchWithPos
<1>12. ASSUME tokens = request.text, request.mode # "plain", NEW i \in DOMAIN entries, Stands(entries[i])
       PROVE  \E m \in DOMAIN ms : ms[m].term = entries[i]
  <2>1. PICK k \in 1 .. n : tokens[k].word = entries[i].source /\ ~tokens[k].function
    BY <1>1, <1>12 DEF Stands
  <2>2. PICK m \in EntryProposals : m.term = entries[i] /\ Has(lead, m)
    BY <1>1, <1>4, <2>1 DEF TokensFound
  <2>3. PICK r \in DOMAIN first : first[r].term = m.term
    BY <1>4, <1>6, <1>7, <2>2, FirstTriedProposed
  <2>4. r \in DOMAIN ms /\ ms[r] = first[r]
    BY <1>10, <2>3 DEF Leads
  <2> QED
    BY <2>2, <2>3, <2>4
<1> QED
  BY <1>10, <1>11, <1>12 DEF Proposed

\* Matching as plain text.
LEMMA WithoutPosRight ==
  ASSUME Glossaried
  PROVE  /\ MatchWithoutPos \in Seq(Proposals) /\ Told(MatchWithoutPos)
         /\ request.mode = "plain" => Proposed(MatchWithoutPos)
<1>1. /\ entries \in Seq(Range(entries))
      /\ \A t \in Range(entries) : t \in Terms /\ Len(t.source) \in Int
  BY TermsTyped DEF Terms
<1>n. PICK n \in Nat : n = Len(entries) /\ DOMAIN entries = 1 .. n
  BY <1>1
<1>2. PICK terms : terms = LongestFirst(entries)
  OBVIOUS
<1>3. /\ terms \in Seq(Range(entries)) /\ Len(terms) = n
      /\ \A i \in 1 .. n : \E k \in 1 .. n : terms[k] = entries[i]
  <2>1. Measured(Range(entries))
    BY <1>1 DEF Measured
  <2>2. terms \in Seq(Range(entries)) /\ SameTerms(terms, entries)
    BY <1>1, <1>2, <2>1, LongestFirstRight
  <2> QED
    BY <1>n, <2>2 DEF SameTerms
<1>4. DOMAIN terms = 1 .. n /\ \A i \in 1 .. n : terms[i] \in Range(entries)
  BY <1>3
<1>5. \A i \in 1 .. n : Within(terms[i].source, Raw) =>
        MatchOf(terms[i], "exact") \in EntryProposals /\ MatchOf(terms[i], "exact").term = terms[i]
  <2>1. ASSUME NEW i \in 1 .. n, Within(terms[i].source, Raw)
        PROVE  MatchOf(terms[i], "exact") \in EntryProposals /\ MatchOf(terms[i], "exact").term = terms[i]
    <3>1. terms[i] \in Range(entries) /\ terms[i] \in Terms /\ "exact" \in Kinds
      BY <1>1, <1>4 DEF Kinds
    <3>2. MatchOf(terms[i], "exact") \in Proposals /\ MatchOf(terms[i], "exact").term = terms[i]
      BY <2>1, <3>1, ProposalOf
    <3> QED
      BY <3>1, <3>2 DEF EntryProposals
  <2> QED
    BY <2>1
<1>6. PICK lead : lead = TextTried(terms, "exact")
  OBVIOUS
<1>7. /\ lead \in Seq(EntryProposals)
      /\ \A i \in 1 .. n : Within(terms[i].source, Raw) => Has(lead, MatchOf(terms[i], "exact"))
  <2>1. EntryProposals \in SUBSET Proposals /\ "exact" \in Kinds
    BY DEF EntryProposals, Kinds
  <2> QED
    BY <1>3, <1>4, <1>5, <1>6, <2>1, TextTriedRight
<1>8. PICK tried \in Seq(Proposals) :
        /\ tried = lead \o VariantsTried \o CompoundsTried \o FuzzyTried /\ Leads(lead, tried)
  <2>1. EntryProposals \subseteq Proposals
    BY DEF EntryProposals
  <2>2. lead \in Seq(Proposals) /\ Leads(lead, lead)
    BY <1>7, <2>1 DEF Leads
  <2>3. PICK u : u = lead \o VariantsTried
    OBVIOUS
  <2>4. u \in Seq(Proposals) /\ Leads(lead, u)
    BY <2>2, <2>3, OtherTried, LeadsMore
  <2>5. PICK v : v = u \o CompoundsTried
    OBVIOUS
  <2>6. v \in Seq(Proposals) /\ Leads(lead, v)
    BY <2>4, <2>5, OtherTried, LeadsMore
  <2>7. PICK w : w = v \o FuzzyTried
    OBVIOUS
  <2>8. w \in Seq(Proposals) /\ Leads(lead, w)
    BY <2>6, <2>7, OtherTried, LeadsMore
  <2> QED
    BY <2>3, <2>5, <2>7, <2>8
<1>9. PICK ms : ms = FirstOfEach(tried)
  OBVIOUS
<1>10. ms \in Seq(Proposals) /\ Told(ms)
  BY <1>9, FirstOfEachRight
<1>11. ms = MatchWithoutPos
  BY <1>2, <1>6, <1>8, <1>9 DEF MatchWithoutPos
<1>12. ASSUME request.mode = "plain", NEW i \in DOMAIN entries, Stands(entries[i])
       PROVE  \E m \in DOMAIN ms : ms[m].term = entries[i]
  <2>1. PICK k \in 1 .. n : terms[k] = entries[i]
    BY <1>n, <1>3
  <2>2. Within(terms[k].source, Raw)
    BY <1>12, <2>1 DEF Stands
  <2>3. PICK m \in EntryProposals : m = MatchOf(terms[k], "exact") /\ m.term = entries[i] /\ Has(lead, m)
    BY <1>5, <1>7, <2>1, <2>2
  <2>4. PICK r \in DOMAIN ms : ms[r].term = m.term
    BY <1>7, <1>8, <1>9, <2>3, FirstTriedProposed
  <2> QED
    BY <2>3, <2>4
<1> QED
  BY <1>10, <1>11, <1>12 DEF Proposed

\* A filter by the domain keeps matches apart, and those of the domain and of none.
LEMMA FilterRight ==
  ASSUME request.domain \in Domains \cup {"none"}, NEW S, NEW ms \in Seq(S), Told(ms)
  PROVE  /\ FilterByContext(ms) \in Seq(S) /\ Told(FilterByContext(ms))
         /\ \A i \in DOMAIN ms : request.domain = "none" \/ ms[i].term.domain \in {"none", request.domain} =>
              Has(FilterByContext(ms), ms[i])
<1>1. CASE request.domain = "none"
  BY <1>1 DEF FilterByContext, Has
<1>2. CASE request.domain # "none"
  <2>1. PICK n \in Nat : n = Len(ms) /\ DOMAIN ms = 1 .. n
    OBVIOUS
  <2>2. PICK own, other : /\ own = {i \in DOMAIN ms : ms[i].term.domain = request.domain}
                          /\ other = {i \in DOMAIN ms : ms[i].term.domain = "none"}
    OBVIOUS
  <2>3. own \cap other = {}
    BY <1>2, <2>2
  <2>4. PICK u \in Seq(S) : u = Keeping(ms, own) /\ \E g : Picks(u, ms, own, g)
    BY KeepingPicks
  <2>5. PICK v \in Seq(S) : v = Keeping(ms, other) /\ \E g : Picks(v, ms, other, g)
    BY KeepingPicks
  <2>6. PICK g : Picks(u, ms, own, g)
    BY <2>4
  <2>7. PICK h : Picks(v, ms, other, h)
    BY <2>5
  <2>8. PICK a \in Nat, b \in Nat : a = Len(u) /\ b = Len(v) /\ DOMAIN u = 1 .. a /\ DOMAIN v = 1 .. b
    OBVIOUS
  <2>9. /\ \A k \in 1 .. a : g[k] \in 1 .. n /\ g[k] \in own /\ u[k] = ms[g[k]]
        /\ \A k, l \in 1 .. a : k < l => g[k] < g[l]
        /\ \A i \in 1 .. n : i \in own => \E k \in 1 .. a : g[k] = i
    BY <2>1, <2>6, <2>8 DEF Picks
  <2>10. /\ \A k \in 1 .. b : h[k] \in 1 .. n /\ h[k] \in other /\ v[k] = ms[h[k]]
         /\ \A k, l \in 1 .. b : k < l => h[k] < h[l]
         /\ \A i \in 1 .. n : i \in other => \E k \in 1 .. b : h[k] = i
    BY <2>1, <2>7, <2>8 DEF Picks
  <2>11. PICK w : w = u \o v
    OBVIOUS
  <2>12. w \in Seq(S) /\ DOMAIN w = 1 .. a + b
    BY <2>8, <2>11
  <2>13. \A k \in 1 .. a : w[k] = u[k]
    BY <2>8, <2>11
  <2>14. \A k \in 1 .. b : w[a + k] = v[k]
    BY <2>8, <2>11
  <2>15. w = FilterByContext(ms)
    BY <1>2, <2>2, <2>4, <2>5, <2>11 DEF FilterByContext
  <2>16. PICK at : at = [k \in 1 .. a + b |-> IF k <= a THEN g[k] ELSE h[k - a]]
    OBVIOUS
  <2>17. ASSUME NEW k \in 1 .. a + b
         PROVE  /\ at[k] \in 1 .. n /\ w[k] = ms[at[k]]
                /\ k <= a => k \in 1 .. a /\ at[k] = g[k] /\ at[k] \in own
                /\ ~ (k <= a) => k - a \in 1 .. b /\ at[k] = h[k - a] /\ at[k] \in other
    <3>1. CASE k <= a
      <4>1. k \in 1 .. a /\ at[k] = g[k]
        BY <2>16, <3>1
      <4> QED
        BY <2>9, <2>13, <3>1, <4>1
    <3>2. CASE ~ (k <= a)
      <4>1. k - a \in 1 .. b /\ a + (k - a) = k /\ at[k] = h[k - a]
        BY <2>16, <3>2
      <4>2. w[k] = v[k - a]
        BY <2>14, <4>1
      <4> QED
        BY <2>10, <3>2, <4>1, <4>2
    <3> QED
      BY <3>1, <3>2
  <2>18. ASSUME NEW k \in 1 .. a + b, NEW l \in 1 .. a + b, at[k] = at[l] PROVE k = l
    <3>1. CASE k <= a /\ l <= a
      <4>1. k \in 1 .. a /\ l \in 1 .. a /\ g[k] = g[l] /\ g[k] \in 1 .. n
        BY <2>9, <2>17, <2>18, <3>1
      <4>2. ~ (g[k] < g[l]) /\ ~ (g[l] < g[k])
        BY <4>1
      <4>3. ~ (k < l) /\ ~ (l < k)
        BY <2>9, <4>1, <4>2
      <4> QED
        BY <4>1, <4>3
    <3>2. CASE ~ (k <= a) /\ ~ (l <= a)
      <4>1. k - a \in 1 .. b /\ l - a \in 1 .. b /\ h[k - a] = h[l - a] /\ h[k - a] \in 1 .. n
        BY <2>10, <2>17, <2>18, <3>2
      <4>2. ~ (h[k - a] < h[l - a]) /\ ~ (h[l - a] < h[k - a])
        BY <4>1
      <4>3. ~ (k - a < l - a) /\ ~ (l - a < k - a)
        BY <2>10, <4>1, <4>2
      <4> QED
        BY <4>1, <4>3
    <3>3. CASE k <= a /\ ~ (l <= a)
      BY <2>3, <2>17, <2>18, <3>3
    <3>4. CASE ~ (k <= a) /\ l <= a
      BY <2>3, <2>17, <2>18, <3>4
    <3> QED
      BY <3>1, <3>2, <3>3, <3>4
  <2>19. ASSUME NEW k \in 1 .. a + b, NEW l \in 1 .. a + b, w[k].term.source = w[l].term.source PROVE k = l
    <3>1. at[k] \in DOMAIN ms /\ at[l] \in DOMAIN ms /\ ms[at[k]].term.source = ms[at[l]].term.source
      BY <2>1, <2>17, <2>19
    <3>2. at[k] = at[l]
      BY <3>1 DEF Told
    <3> QED
      BY <2>18, <3>2
  <2>20. Told(w)
    BY <2>12, <2>19 DEF Told
  <2>21. ASSUME NEW i \in DOMAIN ms, ms[i].term.domain \in {"none", request.domain} PROVE Has(w, ms[i])
    <3>1. CASE i \in own
      <4>1. PICK k \in 1 .. a : g[k] = i
        BY <2>1, <2>9, <3>1
      <4>2. k \in DOMAIN w /\ w[k] = ms[i]
        BY <2>9, <2>12, <2>13, <4>1
      <4> QED
        BY <4>2 DEF Has
    <3>2. CASE i \in other
      <4>1. PICK k \in 1 .. b : h[k] = i
        BY <2>1, <2>10, <3>2
      <4>2. a + k \in DOMAIN w /\ w[a + k] = ms[i]
        BY <2>10, <2>12, <2>14, <4>1
      <4> QED
        BY <4>2 DEF Has
    <3> QED
      BY <2>2, <2>21, <3>1, <3>2
  <2> QED
    BY <1>2, <2>12, <2>15, <2>20, <2>21
<1> QED
  BY <1>1, <1>2

\* the surest come first
Surest(ms) == \A i, j \in DOMAIN ms : i < j => ms[i].confidence >= ms[j].confidence

\* A sort by confidence leaves the matches.
LEMMA SurestFirstRight ==
  ASSUME NEW S, NEW ms \in Seq(S), \A m \in S : m.confidence \in Nat, Told(ms)
  PROVE  /\ SurestFirst(ms) \in Seq(S) /\ Told(SurestFirst(ms)) /\ Surest(SurestFirst(ms))
         /\ \A i \in DOMAIN ms : Has(SurestFirst(ms), ms[i])
<1>1. PICK n \in Nat : n = Len(ms) /\ DOMAIN ms = 1 .. n
  OBVIOUS
<1>2. PICK key : key = [i \in 1 .. n |-> -ms[i].confidence]
  OBVIOUS
<1>3. \A i \in 1 .. n : ms[i].confidence \in Nat /\ key[i] = -ms[i].confidence
  BY <1>1, <1>2
<1>4. key \in [1 .. n -> Int]
  BY <1>2, <1>3
<1>5. PICK out : out = SortedByKey(ms, key)
  OBVIOUS
<1>6. out = SurestFirst(ms)
  BY <1>1, <1>2, <1>5 DEF SurestFirst
<1>7. out \in Seq(S) /\ \E g : Sorts(out, ms, key, g)
  BY <1>1, <1>4, <1>5, SortedByKeySorts
<1>8. PICK g : Sorts(out, ms, key, g)
  BY <1>7
<1>9. /\ Len(out) = n
      /\ \A k \in 1 .. n : g[k] \in 1 .. n /\ out[k] = ms[g[k]]
      /\ \A k, l \in 1 .. n : k < l => key[g[k]] < key[g[l]] \/ (key[g[k]] = key[g[l]] /\ g[k] < g[l])
      /\ \A i \in 1 .. n : \E k \in 1 .. n : g[k] = i
  BY <1>1, <1>8 DEF Sorts
<1>10. DOMAIN out = 1 .. n
  BY <1>7, <1>9
<1>11. ASSUME NEW k \in 1 .. n, NEW l \in 1 .. n, k < l
       PROVE  out[k].confidence >= out[l].confidence /\ g[k] # g[l]
  <2>1. /\ g[k] \in 1 .. n /\ g[l] \in 1 .. n /\ out[k] = ms[g[k]] /\ out[l] = ms[g[l]]
        /\ (key[g[k]] < key[g[l]] \/ (key[g[k]] = key[g[l]] /\ g[k] < g[l]))
    BY <1>9, <1>11
  <2>2. PICK x \in Nat, y \in Nat : x = ms[g[k]].confidence /\ y = ms[g[l]].confidence
    BY <1>3, <2>1
  <2>3. key[g[k]] = -x /\ key[g[l]] = -y
    BY <1>3, <2>1, <2>2
  <2>4. -x < -y \/ (-x = -y /\ g[k] < g[l])
    BY <2>1, <2>3
  <2>5. x >= y
    BY <2>4
  <2>6. g[k] # g[l]
    BY <2>1, <2>3, <2>4
  <2> QED
    BY <2>1, <2>2, <2>5, <2>6
<1>12. Surest(out)
  BY <1>10, <1>11 DEF Surest
<1>13. ASSUME NEW k \in 1 .. n, NEW l \in 1 .. n, out[k].term.source = out[l].term.source PROVE k = l
  <2>1. g[k] \in DOMAIN ms /\ g[l] \in DOMAIN ms /\ out[k] = ms[g[k]] /\ out[l] = ms[g[l]]
    BY <1>1, <1>9
  <2>2. g[k] = g[l]
    BY <1>13, <2>1 DEF Told
  <2>3. ~ (k < l) /\ ~ (l < k)
    BY <1>11, <2>2
  <2> QED
    BY <2>3
<1>14. Told(out)
  BY <1>10, <1>13 DEF Told
<1>15. ASSUME NEW i \in DOMAIN ms PROVE Has(out, ms[i])
  BY <1>1, <1>9, <1>10 DEF Has
<1> QED
  BY <1>6, <1>7, <1>12, <1>14, <1>15

-----------------------------------------------------------------------------
(* The glossary: the invariant *)

\* the file has a term of the source
HasSource(f, source) == \E r \in DOMAIN f.entries : f.entries[r].source = source
\* Each source of the first n files has an entry, the last of the last file that has it.
ReadInto(files, n, es) ==
  \A f \in 1 .. n : files[f].state = "good" =>
    \A j \in DOMAIN files[f].entries :
      \E k \in DOMAIN es :
        /\ es[k].source = files[f].entries[j].source
        /\ (\A g \in f + 1 .. n : files[g].state = "good" => ~HasSource(files[g], es[k].source)) =>
             es[k] = LastOf(files[f].entries, es[k].source)

\* A list without empty sources.
Sourced(terms) == \A i \in DOMAIN terms : terms[i].source # <<>>

\* A file's terms are terms, each with a source.
GlossaryFiles ==
  /\ fileList \in Seq(File)
  /\ \A f \in DOMAIN fileList : Sourced(fileList[f].entries)

GlossaryTyped ==
  /\ GlossaryFiles
  /\ loaded \in 0 .. Len(fileList) /\ lookup \in {"load", "raised", "matched"}
  /\ request.domain \in Domains \cup {"none"}
  /\ Glossaried /\ Sourced(entries)

\* a term of the request's domain or of none
InDomain(t) == request.domain = "none" \/ t.domain \in {"none", request.domain}

\* What the matches are once they are found: the entries that stand in the text are among them.
Answered(ms) ==
  /\ ms \in Seq(Proposals) /\ Told(ms) /\ Surest(ms)
  /\ request.mode # "no tokens" =>
       \A i \in DOMAIN entries : Stands(entries[i]) /\ InDomain(entries[i]) =>
         \E m \in DOMAIN ms : ms[m].term = entries[i]

GlossaryInv ==
  /\ GlossaryTyped
  /\ ReadInto(fileList, loaded, entries)
  /\ IF lookup = "matched" THEN Answered(matches) ELSE matches = <<>>

\* Nothing is loaded at first.
LEMMA GlossaryStarts ==
  ASSUME GlossaryStart, GlossaryFiles, request.text \in Seq(Token),
         request.domain \in Domains \cup {"none"}
  PROVE  GlossaryInv
<1>1. loaded = 0 /\ entries = <<>> /\ compounds = <<>> /\ matches = <<>> /\ lookup = "load"
  BY DEF GlossaryStart
<1>2. <<>> \in Seq(Term) /\ DOMAIN <<>> = {} /\ 1 .. 0 = {}
  OBVIOUS
<1>3. Glossaried /\ Sourced(entries)
  BY <1>1, <1>2 DEF Glossaried, Apart, Sourced
<1>4. loaded \in 0 .. Len(fileList)
  BY <1>1 DEF GlossaryFiles
<1>5. ReadInto(fileList, loaded, entries)
  BY <1>1, <1>2 DEF ReadInto
<1> QED
  BY <1>1, <1>3, <1>4, <1>5 DEF GlossaryInv, GlossaryTyped

\* The lists of files that may be loaded are such lists.
LEMMA GlossaryFilesGiven ==
  ASSUME GlossaryInit
  PROVE  GlossaryInv
<1>1. fileList \in GlossaryLists /\ GlossaryStart
  BY DEF GlossaryInit
<1>2. request.text \in GlossaryTexts /\ request.domain \in Domains \cup {"none"}
  BY DEF GlossaryInit
<1>3. fileList \in Seq(File) /\ request.text \in Seq(Token)
  BY <1>1, <1>2, GlossaryAssumption
<1>4. ASSUME NEW f \in DOMAIN fileList PROVE Sourced(fileList[f].entries)
  <2>1. \A t \in Range(fileList[f].entries) \cup Range(fileList[f].compounds) : t.source # <<>>
    BY <1>1, GlossaryAssumption
  <2> QED
    BY <2>1 DEF Sourced, Range
<1> QED
  BY <1>1, <1>2, <1>3, <1>4, GlossaryStarts DEF GlossaryFiles

\* One more file that could be read.
LEMMA OneMoreRead ==
  ASSUME NEW files \in Seq(File), NEW n \in Nat, n < Len(files), NEW es \in Seq(Term), Apart(es),
         ReadInto(files, n, es), files[n + 1].state = "good",
         NEW out, Updated(out, es, files[n + 1].entries)
  PROVE  ReadInto(files, n + 1, out)
<1>1. PICK more \in Seq(Term) : more = files[n + 1].entries
  <2>1. n + 1 \in DOMAIN files
    OBVIOUS
  <2>2. files[n + 1] \in File
    BY <2>1
  <2> QED
    BY <2>2 DEF File
<1>2. /\ \A i \in DOMAIN es : \E k \in DOMAIN out :
           /\ out[k].source = es[i].source
           /\ (\A j \in DOMAIN more : more[j].source # es[i].source) => out[k] = es[i]
      /\ \A j \in DOMAIN more : \E k \in DOMAIN out :
           out[k].source = more[j].source /\ out[k] = LastOf(more, more[j].source)
  BY <1>1 DEF Updated
<1> DEFINE Right(f, j, k) ==
             /\ out[k].source = files[f].entries[j].source
             /\ (\A g \in f + 1 .. n + 1 : files[g].state = "good" => ~HasSource(files[g], out[k].source)) =>
                  out[k] = LastOf(files[f].entries, out[k].source)
<1>3. ASSUME NEW f \in 1 .. n + 1, files[f].state = "good", NEW j \in DOMAIN files[f].entries
      PROVE  \E k \in DOMAIN out : Right(f, j, k)
  <2>1. CASE f = n + 1
    <3>1. j \in DOMAIN more /\ files[f].entries = more
      BY <1>1, <1>3, <2>1
    <3>2. PICK k \in DOMAIN out : out[k].source = more[j].source /\ out[k] = LastOf(more, more[j].source)
      BY <1>2, <3>1
    <3> QED
      BY <3>1, <3>2
  <2>2. CASE f # n + 1
    <3>1. f \in 1 .. n
      BY <2>2
    <3>2. PICK i \in DOMAIN es :
            /\ es[i].source = files[f].entries[j].source
            /\ (\A g \in f + 1 .. n : files[g].state = "good" => ~HasSource(files[g], es[i].source)) =>
                 es[i] = LastOf(files[f].entries, es[i].source)
      BY <1>3, <3>1 DEF ReadInto
    <3>3. PICK k \in DOMAIN out :
            /\ out[k].source = es[i].source
            /\ (\A r \in DOMAIN more : more[r].source # es[i].source) => out[k] = es[i]
      BY <1>2, <3>2
    <3>4. ASSUME \A g \in f + 1 .. n + 1 : files[g].state = "good" => ~HasSource(files[g], out[k].source)
          PROVE  out[k] = LastOf(files[f].entries, out[k].source)
      <4>1. n + 1 \in f + 1 .. n + 1
        BY <3>1
      <4>2. ~HasSource(files[n + 1], out[k].source)
        BY <3>4, <4>1
      <4>3. out[k] = es[i]
        BY <1>1, <3>3, <4>2 DEF HasSource
      <4>4. ASSUME NEW g \in f + 1 .. n PROVE g \in f + 1 .. n + 1
        BY <3>1
      <4>5. es[i] = LastOf(files[f].entries, es[i].source)
        BY <3>2, <3>3, <3>4, <4>4
      <4> QED
        BY <4>3, <4>5
    <3> QED
      BY <3>2, <3>3, <3>4
  <2> QED
    BY <2>1, <2>2
<1> QED
  BY <1>3 DEF ReadInto

\* One more file that could not be read.
LEMMA OneMorePassed ==
  ASSUME NEW files, NEW n \in Nat, NEW es, ReadInto(files, n, es), files[n + 1].state # "good"
  PROVE  ReadInto(files, n + 1, es)
<1>1. ASSUME NEW f \in 1 .. n + 1, files[f].state = "good", NEW j \in DOMAIN files[f].entries
      PROVE  \E k \in DOMAIN es :
               /\ es[k].source = files[f].entries[j].source
               /\ (\A g \in f + 1 .. n + 1 : files[g].state = "good" => ~HasSource(files[g], es[k].source)) =>
                    es[k] = LastOf(files[f].entries, es[k].source)
  <2>1. f \in 1 .. n
    BY <1>1
  <2>2. PICK k \in DOMAIN es :
          /\ es[k].source = files[f].entries[j].source
          /\ (\A g \in f + 1 .. n : files[g].state = "good" => ~HasSource(files[g], es[k].source)) =>
               es[k] = LastOf(files[f].entries, es[k].source)
    BY <1>1, <2>1 DEF ReadInto
  <2>3. ASSUME NEW g \in f + 1 .. n PROVE g \in f + 1 .. n + 1
    BY <2>1
  <2> QED
    BY <2>2, <2>3
<1> QED
  BY <1>1 DEF ReadInto

\* LoadFile.
LEMMA LoadFileKept ==
  ASSUME GlossaryInv, LoadFile
  PROVE  GlossaryInv'
<1>1. PICK files \in Seq(File), n \in Nat : files = fileList /\ n = loaded /\ n < Len(files)
  BY DEF GlossaryInv, GlossaryTyped, GlossaryFiles, LoadFile
<1>2. PICK es \in Seq(Term), cs \in Seq(Term) : es = entries /\ cs = compounds
  BY DEF GlossaryInv, GlossaryTyped, Glossaried
<1>3. PICK f \in File : f = files[n + 1] /\ n + 1 \in DOMAIN files
  <2>1. n + 1 \in DOMAIN files
    BY <1>1
  <2> QED
    BY <2>1
<1>4. f.entries \in Seq(Term) /\ f.compounds \in Seq(Term)
  BY DEF File
<1>5. Apart(es) /\ Sourced(es) /\ ReadInto(files, n, es) /\ Sourced(f.entries)
  BY <1>1, <1>2, <1>3 DEF GlossaryInv, GlossaryTyped, Glossaried, GlossaryFiles
<1>6. /\ loaded' = n + 1 /\ fileList' = files /\ request' = request /\ matches' = matches
      /\ lookup = "load" /\ lookup' = lookup
  BY <1>1 DEF LoadFile
<1>7. /\ entries' \in Seq(Term) /\ compounds' \in Seq(Term) /\ Apart(entries') /\ Sourced(entries')
      /\ ReadInto(files, n + 1, entries')
  <2>1. CASE f.state = "good"
    <3>1. PICK out : out = Merged(es, f.entries)
      OBVIOUS
    <3>2. entries' = out /\ compounds' = Merged(cs, f.compounds)
      BY <1>1, <1>2, <1>3, <2>1, <3>1 DEF LoadFile
    <3>3. out \in Seq(Term) /\ Updated(out, es, f.entries)
      BY <1>4, <1>5, <3>1, MergedUpdates
    <3>4. Merged(cs, f.compounds) \in Seq(Term)
      <4>1. PICK all, merged : all = cs \o f.compounds /\ merged = Merged(cs, f.compounds)
        OBVIOUS
      <4>2. merged \in Seq(Term)
        BY <1>4, <4>1, MergedRight
      <4> QED
        BY <4>1, <4>2
    <3>5. ReadInto(files, n + 1, out)
      BY <1>1, <1>3, <1>5, <2>1, <3>3, OneMoreRead
    <3>6. ASSUME NEW k \in DOMAIN out PROVE out[k].source # <<>>
      <4>1. out[k] \in Range(es) \cup Range(f.entries)
        BY <3>3 DEF Updated, Range
      <4> QED
        BY <1>5, <4>1 DEF Sourced, Range
    <3> QED
      BY <3>2, <3>3, <3>4, <3>5, <3>6 DEF Updated, Sourced
  <2>2. CASE f.state # "good"
    <3>1. entries' = es /\ compounds' = cs
      BY <1>1, <1>2, <1>3, <2>2 DEF LoadFile
    <3>2. ReadInto(files, n + 1, es)
      BY <1>3, <1>5, <2>2, OneMorePassed
    <3> QED
      BY <1>2, <1>5, <3>1, <3>2
  <2> QED
    BY <2>1, <2>2
<1>8. loaded' \in 0 .. Len(files)
  BY <1>1, <1>6
<1>9. GlossaryTyped'
  BY <1>1, <1>6, <1>7, <1>8 DEF GlossaryInv, GlossaryTyped, Glossaried, GlossaryFiles
<1>10. matches' = <<>>
  BY <1>6 DEF GlossaryInv
<1> QED
  BY <1>6, <1>7, <1>9, <1>10 DEF GlossaryInv

\* In a text of no letters no term stands.
LEMMA NothingStands ==
  ASSUME Glossaried, Sourced(entries), Raw = <<>>, NEW i \in DOMAIN entries
  PROVE  ~Stands(entries[i])
<1>1. PICK t \in Term : t = entries[i] /\ t.source # <<>>
  BY DEF Glossaried, Sourced
<1>2. PICK letters : letters = STRING
  OBVIOUS
<1>3. t.source \in Seq(letters)
  BY <1>2 DEF Term
<1>4. Len(t.source) \in Nat /\ Len(t.source) # 0
  BY <1>1, <1>3
<1>5. ~Within(t.source, Raw)
  <2>1. Len(Raw) = 0
    OBVIOUS
  <2>2. 1 .. Len(Raw) + 1 - Len(t.source) = {}
    BY <1>4, <2>1
  <2> QED
    BY <2>2 DEF Within
<1>6. ASSUME NEW k \in DOMAIN request.text, request.text[k].word = t.source PROVE FALSE
  BY <1>5, <1>6, TokenWithin DEF Glossaried
<1> QED
  BY <1>1, <1>5, <1>6 DEF Stands

\* The matches of a request.
LEMMA MatchAnswers ==
  ASSUME GlossaryTyped
  PROVE  Answered(IF Raw = <<>> THEN <<>>
                  ELSE SurestFirst(FilterByContext(IF request.mode = "plain" THEN MatchWithoutPos
                                                   ELSE MatchWithPos(Tokens))))
<1>1. Glossaried /\ Sourced(entries) /\ request.domain \in Domains \cup {"none"}
  BY DEF GlossaryTyped
<1>2. CASE Raw = <<>>
  <2>1. <<>> \in Seq(Proposals) /\ DOMAIN <<>> = {}
    OBVIOUS
  <2>2. Answered(<<>>)
    BY <1>1, <1>2, <2>1, NothingStands DEF Answered, Told, Surest
  <2> QED
    BY <1>2, <2>2
<1>3. CASE Raw # <<>>
  <2>1. PICK ms : ms = IF request.mode = "plain" THEN MatchWithoutPos ELSE MatchWithPos(Tokens)
    OBVIOUS
  <2>2. Tokens = IF request.mode = "no tokens" THEN <<>> ELSE request.text
    BY DEF Tokens
  <2>3. ms \in Seq(Proposals) /\ Told(ms) /\ (request.mode # "no tokens" => Proposed(ms))
    <3>1. CASE request.mode = "plain"
      BY <1>1, <2>1, <3>1, WithoutPosRight
    <3>2. CASE request.mode # "plain"
      BY <1>1, <2>1, <2>2, <3>2, WithPosRight
    <3> QED
      BY <3>1, <3>2
  <2>4. PICK kept : kept = FilterByContext(ms)
    OBVIOUS
  <2>5. /\ kept \in Seq(Proposals) /\ Told(kept)
        /\ \A i \in DOMAIN ms : InDomain(ms[i].term) => Has(kept, ms[i])
    BY <1>1, <2>3, <2>4, FilterRight DEF InDomain
  <2>6. PICK out : out = SurestFirst(kept)
    OBVIOUS
  <2>7. \A m \in Proposals : m.confidence \in Nat
    BY ProposalRight
  <2>8. /\ out \in Seq(Proposals) /\ Told(out) /\ Surest(out)
        /\ \A i \in DOMAIN kept : Has(out, kept[i])
    BY <2>5, <2>6, <2>7, SurestFirstRight
  <2>9. ASSUME request.mode # "no tokens", NEW i \in DOMAIN entries, Stands(entries[i]), InDomain(entries[i])
        PROVE  \E m \in DOMAIN out : out[m].term = entries[i]
    <3>1. PICK c \in DOMAIN ms : ms[c].term = entries[i]
      BY <2>3, <2>9 DEF Proposed
    <3>2. PICK k \in DOMAIN kept : kept[k] = ms[c]
      BY <2>5, <2>9, <3>1 DEF Has
    <3>3. PICK m \in DOMAIN out : out[m] = kept[k]
      BY <2>8 DEF Has
    <3> QED
      BY <3>1, <3>2, <3>3
  <2>10. Answered(out)
    BY <2>8, <2>9 DEF Answered
  <2> QED
    BY <1>3, <2>1, <2>4, <2>6, <2>10
<1> QED
  BY <1>2, <1>3

\* Match.
LEMMA MatchKept ==
  ASSUME GlossaryInv, Match
  PROVE  GlossaryInv'
<1>1. PICK out : out = IF Raw = <<>> THEN <<>>
                       ELSE SurestFirst(FilterByContext(IF request.mode = "plain" THEN MatchWithoutPos
                                                        ELSE MatchWithPos(Tokens)))
  OBVIOUS
<1>2. Answered(out)
  BY <1>1, MatchAnswers DEF GlossaryInv
<1>3. /\ matches' = out /\ lookup' = "matched"
      /\ fileList' = fileList /\ loaded' = loaded /\ entries' = entries /\ compounds' = compounds
      /\ request' = request
  BY <1>1 DEF Match
<1>4. GlossaryTyped'
  BY <1>3 DEF GlossaryInv, GlossaryTyped, Glossaried, GlossaryFiles
<1>5. Raw' = Raw
  BY <1>3 DEF Raw
<1>6. Proposals' = Proposals
  BY <1>3, <1>5 DEF Proposals, Terms
<1>7. /\ matches' \in Seq(Proposals') /\ Told(matches') /\ Surest(matches')
  BY <1>2, <1>3, <1>6 DEF Answered
<1>8. ASSUME request'.mode # "no tokens", NEW i \in DOMAIN entries', Stands(entries[i])', InDomain(entries[i])'
      PROVE  \E m \in DOMAIN matches' : matches'[m].term = entries'[i]
  <2>1. Stands(entries[i]) /\ InDomain(entries[i]) /\ i \in DOMAIN entries /\ request.mode # "no tokens"
    BY <1>3, <1>5, <1>8 DEF Stands, InDomain
  <2> QED
    BY <1>2, <1>3, <2>1 DEF Answered
<1>9. Answered(matches)'
  BY <1>7, <1>8 DEF Answered
<1>10. ReadInto(fileList, loaded, entries)'
  BY <1>3 DEF GlossaryInv
<1> QED
  BY <1>3, <1>4, <1>9, <1>10 DEF GlossaryInv

\* A step that leaves the files, the glossary and the request.
LEMMA GlossaryRests ==
  ASSUME GlossaryInv, UNCHANGED <<fileList, entries, compounds, request, matches, loaded>>,
         lookup' \in {"load", "raised", "matched"}, lookup' = "matched" <=> lookup = "matched"
  PROVE  GlossaryInv'
<1>1. GlossaryTyped'
  BY DEF GlossaryInv, GlossaryTyped, Glossaried, GlossaryFiles
<1>2. Raw' = Raw
  BY DEF Raw
<1>3. Proposals' = Proposals
  BY <1>2 DEF Proposals, Terms
<1>4. Answered(matches) => Answered(matches)'
  <2>1. SUFFICES ASSUME Answered(matches) PROVE Answered(matches)'
    OBVIOUS
  <2>2. /\ matches' \in Seq(Proposals') /\ Told(matches') /\ Surest(matches')
    BY <1>3, <2>1 DEF Answered
  <2>3. ASSUME request'.mode # "no tokens", NEW i \in DOMAIN entries', Stands(entries[i])', InDomain(entries[i])'
        PROVE  \E m \in DOMAIN matches' : matches'[m].term = entries'[i]
    <3>1. Stands(entries[i]) /\ InDomain(entries[i]) /\ i \in DOMAIN entries /\ request.mode # "no tokens"
      BY <1>2, <2>3 DEF Stands, InDomain
    <3> QED
      BY <2>1, <3>1 DEF Answered
  <2> QED
    BY <2>2, <2>3 DEF Answered
<1>5. ReadInto(fileList, loaded, entries)'
  BY DEF GlossaryInv
<1> QED
  BY <1>1, <1>4, <1>5 DEF GlossaryInv

\* Every step of the glossary keeps the invariant.
LEMMA GlossaryNextKeeps ==
  ASSUME GlossaryInv, [GlossaryNext]_glossaryVars
  PROVE  GlossaryInv'
<1>1. CASE LoadFile
  BY <1>1, LoadFileKept
<1>2. CASE LoadRaises
  BY <1>2, GlossaryRests DEF LoadRaises
<1>3. CASE Match
  BY <1>3, MatchKept
<1>4. CASE UNCHANGED glossaryVars
  BY <1>4, GlossaryRests DEF glossaryVars, GlossaryInv, GlossaryTyped
<1> QED
  BY <1>1, <1>2, <1>3, <1>4 DEF GlossaryNext

\* What the invariant says of the matches' types.
LEMMA GlossaryInvTypes ==
  ASSUME GlossaryInv
  PROVE  GlossaryTypeOK
<1>1. loaded \in 0 .. Len(fileList) /\ lookup \in {"load", "raised", "matched"}
  BY DEF GlossaryInv, GlossaryTyped
<1>2. Range(entries \o compounds) = Terms
  BY RangeConcatenation DEF GlossaryInv, GlossaryTyped, Glossaried, Terms
<1>3. ASSUME NEW i \in DOMAIN matches PROVE matches[i] \in Proposals
  <2>1. matches # <<>>
    OBVIOUS
  <2>2. matches \in Seq(Proposals)
    BY <2>1 DEF GlossaryInv, Answered
  <2> QED
    BY <2>2
<1> QED
  BY <1>1, <1>2, <1>3, ProposalRight DEF GlossaryTypeOK

\* What it says of the last file, of the order and of the terms found.
LEMMA GlossaryInvApplied ==
  ASSUME GlossaryInv
  PROVE  GlossaryApplied
<1>1. ASSUME NEW f \in 1 .. loaded, fileList[f].state = "good", NEW t \in Range(fileList[f].entries)
      PROVE  /\ Cardinality(IndexOf(entries, t.source)) = 1
             /\ (\A g \in f + 1 .. loaded : fileList[g].state = "good" =>
                   IndexOf(fileList[g].entries, t.source) = {}) =>
                EntryOf(t.source) = LastOf(fileList[f].entries, t.source)
  <2>1. PICK j \in DOMAIN fileList[f].entries : t = fileList[f].entries[j]
    BY DEF Range
  <2>2. PICK k \in DOMAIN entries :
          /\ entries[k].source = t.source
          /\ (\A g \in f + 1 .. loaded : fileList[g].state = "good" => ~HasSource(fileList[g], entries[k].source)) =>
               entries[k] = LastOf(fileList[f].entries, entries[k].source)
    BY <1>1, <2>1 DEF GlossaryInv, ReadInto
  <2>3. Glossaried
    BY DEF GlossaryInv, GlossaryTyped
  <2>4. IndexOf(entries, t.source) = {k} /\ EntryOf(t.source) = entries[k]
    BY <2>2, <2>3, EntriesFound DEF IndexOf, Glossaried, Apart
  <2>5. Cardinality({k}) = 1
    BY FS_Singleton
  <2>6. \A g \in f + 1 .. loaded : IndexOf(fileList[g].entries, t.source) = {} => ~HasSource(fileList[g], t.source)
    BY DEF IndexOf, HasSource
  <2> QED
    BY <2>2, <2>4, <2>5, <2>6
<1>2. LaterFileWins
  BY <1>1 DEF LaterFileWins
<1>3. Told(matches) /\ Surest(matches)
  <2>1. DOMAIN <<>> = {}
    OBVIOUS
  <2> QED
    BY <2>1 DEF GlossaryInv, Answered, Told, Surest
<1>4. DOMAIN matches \subseteq Nat
  <2>1. CASE lookup = "matched"
    <3>1. matches \in Seq(Proposals)
      BY <2>1 DEF GlossaryInv, Answered
    <3> QED
      BY <3>1
  <2>2. CASE lookup # "matched"
    BY <2>2 DEF GlossaryInv
  <2> QED
    BY <2>1, <2>2
<1>5. EachTermOnce
  <2>1. ASSUME NEW i \in DOMAIN matches, NEW j \in DOMAIN matches, i < j
        PROVE  matches[i].term.source # matches[j].term.source /\ matches[i].confidence >= matches[j].confidence
    <3>1. i # j
      BY <1>4, <2>1
    <3> QED
      BY <1>3, <2>1, <3>1 DEF Told, Surest
  <2> QED
    BY <2>1 DEF EachTermOnce
<1>6. LiteralTermsFound
  <2>1. SUFFICES ASSUME lookup = "matched", request.mode # "no tokens", NEW i \in DOMAIN entries,
                        IF request.mode = "plain" THEN Within(entries[i].source, Raw)
                        ELSE \E k \in DOMAIN request.text : /\ request.text[k].word = entries[i].source
                                                            /\ ~request.text[k].function,
                        request.domain = "none" \/ entries[i].domain \in {"none", request.domain}
                 PROVE  \E m \in DOMAIN matches : matches[m].term = entries[i]
    BY DEF LiteralTermsFound
  <2>2. Stands(entries[i]) /\ InDomain(entries[i])
    BY <2>1 DEF Stands, InDomain
  <2> QED
    BY <2>1, <2>2 DEF GlossaryInv, Answered
<1> QED
  BY <1>2, <1>5, <1>6 DEF GlossaryApplied

\* GlossaryTypeOK for any files and texts: a match is of a term of the glossary, and only one
\* that stands in the text is certain.
THEOREM GlossaryTypeCorrect == GlossarySpec => []GlossaryTypeOK
<1>1. GlossaryInit => GlossaryInv
  BY GlossaryFilesGiven
<1>2. GlossaryInv /\ [GlossaryNext]_glossaryVars => GlossaryInv'
  BY GlossaryNextKeeps
<1>3. GlossaryInv => GlossaryTypeOK
  BY GlossaryInvTypes
<1> QED
  BY <1>1, <1>2, <1>3, PTL DEF GlossarySpec

\* GlossaryApplied for any files, texts, domains and likeness of words: the last readable file's
\* terms are used (load_glossary_from_files), each proposed once and the surest first, and a term
\* that stands in the text is proposed (match).
THEOREM TermsApplied == GlossarySpec => []GlossaryApplied
<1>1. GlossaryInit => GlossaryInv
  BY GlossaryFilesGiven
<1>2. GlossaryInv /\ [GlossaryNext]_glossaryVars => GlossaryInv'
  BY GlossaryNextKeeps
<1>3. GlossaryInv => GlossaryApplied
  BY GlossaryInvApplied
<1> QED
  BY <1>1, <1>2, <1>3, PTL DEF GlossarySpec

-----------------------------------------------------------------------------
(* The parts beside each other *)

\* Whichever part moves, the others rest at their start.
LEMMA PartsStart ==
  ASSUME DocumentsInit
  PROVE  DocIInv /\ ReviewInv /\ GlossaryInv
<1>1. DocInit \/ DocumentRest => DocIInv
  <2>1. DocInit => DocIInv
    BY DocInvStarts, FilesAreFiles DEF DocInit
  <2>2. ASSUME DocumentRest PROVE DocIInv
    <3>1. /\ file = [format |-> "pdf", parts |-> <<>>, heads |-> <<>>]
          /\ config = [merge |-> FALSE, includeEmpty |-> FALSE, headers |-> FALSE, tables |-> TRUE,
                       skipFormulas |-> TRUE]
      BY <2>2 DEF DocumentRest, F, C
    <3>2. <<>> \in Seq(Seq(Item)) /\ <<>> \in Seq(Item)
      OBVIOUS
    <3>3. file.format = "pdf" /\ file.parts = <<>> /\ file.heads = <<>>
      BY <3>1
    <3>4. config \in ParserConfig
      BY <3>1 DEF ParserConfig
    <3>5. IsFile
      BY <3>2, <3>3, <3>4 DEF IsFile, Formats
    <3> QED
      BY <2>2, <3>5, DocInvStarts DEF DocumentRest
  <2> QED
    BY <2>1, <2>2
<1>2. ReviewInit \/ ReviewRest => ReviewInv
  BY RestingDeployment, InvStarts DEF ReviewInit, ReviewRest
<1>3. GlossaryInit \/ GlossaryRest => GlossaryInv
  <2>1. ASSUME GlossaryRest PROVE GlossaryInv
    <3>1. request = [text |-> <<>>, domain |-> "none", mode |-> "plain"] /\ fileList = <<>>
      BY <2>1 DEF GlossaryRest
    <3>2. <<>> \in Seq(File) /\ <<>> \in Seq(Token) /\ DOMAIN <<>> = {}
      OBVIOUS
    <3>3. GlossaryFiles
      BY <3>1, <3>2 DEF GlossaryFiles
    <3>4. request.text \in Seq(Token) /\ request.domain \in Domains \cup {"none"}
      BY <3>1, <3>2
    <3> QED
      BY <2>1, <3>3, <3>4, GlossaryStarts DEF GlossaryRest
  <2> QED
    BY <2>1, GlossaryFilesGiven
<1> QED
  BY <1>1, <1>2, <1>3 DEF DocumentsInit

\* DocumentsTypeOK: texts, segments, answers and matches keep their types in whichever part of
\* the worker a document, its review or the glossary is.
THEOREM WorkerDocumentsTyped == DocumentsSpec => []DocumentsTypeOK
<1>1. DocumentsInit => DocIInv /\ ReviewInv /\ GlossaryInv
  BY PartsStart
<1>2. [DocumentsNext]_documentVars =>
        [DocNext]_docVars /\ [ReviewNext]_reviewVars /\ [GlossaryNext]_glossaryVars
  BY DEF DocumentsNext, documentVars
<1>3. DocIInv /\ [DocNext]_docVars => DocIInv'
  BY DocNextKeeps
<1>4. ReviewInv /\ [ReviewNext]_reviewVars => ReviewInv'
  BY ReviewNextKeeps
<1>5. GlossaryInv /\ [GlossaryNext]_glossaryVars => GlossaryInv'
  BY GlossaryNextKeeps
<1>6. DocIInv /\ ReviewInv /\ GlossaryInv => DocumentsTypeOK
  BY InvTypes, ReviewInvTypes, GlossaryInvTypes DEF DocumentsTypeOK
<1> QED
  BY <1>1, <1>2, <1>3, <1>4, <1>5, <1>6, PTL DEF DocumentsSpec
=============================================================================
