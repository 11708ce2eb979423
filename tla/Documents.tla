------------------------------- MODULE Documents -------------------------------
(***************************************************************************)
(* A file on its way through the document parsers of the worker            *)
(* (parsers/*.py): parsed into segments, handed to a job (SegmentExtractor *)
(* of main.py) or translated (`document` of the command line, review/cli.py*)
(* and cli_helpers.py) and rendered over the file itself.                  *)
(*                                                                         *)
(* An item is what a format keeps a text in: a paragraph of the body or of *)
(* a table cell of a DOCX file of one section, a cell of a sheet, a shape  *)
(* of a slide, a line of a PDF page.  A text is known by the place it came *)
(* from, <<part, index>>.  Speaker notes, text boxes in a DOCX, fonts and  *)
(* the type of a cell's value are left out.                                *)
(***************************************************************************)
EXTENDS Integers, Sequences, FiniteSets, SequencesExt, SequenceParts

CONSTANTS
  DocumentFiles, \* the files that may come
  ParserConfigs, \* configurations of a parser
  GridSize       \* positions of cells in DOCX tables, column letter and row, row by row

Item == [text   : {"none", "jp", "latin", "formula", "number", "zero"},
         long   : BOOLEAN,    \* of a hundred characters or more
         within : {"none", "group", "table"}, \* a group shape or a table around it, below
         at     : Nat \ {0},  \* position of a shape; distance of a line from the top
         grid   : (SUBSET (1 .. GridSize)) \ {{}}] \* positions its table cell takes up
Formats == {"docx", "xlsx", "pptx", "pdf"}
ParserConfig == [merge : BOOLEAN, includeEmpty : BOOLEAN, headers : BOOLEAN, tables : BOOLEAN,
                 skipFormulas : BOOLEAN]

\* parts: a body and tables (DOCX), sheets, slides or pages; heads: headers and footers.
\* Within a table is what stands in a table of a slide or in a table inside a cell.
ASSUME DocumentAssumption ==
  /\ GridSize \in Nat
  /\ \A f \in DocumentFiles :
       /\ DOMAIN f = {"format", "parts", "heads"} /\ f.format \in Formats
       /\ f.parts \in Seq(Seq(Item)) /\ f.heads \in Seq(Item)
       /\ IF f.format = "docx" THEN f.parts # <<>> ELSE f.heads = <<>>
       /\ \A p \in DOMAIN f.parts : \A i \in DOMAIN f.parts[p] :
            f.parts[p][i].within = "table" => f.format = "pptx" \/ (f.format = "docx" /\ p > 1)
  /\ ParserConfigs \subseteq ParserConfig

VARIABLES
  file,     \* the file
  config,   \* the configuration of the parser
  phase,    \* what has been done with it
  parsed,   \* segments of the ParsedDocument
  todo,     \* numbers of the segments that are still to be translated
  queued,   \* the segments SegmentExtractor hands to the job
  rendered  \* the parts of the output, what each item shows

docVars == <<file, config, phase, parsed, todo, queued, rendered>>

Head0 == 0  \* the part number of headers and footers
ItemAt(place) == IF place[1] = Head0 THEN file.heads[place[2]] ELSE file.parts[place[1]][place[2]]
TextAt(place) == ItemAt(place).text
PlacesOf(p)   == [i \in DOMAIN file.parts[p] |-> <<p, i>>]
\* inside a table that the parsers do not look into
Hidden(place)   == ItemAt(place).within = "table"
HasText(places) ==
  Keeping(places, {i \in DOMAIN places : TextAt(places[i]) # "none" /\ ~Hidden(places[i])})
OwnText(place)  == IF TextAt(place) = "none" THEN <<>> ELSE <<place>>

Segment(id, type, part, key, texts) ==
  [id |-> id, type |-> type, part |-> part, key |-> key, texts |-> texts, state |-> "source"]
WithTexts(segs) == Keeping(segs, {s \in DOMAIN segs : segs[s].texts # <<>>})

(***************************************************************************)
(* DOCX                                                                    *)
(***************************************************************************)
\* row.cells has a merged cell at each position it takes up, with all of its paragraphs
CellParagraphs(p, c) ==
  Keeping(PlacesOf(p), {i \in DOMAIN file.parts[p] : c \in file.parts[p][i].grid
                                                     /\ ~Hidden(<<p, i>>)})

KeptNonEmpty(infos) == Keeping(infos, {k \in DOMAIN infos : TextAt(infos[k].place) # "none"})
\* _extract_paragraphs_info skips empty paragraphs ...
Kept(infos) ==
  Keeping(infos, {k \in DOMAIN infos : config.includeEmpty \/ TextAt(infos[k].place) # "none"})

\* ... and goes on counting in the tables; ref is the column letter with the row
InfosAt(places, ref) == [k \in DOMAIN places |-> [place |-> places[k], ref |-> ref]]
BodyInfos     == InfosAt(PlacesOf(1), 0)
TableInfos(p) == FlattenSeq([c \in 1 .. GridSize |-> InfosAt(CellParagraphs(p, c), c)])
PartInfos(p)  == IF p = 1 THEN BodyInfos ELSE IF config.tables THEN TableInfos(p) ELSE <<>>
ParagraphInfos == Kept(FlattenSeq([p \in DOMAIN file.parts |-> PartInfos(p)]))
InTable(info) == info.ref > 0

NumberedInEachPart(infos) ==
  [k \in DOMAIN infos |->
     Segment(<<"paragraph", k - Cardinality({j \in 1 .. k : infos[j].place[1] < infos[k].place[1]})>>,
             IF InTable(infos[k]) THEN "table" ELSE "paragraph", 1, k, OwnText(infos[k].place))]
\* a segment for each paragraph, numbered from 1 through the tables
Numbered(infos) ==
  [k \in DOMAIN infos |->
     Segment(<<"paragraph", k>>, IF InTable(infos[k]) THEN "table" ELSE "paragraph", 1, k,
             OwnText(infos[k].place))]

\* merge_paragraphs: all of the body is one group, a paragraph of a cell a segment named
\* for the cell
Grouped(infos) ==
  LET body  == Keeping(infos, {k \in DOMAIN infos : ~InTable(infos[k])})
      cells == Keeping(infos, {k \in DOMAIN infos : InTable(infos[k])})
  IN  <<Segment(<<"group", 1>>, "paragraph", 1, 1,
                HasText([k \in DOMAIN body |-> body[k].place]))>>
      \o [k \in DOMAIN cells |->
            Segment(<<"table", cells[k].ref>>, "table", 1, 0, OwnText(cells[k].place))]

\* _extract_headers_segments and _extract_footers_segments
HeaderSegments ==
  IF config.headers
    THEN [i \in DOMAIN file.heads |->
            Segment(<<"header", i>>, "header", Head0, i, OwnText(<<Head0, i>>))]
    ELSE <<>>

ParagraphSegmentsOfAll ==
  IF config.merge THEN WithTexts(Grouped(ParagraphInfos)) ELSE Numbered(ParagraphInfos)
ParagraphSegments ==
  WithTexts(IF config.merge THEN Grouped(ParagraphInfos) ELSE Numbered(ParagraphInfos))
DocxSegments == ParagraphSegments \o WithTexts(HeaderSegments)

\* what an item shows in the output: the text it had, or that of a segment
Original(p, i) == [texts |-> OwnText(<<p, i>>), state |-> "source"]
Shown(seg)     == [texts |-> seg.texts, state |-> seg.state]

\* render looks for the cells under names the parser never gives ("table_1_A1") and
\* never for headers, counts the empty paragraphs of the template and leaves one alone
\* whose translation is empty
RenderDocx ==
  [p \in DOMAIN file.parts |-> [i \in DOMAIN file.parts[p] |->
     LET here == {s \in DOMAIN parsed : /\ parsed[s].type = "paragraph"
                                        /\ p = 1 /\ parsed[s].key = i}
         first == CHOOSE s \in here : \A r \in here : s <= r
     IN  IF here = {} \/ parsed[first].state = "empty" THEN Original(p, i)
                                                      ELSE Shown(parsed[first])]]

(***************************************************************************)
(* XLSX                                                                    *)
(***************************************************************************)
\* _extract_cells
SheetCells(p) ==
  Keeping(PlacesOf(p), {i \in DOMAIN file.parts[p] :
                          /\ TextAt(<<p, i>>) # "none"
                          /\ TextAt(<<p, i>>) = "formula" => ~config.skipFormulas})
\* has_data asks for a value that is true: a sheet of zeros has none
HasData(p) == \E i \in DOMAIN file.parts[p] : TextAt(<<p, i>>) \notin {"none", "zero"}

CellSegmentsByOrder(p) ==
  [k \in DOMAIN SheetCells(p) |->
     Segment(<<"cell", p, k>>, "cell", p, k, <<SheetCells(p)[k]>>)]
CellSegments(p) ==
  [k \in DOMAIN SheetCells(p) |-> LET place == SheetCells(p)[k] IN
     Segment(<<"cell", p, place[2]>>, "cell", p, place[2], <<place>>)]
XlsxSegments ==
  FlattenSeq([p \in DOMAIN file.parts |->
    IF config.includeEmpty \/ HasData(p) THEN CellSegments(p) ELSE <<>>])

RenderXlsx ==
  [p \in DOMAIN file.parts |-> [i \in DOMAIN file.parts[p] |->
     LET here == {s \in DOMAIN parsed : parsed[s].part = p /\ parsed[s].key = i}
     IN  IF here = {} THEN Original(p, i)
         ELSE LET s == CHOOSE s \in here : \A r \in here : r <= s IN
              Shown(parsed[s])]]

(***************************************************************************)
(* PPTX                                                                    *)
(***************************************************************************)
Inside(place) == ItemAt(place).within # "none"
TextFramesUngrouped(p) ==
  Keeping(PlacesOf(p), {i \in DOMAIN file.parts[p] : ~Inside(<<p, i>>)
                                                     /\ TextAt(<<p, i>>) # "none"})
\* _extract_text_frames, with the frames inside groups; a table has no text frame
TextFrames(p) == HasText(PlacesOf(p))

\* a frame inside a group has no position (0 here)
Position(place) == IF Inside(place) THEN 0 ELSE ItemAt(place).at

SlideSegments(p, number) ==
  IF config.merge
    THEN IF TextFrames(p) = <<>> THEN <<>>
         ELSE <<Segment(<<"slide", number>>, "slide", number, 0, TextFrames(p))>>
    ELSE [k \in DOMAIN TextFrames(p) |->
            Segment(<<"shape", number, k>>, "slide", number, Position(TextFrames(p)[k]),
                    <<TextFrames(p)[k]>>)]

\* what the slide is numbered as: its index, or only those with text counted
SlideNumberOfContent(p) == Cardinality({q \in 1 .. p : TextFrames(q) # <<>>})
SlideNumber(p) == p
PptxSegments == FlattenSeq([p \in DOMAIN file.parts |-> SlideSegments(p, SlideNumber(p))])

\* _clear_slide_text reaches no group and no table
Cleared(p, i) == IF Inside(<<p, i>>) THEN Original(p, i)
                                     ELSE [texts |-> <<>>, state |-> "source"]
\* _insert_segment_text: into the first shape at the position, or into a new box
FramesAt(p, at) == {i \in DOMAIN file.parts[p] : ~Inside(<<p, i>>) /\ file.parts[p][i].at = at}
NewBox(seg)   == seg.key = 0 \/ FramesAt(seg.part, seg.key) = {}
FrameOf(seg)  == CHOOSE i \in FramesAt(seg.part, seg.key) :
                   \A j \in FramesAt(seg.part, seg.key) : i <= j
SlideOf(p)     == {s \in DOMAIN parsed : parsed[s].part = p}
Inserted(p, i) == {s \in SlideOf(p) : ~NewBox(parsed[s]) /\ FrameOf(parsed[s]) = i}
Boxes(p)       == Keeping(parsed, {s \in SlideOf(p) : NewBox(parsed[s])})
\* the last segment inserted is what a shape shows; a slide without segments is left alone
RenderPptx ==
  [p \in DOMAIN file.parts |->
     IF SlideOf(p) = {} THEN [i \in DOMAIN file.parts[p] |-> Original(p, i)]
     ELSE [i \in DOMAIN file.parts[p] |->
             LET here == Inserted(p, i) IN
             IF here = {} THEN Cleared(p, i)
             ELSE Shown(parsed[CHOOSE s \in here : \A r \in here : r <= s])]
          \o [k \in DOMAIN Boxes(p) |-> Shown(Boxes(p)[k])]]

(***************************************************************************)
(* PDF                                                                     *)
(***************************************************************************)
MergeBlocksTopFirst(blocks) ==
  SortedByKey(blocks, [i \in DOMAIN blocks |-> ItemAt(blocks[i]).at])
\* _merge_blocks_into_text: the line furthest down the page comes first
MergeBlocks(blocks) == SortedByKey(blocks, [i \in DOMAIN blocks |-> -ItemAt(blocks[i]).at])

PageText(p) == LET blocks == HasText(PlacesOf(p)) IN
               IF config.merge THEN MergeBlocks(blocks) ELSE blocks
PdfSegments ==
  FlattenSeq([p \in DOMAIN file.parts |->
    IF PageText(p) = <<>> THEN <<>> ELSE <<Segment(<<"page", p>>, "page", p, p, PageText(p))>>])

\* Only callers of the parser render a PDF; `document` takes no PDF files.
\* render makes a page for each segment and sets its lines from the bottom upwards;
\* a page is its lines from the top, with none for an empty text
RenderPdf ==
  [s \in DOMAIN parsed |->
     LET texts == IF parsed[s].state = "empty" THEN <<>> ELSE parsed[s].texts IN
     [l \in DOMAIN texts |-> [texts |-> <<texts[Len(texts) + 1 - l]>>, state |-> parsed[s].state]]]

(***************************************************************************)
(* The ways of a file                                                      *)
(***************************************************************************)
ParsedSegments ==
  CASE file.format = "docx" -> DocxSegments
    [] file.format = "xlsx" -> XlsxSegments
    [] file.format = "pptx" -> PptxSegments
    [] file.format = "pdf"  -> PdfSegments

DocumentStart ==
  phase = "file" /\ parsed = <<>> /\ todo = {} /\ queued = <<>> /\ rendered = <<>>
DocInit == file \in DocumentFiles /\ config \in ParserConfigs /\ DocumentStart

\* _get_presentation_title takes the first short text of a shape of the first slide, or
\* else asks for prs.core, which no Presentation has
Title(place) == TextAt(place) # "none" /\ ~Inside(place) /\ ~ItemAt(place).long
ParserRaises ==
  /\ file.format = "pptx"
  /\ \A p \in DOMAIN file.parts : p = 1 => \A i \in DOMAIN file.parts[p] : ~Title(<<p, i>>)
ParseFails ==
  /\ phase = "file" /\ ParserRaises
  /\ phase' = "failed"
  /\ UNCHANGED <<file, config, parsed, todo, queued, rendered>>

\* `document` translates what holds a character of Japanese
NeedsTranslation(seg) == \E t \in DOMAIN seg.texts : TextAt(seg.texts[t]) = "jp"
Parse ==
  /\ phase = "file" /\ ~ParserRaises
  /\ phase' = "parsed"
  /\ parsed' = ParsedSegments
  /\ todo' = {s \in DOMAIN parsed' : NeedsTranslation(parsed'[s])}
  /\ UNCHANGED <<file, config, queued, rendered>>

\* SegmentExtractor.extract: a parser with its defaults; an exception yields no segments,
\* and cells that are numbers are left out
DefaultConfig == [merge |-> file.format \in {"pptx", "pdf"}, includeEmpty |-> FALSE,
                  headers |-> FALSE, tables |-> TRUE, skipFormulas |-> TRUE]
Extract ==
  /\ phase \in {"parsed", "failed"} /\ config = DefaultConfig
  /\ \A s \in DOMAIN parsed : parsed[s].state = "source"
  /\ phase' = "queued"
  /\ queued' = IF file.format = "xlsx"
                 THEN Keeping(parsed, {s \in DOMAIN parsed :
                                         TextAt(parsed[s].texts[1]) \notin {"number", "zero"}})
                 ELSE parsed
  /\ UNCHANGED <<file, config, parsed, todo, rendered>>

\* the text of a segment is replaced by its translation, which may be the empty text, or by
\* an error message
TranslateSegment(s, outcome) ==
  /\ phase = "parsed" /\ s \in todo
  /\ \A r \in todo : s <= r
  /\ parsed' = [parsed EXCEPT ![s].state = outcome]
  /\ todo' = todo \ {s}
  /\ UNCHANGED <<file, config, phase, queued, rendered>>

Render ==
  /\ phase = "parsed" /\ todo = {}
  /\ phase' = "rendered"
  /\ rendered' = CASE file.format = "docx" -> RenderDocx
                   [] file.format = "xlsx" -> RenderXlsx
                   [] file.format = "pptx" -> RenderPptx
                   [] file.format = "pdf"  -> RenderPdf
  /\ UNCHANGED <<file, config, parsed, todo, queued>>

DocNext ==
  \/ Parse \/ ParseFails \/ Extract \/ Render
  \/ \E s \in DOMAIN parsed, outcome \in {"translated", "empty", "error"} : TranslateSegment(s, outcome)

DocSpec == DocInit /\ [][DocNext]_docVars

(***************************************************************************)
(* Properties                                                              *)
(***************************************************************************)
Places == {<<Head0, i>> : i \in DOMAIN file.heads}
            \cup UNION {{<<p, i>> : i \in DOMAIN file.parts[p]} : p \in DOMAIN file.parts}

\* A segment has a text, never that of an empty item, and is translated only if it
\* holds Japanese.
DocTypeOK ==
  /\ phase \in {"file", "parsed", "failed", "queued", "rendered"}
  /\ todo \subseteq DOMAIN parsed
  /\ \A s \in DOMAIN parsed :
       /\ parsed[s].texts # <<>> /\ Range(parsed[s].texts) \subseteq Places
       /\ \A t \in DOMAIN parsed[s].texts : TextAt(parsed[s].texts[t]) # "none"
       /\ parsed[s].state # "source" => NeedsTranslation(parsed[s])

\* The id of a segment, under which a job stores it and the API synchronises it, is its
\* own, but for one case: merged, the paragraphs of DOCX tables are named for the column and
\* the row of their cell alone, so those of one cell, or of cells of two tables, may share
\* a name.
InCells == {place \in Places : place[1] > 1 /\ TextAt(place) # "none" /\ ~Hidden(place)}
CellNameShared ==
  \E a, b \in InCells : a # b /\ ItemAt(a).grid \cap ItemAt(b).grid # {}
SegmentIdsUnique ==
  ~(file.format = "docx" /\ config.merge /\ config.tables /\ CellNameShared) =>
    \A s, r \in DOMAIN parsed : s # r => parsed[s].id # parsed[r].id

\* Every Japanese text of the file, in groups, in later paragraphs of a cell and in later
\* tables too, is in the segments of the document and of the job, and in one of each, or one
\* for each position of a merged cell.  Headers and tables are a matter of the configuration;
\* what stands in a table of a slide or in a table inside a cell is lost, and so is a whole
\* presentation without a short text in a shape of its first slide outside groups and tables.
Meant(place) ==
  /\ TextAt(place) = "jp" /\ ~Hidden(place)
  /\ place[1] = Head0 => config.headers
  /\ file.format = "docx" /\ place[1] > 1 => config.tables
Holding(segs, place) == {s \in DOMAIN segs : place \in Range(segs[s].texts)}
NothingOverlooked ==
  \A place \in {pl \in Places : Meant(pl) /\ ~ParserRaises} :
    LET times == 1 .. Cardinality(ItemAt(place).grid) IN
    /\ phase # "file"   => Cardinality(Holding(parsed, place)) \in times
    /\ phase = "queued" => Cardinality(Holding(queued, place)) \in times

\* Every text is in a segment that can be told from the others.
TextsSegmented == SegmentIdsUnique /\ NothingOverlooked

\* What item i of part p shows stands where it came from, and it is translated if it is
\* Japanese, unless the translation failed, and only then.
Own(p, i) ==
  LET shown == rendered[p][i] IN
  /\ shown.texts = OwnText(<<p, i>>)
  /\ shown.state # "source" <=> TextAt(<<p, i>>) = "jp"

\* Cells keep their places, formulas and sheets of zeros their contents.
CellsInPlace ==
  phase = "rendered" /\ file.format = "xlsx" =>
    \A p \in DOMAIN file.parts : \A i \in DOMAIN file.parts[p] : Own(p, i)

\* A paragraph that no empty one precedes keeps its place; all do when the parser counts
\* the empty ones as well.  One whose translation is empty is left as it was.
LeftAsWas(i) ==
  /\ rendered[1][i] = Original(1, i)
  /\ \E s \in DOMAIN parsed : parsed[s].texts = OwnText(<<1, i>>) /\ parsed[s].state = "empty"
ParagraphsInPlace ==
  phase = "rendered" /\ file.format = "docx" /\ ~config.merge =>
    \A i \in DOMAIN file.parts[1] :
      config.includeEmpty \/ (\A j \in 1 .. i : TextAt(<<1, j>>) # "none") =>
        Own(1, i) \/ LeftAsWas(i)

\* A text stays on its slide, and in its shape when frames are kept apart; only frames at
\* one position, or inside groups, lose theirs.
SlidesKeepTheirTexts ==
  phase = "rendered" /\ file.format = "pptx" =>
    \A p \in DOMAIN file.parts :
      /\ \A i \in DOMAIN rendered[p] : \A t \in DOMAIN rendered[p][i].texts :
           rendered[p][i].texts[t][1] = p
      /\ ~config.merge => \A i \in DOMAIN file.parts[p] :
           LET item == file.parts[p][i] IN
           /\ item.within = "none"
           /\ \A j \in DOMAIN file.parts[p] : j # i => file.parts[p][j].at # item.at
           => Own(p, i)

\* The lines of a rendered page read from the top like those of its source page: the
\* blocks are merged from the bottom and set from the bottom.
PagesReadTopDown ==
  phase = "rendered" /\ file.format = "pdf" /\ config.merge =>
    \A s \in DOMAIN rendered : \A k, l \in DOMAIN rendered[s] :
      /\ rendered[s][k].texts[1][1] = parsed[s].key
      /\ k < l => ItemAt(rendered[s][k].texts[1]).at <= ItemAt(rendered[s][l].texts[1]).at

\* Rendered over its source, a document shows each translation where its source stood:
\* parser and renderer count cells, paragraphs, frames and lines alike.
TextsKeepTheirPlaces ==
  CellsInPlace /\ ParagraphsInPlace /\ SlidesKeepTheirTexts /\ PagesReadTopDown
=============================================================================
