-------------------------- MODULE MCWorkerDocuments --------------------------
(***************************************************************************)
(* TLC instances of what the translation worker does with a document and   *)
(* its texts in parts that share no state: the parsers, the review package *)
(* and the glossary.  One of them moves in a behaviour; part says which.   *)
(***************************************************************************)
EXTENDS Documents, ReviewWorkflow, GlossaryMatching

VARIABLE part
documentVars == <<docVars, reviewVars, glossaryVars, part>>

(* Bodies of up to three paragraphs with none, one or two tables: cells of one or   *)
(* two paragraphs, cells of two positions, a table inside a cell; sheets of two      *)
(* cells; slides of two shapes, long or short, that may lie on each other, in a      *)
(* group or be tables; pages of blocks in any order.                                 *)
I(text, within, at) == [text |-> text, long |-> FALSE, within |-> within, at |-> at, grid |-> {1}]
Plain(text) == I(text, "none", 1)
Long(item)  == [item EXCEPT !.long = TRUE]
InCell(text, grid) == [Plain(text) EXCEPT !.grid = grid]
F(format, parts, heads) == [format |-> format, parts |-> parts, heads |-> heads]

Words  == {"none", "jp", "latin"}
Bodies == UNION {[1 .. n -> {Plain(t) : t \in Words}] : n \in 0 .. 3}
Tables == {<<>>,
           <<<<InCell("jp", {1}), InCell("none", {2}), InCell("latin", {3})>>>>,
           <<<<InCell("jp", {1, 3}), InCell("none", {1, 3}), InCell("jp", {2})>>>>,
           <<<<InCell("jp", {1}), InCell("jp", {1}),
               [InCell("jp", {2}) EXCEPT !.within = "table"]>>>>,
           <<<<InCell("jp", {1, 2})>>, <<InCell("jp", {1}), InCell("jp", {3})>>>>}
DocxFiles == {F("docx", <<b>> \o t, h) : b \in Bodies, t \in Tables,
                                        h \in {<<>>, <<Plain("none"), Plain("jp")>>}}

Cells  == {"none", "jp", "formula", "number", "zero"}
Sheets == [1 .. 2 -> {Plain(t) : t \in Cells}]
XlsxFiles == {F("xlsx", <<s, t>>, <<>>) : s \in Sheets, t \in Sheets}

Shapes == {I(t, w, at) : t \in Words, w \in {"none", "group", "table"}, at \in {1, 2}}
            \cup {Long(I(t, "none", 1)) : t \in Words \ {"none"}}
Slides == {s \in [1 .. 2 -> Shapes] : s[1].at <= s[2].at}
MoreSlides == {<<<<>>>>, <<<<I("jp", "none", 1)>>>>,
               <<<<>>, <<I("latin", "none", 2), I("jp", "none", 1), I("jp", "group", 1)>>>>}
PptxFiles == {F("pptx", <<s>> \o t, <<>>) : s \in Slides, t \in MoreSlides}

Pages == {<<>>} \cup {<<I(t, "none", 1)>> : t \in Words}
         \cup {<<I(t, "none", k), I(u, "none", 3 - k)>> : t \in Words, u \in Words, k \in {1, 2}}
PdfFiles == {F("pdf", <<p, q>>, <<>>) : p \in Pages,
               q \in {<<>>, <<I("jp", "none", 2), I("latin", "none", 3), I("jp", "none", 1)>>}}

SomeFiles == DocxFiles \cup XlsxFiles \cup PptxFiles \cup PdfFiles

C(merge, includeEmpty, headers, tables, skip) ==
  [merge |-> merge, includeEmpty |-> includeEmpty, headers |-> headers, tables |-> tables,
   skipFormulas |-> skip]
SomeConfigs == {C(FALSE, FALSE, FALSE, TRUE, TRUE), C(TRUE, FALSE, TRUE, TRUE, TRUE),
                C(TRUE, FALSE, FALSE, TRUE, TRUE),
                C(FALSE, TRUE, TRUE, FALSE, FALSE), C(TRUE, TRUE, FALSE, TRUE, TRUE)}

(* The worker's own wiring (main.py), the blocking workflow of a critical project,  *)
(* `document --review` with two and three tools, and `document`.                    *)
D(driver, providers, parallel, judge, checker, mode) ==
  [driver |-> driver, providers |-> providers, parallel |-> parallel, judge |-> judge,
   checker |-> checker, mode |-> mode, block |-> 70, engine |-> 70, approve |-> 85]

SomeDeployments ==
  {D("workflow", 1, FALSE, "llm", TRUE, "async"),
   D("workflow", 0, TRUE, "none", TRUE, "async"),
   D("workflow", 1, FALSE, "off", FALSE, "blocking"),
   D("workflow", 2, TRUE, "llm", TRUE, "blocking"),
   D("workflow", 3, TRUE, "none", TRUE, "blocking"),
   D("workflow", 2, FALSE, "none", FALSE, "async"),
   D("review", 2, TRUE, "llm", TRUE, "async"),
   D("review", 3, TRUE, "none", TRUE, "async"),
   D("simple", 1, TRUE, "none", TRUE, "async")}

T(error, style, fits, issue) == [error |-> error, style |-> style, fits |-> fits, issue |-> issue]
SomeTexts == {T(FALSE, 1, TRUE, FALSE), T(FALSE, -1, TRUE, TRUE), T(TRUE, 1, TRUE, FALSE),
              T(FALSE, 0, FALSE, FALSE)}

R(kind, winner, confidence, concerns) ==
  [kind |-> kind, winner |-> winner, confidence |-> confidence, concerns |-> concerns]
SomeReplies == {R("json", "A", 95, FALSE), R("json", "B", 90, FALSE), R("json", "B", 60, FALSE),
                R("json", "other", 95, FALSE), R("json", "A", 95, TRUE),
                R("json", "B", 9500, FALSE), R("json", "A", -50, FALSE),
                R("garbage", "A", 0, FALSE), R("fails", "A", 0, FALSE)}

(* Up to three glossary files over words of up to three letters, some of them        *)
(* missing or incomplete; texts of up to two tokens; words near one another.         *)
W(s) == CASE s = "a" -> <<"a">> [] s = "b" -> <<"b">> [] s = "ab" -> <<"a", "b">>
          [] s = "ba" -> <<"b", "a">> [] s = "abb" -> <<"a", "b", "b">>
GTerm(s, target, variants, domain) ==
  [source |-> W(s), target |-> target, variants |-> variants, domain |-> domain]
GFile(state, es, cs) == [state |-> state, entries |-> es, compounds |-> cs]
SomeGlossaries ==
  {GFile("good", <<GTerm("a", "x", <<W("b")>>, "none"), GTerm("ab", "y", <<>>, "law")>>,
         <<GTerm("ba", "z", <<>>, "law")>>),
   GFile("good", <<GTerm("ab", "x", <<W("b"), W("ba")>>, "none"), GTerm("ba", "x", <<W("a")>>, "law")>>,
         <<GTerm("ab", "z", <<>>, "none"), GTerm("abb", "v", <<>>, "none")>>),
   GFile("good", <<GTerm("b", "y", <<>>, "law"), GTerm("b", "x", <<W("ab")>>, "none"),
                   GTerm("abb", "z", <<W("a")>>, "none")>>, <<>>),
   GFile("unreadable", <<>>, <<>>), GFile("incomplete", <<>>, <<>>)}
SomeLists == UNION {[1 .. n -> SomeGlossaries] : n \in 1 .. 3}
SomeTokens == {[word |-> W(s), function |-> FALSE] : s \in {"a", "b", "ab", "ba"}}
                \cup {[word |-> W("a"), function |-> TRUE]}
SomeGlossaryTexts == UNION {[1 .. n -> SomeTokens] : n \in 0 .. 2}
SomeAlike  == {{W("ab"), W("ba")}, {W("ab"), W("abb")}}
SomeCloser == {{W("ab"), W("ba")}}

(* A part that does not move is at its start, in a legal deployment.                *)
ASSUME RestingDeployment == D("simple", 1, TRUE, "none", TRUE, "async") \in Deployments

DocumentRest == /\ file = F("pdf", <<>>, <<>>) /\ DocumentStart
                /\ config = C(FALSE, FALSE, FALSE, TRUE, TRUE)
ReviewRest   == setup = D("simple", 1, TRUE, "none", TRUE, "async") /\ ReviewStart
GlossaryRest == /\ fileList = <<>> /\ GlossaryStart
                /\ request = [text |-> <<>>, domain |-> "none", mode |-> "plain"]

DocumentsInit ==
  \/ part = "parsers" /\ DocInit /\ ReviewRest /\ GlossaryRest
  \/ part = "review" /\ ReviewInit /\ DocumentRest /\ GlossaryRest
  \/ part = "glossary" /\ GlossaryInit /\ DocumentRest /\ ReviewRest

DocumentsNext ==
  /\ \/ part = "parsers" /\ DocNext /\ UNCHANGED <<reviewVars, glossaryVars>>
     \/ part = "review" /\ ReviewNext /\ UNCHANGED <<docVars, glossaryVars>>
     \/ part = "glossary" /\ GlossaryNext /\ UNCHANGED <<docVars, reviewVars>>
  /\ UNCHANGED part

DocumentsSpec == DocumentsInit /\ [][DocumentsNext]_documentVars

(* The types of all parts, moving or at rest. *)
DocumentsTypeOK == DocTypeOK /\ ReviewTypeOK /\ GlossaryTypeOK
=============================================================================
