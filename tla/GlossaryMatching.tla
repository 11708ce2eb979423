--------------------------- MODULE GlossaryMatching ---------------------------
(***************************************************************************)
(* The glossary of the worker (glossary/loader.py, matcher.py): files are  *)
(* merged into one glossary and its terms are looked up in a text, by its  *)
(* tokens or as plain text.  A word is a sequence of letters.              *)
(***************************************************************************)
EXTENDS Integers, Sequences, FiniteSets, SequencesExt, SequenceParts

CONSTANTS
  GlossaryLists, \* the lists of files that may be loaded
  GlossaryTexts, \* the texts, as sequences of tokens
  Domains,       \* the domains of terms and of requests
  Alike,         \* pairs {v, w} of different words above the fuzzy threshold
  Closer         \* those of them that are nearer than the others

Term == [source : Seq(STRING), target : STRING, variants : Seq(Seq(STRING)),
         domain : Domains \cup {"none"}]
Token == [word : Seq(STRING), function : BOOLEAN]
File  == [state : {"good", "unreadable", "incomplete"}, entries : Seq(Term), compounds : Seq(Term)]
ASSUME GlossaryAssumption ==
  /\ GlossaryLists \subseteq Seq(File)
  /\ \A list \in GlossaryLists : \A i \in DOMAIN list :
       \A t \in Range(list[i].entries) \cup Range(list[i].compounds) : t.source # <<>>
  /\ GlossaryTexts \subseteq Seq(Token)
  /\ "none" \notin Domains
  /\ Closer \subseteq Alike

VARIABLES
  fileList,  \* the files
  loaded,    \* how many of them have been read
  entries,   \* the entries of the glossary
  compounds, \* its compound terms
  request,   \* the text, the domain and how the text is matched
  matches,   \* the matches found
  lookup     \* what happens next

glossaryVars == <<fileList, loaded, entries, compounds, request, matches, lookup>>

(***************************************************************************)
(* Loading                                                                 *)
(***************************************************************************)
IndexOf(terms, source) == {i \in DOMAIN terms : terms[i].source = source}

\* the places of the first of each source, and the last term of a source
Firsts(terms) == {i \in DOMAIN terms : \A j \in 1 .. i - 1 : terms[j].source # terms[i].source}
LastOf(terms, source) ==
  terms[CHOOSE i \in IndexOf(terms, source) : \A j \in IndexOf(terms, source) : j <= i]

MergedFirstWins(terms, more) == LET all == terms \o more IN Keeping(all, Firsts(all))
\* merged_entries[source] = entry, for one after another: a dictionary keeps the place of the
\* first and the value of the last
Merged(terms, more) ==
  LET all   == terms \o more
      first == Keeping(all, Firsts(all))
  IN  [k \in DOMAIN first |-> LastOf(all, first[k].source)]

\* load_glossary_from_files: a file that is missing or no JSON is passed over
LoadFile ==
  /\ lookup = "load" /\ loaded < Len(fileList)
  /\ LET f == fileList[loaded + 1] IN
       /\ f.state # "incomplete"
       /\ IF f.state = "good"
            THEN /\ entries' = Merged(entries, f.entries)
                 /\ compounds' = Merged(compounds, f.compounds)
            ELSE UNCHANGED <<entries, compounds>>
  /\ loaded' = loaded + 1
  /\ UNCHANGED <<fileList, request, matches, lookup>>

\* an entry without source or target: the KeyError ends the loading of all files
LoadRaises ==
  /\ lookup = "load" /\ loaded < Len(fileList)
  /\ fileList[loaded + 1].state = "incomplete"
  /\ lookup' = "raised"
  /\ UNCHANGED <<fileList, loaded, entries, compounds, request, matches>>

(***************************************************************************)
(* Matching                                                                *)
(***************************************************************************)
Raw == FlattenSeq([i \in DOMAIN request.text |-> request.text[i].word])
Within(word, letters) ==
  \E i \in 1 .. Len(letters) + 1 - Len(word) : SubSeq(letters, i, i + Len(word) - 1) = word
Similar(v, w) == v = w \/ {v, w} \in Alike

\* _build_indices; a variant of two entries is the last one's
EntryOf(word)        == entries[CHOOSE i \in IndexOf(entries, word) : TRUE]
HavingVariant(word)  == {i \in DOMAIN entries : word \in Range(entries[i].variants)}
VariantEntry(word)   == entries[CHOOSE i \in HavingVariant(word) :
                                  \A j \in HavingVariant(word) : j <= i]
LongestFirst(terms)  == SortedByKey(terms, [i \in DOMAIN terms |-> -Len(terms[i].source)])

\* A fuzzy match has 0.8 of the likeness of its words, here one of three values
Confidence(kind) == CASE kind = "exact" -> 100 [] kind = "compound" -> 98
                      [] kind = "variant" -> 95 [] kind = "alike" -> 70
                      [] kind = "closer" -> 76 [] kind = "same" -> 80

KnownByTargetToo(ms, t) ==
  \E i \in DOMAIN ms : ms[i].term.source = t.source \/ ms[i].term.target = t.target
KnownUnlessFuzzy(ms, t) == \E i \in DOMAIN ms : /\ ms[i].term.source = t.source
                                               /\ ms[i].kind \notin {"alike", "closer", "same"}
\* seen_sources
Known(ms, t) == \E i \in DOMAIN ms : ms[i].term.source = t.source
KnownWord(ms, word) == \E i \in DOMAIN ms : ms[i].term.source = word

\* The passes append what they find unless its source was seen: of all they try, in their
\* order, the first of each source.
MatchOf(t, kind) == [term |-> t, kind |-> kind, confidence |-> Confidence(kind)]
Tried(condition, t, kind) == IF condition THEN <<MatchOf(t, kind)>> ELSE <<>>
FirstOfEach(tried) ==
  Keeping(tried, {i \in DOMAIN tried : ~Known(SubSeq(tried, 1, i - 1), tried[i].term)})

\* exact and variant of one token; function words are skipped
TokenTried(token) ==
  Tried(~token.function /\ IndexOf(entries, token.word) # {}, EntryOf(token.word), "exact")
    \o Tried(~token.function /\ HavingVariant(token.word) # {}, VariantEntry(token.word), "variant")
TokensTried(tokens) == FlattenSeq([k \in DOMAIN tokens |-> TokenTried(tokens[k])])

\* terms that stand in the text
TextTried(terms, kind) ==
  FlattenSeq([i \in DOMAIN terms |-> Tried(Within(terms[i].source, Raw), terms[i], kind)])
CompoundsTried == TextTried(LongestFirst(compounds), "compound")

FuzzyKindUnweighted(v, w) == "exact"
FuzzyKind(v, w) ==
  IF v = w THEN "same" ELSE IF {v, w} \in Closer THEN "closer" ELSE "alike"

\* _fuzzy_match_tokens: the first entry left; function words take part
FuzzyToken(ms, token) ==
  LET near == {i \in DOMAIN entries : /\ ~Known(ms, entries[i])
                                      /\ Similar(token.word, entries[i].source)}
      i    == CHOOSE i \in near : \A j \in near : i <= j
  IN  IF near = {} \/ KnownWord(ms, token.word) THEN ms
      ELSE Append(ms, MatchOf(entries[i], FuzzyKind(token.word, entries[i].source)))
FuzzyTokens(ms, tokens) ==
  LET after[k \in 0 .. Len(tokens)] == IF k = 0 THEN ms ELSE FuzzyToken(after[k - 1], tokens[k])
  IN  after[Len(tokens)]

\* tokenize returns no tokens for a text the tagger cannot take
Tokens == IF request.mode = "no tokens" THEN <<>> ELSE request.text

\* _match_with_pos
MatchWithPos(tokens) ==
  FuzzyTokens(FirstOfEach(TokensTried(tokens) \o CompoundsTried), tokens)

\* each variant of each entry
Variants == FlattenSeq([i \in DOMAIN entries |-> entries[i].variants])
VariantsTried ==
  FlattenSeq([i \in DOMAIN Variants |->
    Tried(Within(Variants[i], Raw), VariantEntry(Variants[i]), "variant")])

\* _fuzzy_match_text
FuzzyNear(source) ==
  /\ Len(source) <= 2 * Len(Raw) /\ Len(Raw) <= 2 * Len(source)
  /\ Within(source, Raw) \/ Within(Raw, source)
  /\ Similar(source, Raw)
FuzzyTried ==
  FlattenSeq([i \in DOMAIN entries |->
    Tried(FuzzyNear(entries[i].source), entries[i], FuzzyKind(entries[i].source, Raw))])

\* _match_without_pos
MatchWithoutPos ==
  FirstOfEach(TextTried(LongestFirst(entries), "exact") \o VariantsTried
                \o CompoundsTried \o FuzzyTried)

\* _filter_by_context, for a request with a domain
FilterByContext(ms) ==
  IF request.domain = "none" THEN ms
  ELSE Keeping(ms, {i \in DOMAIN ms : ms[i].term.domain = request.domain})
         \o Keeping(ms, {i \in DOMAIN ms : ms[i].term.domain = "none"})
SurestFirst(ms) == SortedByKey(ms, [i \in DOMAIN ms |-> -ms[i].confidence])

GlossaryStart == loaded = 0 /\ entries = <<>> /\ compounds = <<>> /\ matches = <<>>
                 /\ lookup = "load"
GlossaryInit ==
  /\ GlossaryStart
  /\ fileList \in GlossaryLists
  /\ request \in [text : GlossaryTexts, domain : Domains \cup {"none"},
                  mode : {"pos", "no tokens", "plain"}]

Match ==
  /\ lookup = "load" /\ loaded = Len(fileList)
  /\ matches' = IF Raw = <<>> THEN <<>>
                ELSE SurestFirst(FilterByContext(IF request.mode = "plain" THEN MatchWithoutPos
                                                 ELSE MatchWithPos(Tokens)))
  /\ lookup' = "matched"
  /\ UNCHANGED <<fileList, loaded, entries, compounds, request>>

GlossaryNext == LoadFile \/ LoadRaises \/ Match
GlossarySpec == GlossaryInit /\ [][GlossaryNext]_glossaryVars

(***************************************************************************)
(* Properties                                                              *)
(***************************************************************************)
\* A match is of a term of the glossary, and only one of the source itself is certain.
GlossaryTypeOK ==
  /\ loaded \in 0 .. Len(fileList) /\ lookup \in {"load", "raised", "matched"}
  /\ \A i \in DOMAIN matches :
       /\ matches[i].term \in Range(entries \o compounds)
       /\ matches[i].confidence = 100 => matches[i].kind = "exact" /\ Within(matches[i].term.source, Raw)

\* A source has one entry, the one of the last file that could be read ("later wins"),
\* whatever files before and after it are missing.
LaterFileWins ==
  \A f \in 1 .. loaded : fileList[f].state = "good" =>
    \A t \in Range(fileList[f].entries) :
      /\ Cardinality(IndexOf(entries, t.source)) = 1
      /\ (\A g \in f + 1 .. loaded : fileList[g].state = "good" =>
            IndexOf(fileList[g].entries, t.source) = {}) =>
         EntryOf(t.source) = LastOf(fileList[f].entries, t.source)

\* A term is proposed once and the surest first, through all passes and the filter.
EachTermOnce ==
  \A i, j \in DOMAIN matches : i < j =>
    /\ matches[i].term.source # matches[j].term.source
    /\ matches[i].confidence >= matches[j].confidence

\* A term of the glossary that stands in the text, as a token that is no function word if
\* there are tokens, is proposed unless it belongs to another domain.
LiteralTermsFound ==
  lookup = "matched" /\ request.mode # "no tokens" =>
    \A i \in DOMAIN entries : LET t == entries[i] IN
      /\ IF request.mode = "plain" THEN Within(t.source, Raw)
         ELSE \E k \in DOMAIN request.text : /\ request.text[k].word = t.source
                                             /\ ~request.text[k].function
      /\ request.domain = "none" \/ t.domain \in {"none", request.domain}
      => \E m \in DOMAIN matches : matches[m].term = t

\* Every term of the last file that has it is proposed where it stands, and once.
GlossaryApplied == LaterFileWins /\ EachTermOnce /\ LiteralTermsFound
=============================================================================
