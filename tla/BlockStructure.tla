-------------------------- MODULE BlockStructure ---------------------------
(***************************************************************************)
(* How the pipeline finds the structure of a document: StructureDetector   *)
(* (headings and their levels, sections, parents, jumps) and after it      *)
(* ContentClassifier (front matter, body, references, then the labels of   *)
(* an LLM and the standard headings).  Each is a chain of passes over the  *)
(* blocks in which a later pass relies on what the earlier ones left in    *)
(* them.  A step is one pass at one block; a text is abstracted to the     *)
(* kind of text that the rules tell apart.  The pass over a layout may     *)
(* fail at a block: safe_function swallows the exception and the rules run *)
(* over blocks that are marked already.                                    *)
(***************************************************************************)
EXTENDS Naturals, Sequences

CONSTANTS
    Kinds,       \* the kinds of text that occur
    MaxBlocks,   \* bound: blocks of a document
    LayoutKinds, \* bound: those that occur in a PDF that comes with its layout
    LayoutLevels, \* bound: levels of headings in a layout
    Labels,      \* types that the LLM may give to a block
    ScanLimit,   \* blocks searched for the first section (30 in the code)
    FrontLimit,  \* front matter when there is no section (12 in the code)
    NearStart    \* blocks in which an unnumbered heading is of level 1 (5)

(* "1. Model", "1.1 Setup", "1.1.1 Data" and deeper ones.                  *)
Headed   == {"level1", "level2", "level3", "level5"}
(* An entry such as "1. Smith, J. Leaves of grass" is numbered as well.    *)
Numbered == Headed \cup {"numbered entry"}
(* The section names the rules know; "results" has a parser's level of 3.  *)
Keywords == {"abstract", "keywords", "introduction", "results", "thanks",
             "appendix", "references"}
Major    == {"introduction", "results", "references"}
(* "hinted" is a heading for the parser only; "mention" is a line with the *)
(* word references in it; "paragraph" has more than 300 characters.        *)
AllKinds == Numbered \cup Keywords \cup
            {"hinted", "line", "mention", "paragraph", "caption", "empty", "banner", "note"}

Types == {"UNKNOWN", "TITLE", "AUTHOR", "ABSTRACT_HEADING", "ABSTRACT_BODY",
          "KEYWORDS_HEADING", "KEYWORDS_BODY", "ACKNOWLEDGEMENTS",
          "HEADING_1", "HEADING_2", "HEADING_3", "HEADING_4", "BODY",
          "FIGURE_CAPTION", "REFERENCES_HEADING", "REFERENCE_ENTRY"}

ASSUME BlockAssumption ==
    /\ Kinds \subseteq AllKinds /\ LayoutKinds \subseteq AllKinds
    /\ LayoutLevels \subseteq 1 .. 4 /\ Labels \subseteq Types
    /\ MaxBlocks \in Nat \ {0} /\ ScanLimit \in Nat
    /\ FrontLimit \in Nat /\ NearStart \in Nat

VARIABLES
    doc,        \* kind of the text of each block
    pass,       \* pass that runs
    at,         \* block it looks at
    source,     \* where headings come from, and what a failed layout left
    headings,   \* the heading candidates that were returned
    marked,     \* blocks with metadata is_heading_candidate
    level,      \* level of a heading; 0 for the title
    section,    \* heading whose text is the section_name of a block, or 0: "title" or none
    current,    \* current_section
    parent,     \* parent_id of a heading, or 0
    stack,      \* heading_stack: ordered by position
    lastLevel,  \* last_level of the search for jumps
    flagged,    \* blocks with is_valid = False
    type,       \* block_type
    titleFound, \* title_found
    mood        \* current_section_type

vars == <<doc, pass, at, source, headings, marked, level, section, current, parent, stack,
          lastLevel, flagged, type, titleFound, mood>>

Sources == {"rules", "layout", "rules over headings", "rules over a title"}

Blocks == DOMAIN doc
Nested == pass \in {"jumps", "classify", "refine", "fallback", "done"}

TypeOK ==
    /\ doc \in Seq(AllKinds) /\ Len(doc) \in 1 .. MaxBlocks
    /\ pass \in {"detect", "assign", "nest", "jumps", "classify", "refine", "fallback", "done"}
    /\ at \in 1 .. Len(doc)
    /\ source \in Sources
    /\ headings \subseteq marked /\ marked \subseteq Blocks
    /\ level \in [Blocks -> 0 .. 4]
    /\ section \in [Blocks -> 0 .. Len(doc)] /\ current \in 0 .. Len(doc)
    /\ parent \in [Blocks -> 0 .. Len(doc)] /\ stack \subseteq marked
    /\ lastLevel \in 0 .. 4 /\ flagged \subseteq Blocks
    /\ type \in [Blocks -> Types]
    /\ titleFound \in BOOLEAN
    /\ mood \in {"generic", "abstract", "keywords"}

(* The parsers append the notes behind the text.                           *)
WellFormed(d) == \A i, j \in DOMAIN d : i < j /\ d[i] = "note" => d[j] = "note"

(* The parsers of DOCX, plain text and most others leave every type open.  *)
(* Those that set some (LLMPDFParser, text by OCR, footnotes of Markdown)  *)
(* are not modelled.                                                       *)
Init ==
    /\ source \in {"rules", "layout"}
    /\ \E n \in 1 .. MaxBlocks :
          doc \in [1 .. n -> IF source = "rules" THEN Kinds ELSE LayoutKinds]
    /\ WellFormed(doc)
    /\ pass = "detect" /\ at = 1
    /\ headings = {} /\ marked = {} /\ level = [i \in Blocks |-> 0]
    /\ section = [i \in Blocks |-> 0] /\ current = 0
    /\ parent = [i \in Blocks |-> 0] /\ stack = {}
    /\ lastLevel = 0 /\ flagged = {}
    /\ type = [i \in Blocks |-> "UNKNOWN"]
    /\ titleFound = FALSE /\ mood = "generic"

(* The loop goes to the next block, or the next pass begins.               *)
Advance(next) ==
    IF at = Len(doc) THEN at' = 1 /\ pass' = next
                     ELSE at' = at + 1 /\ UNCHANGED pass

(* Wrong: notes are protected, page headers and footers are not.           *)
ProtectedNotes(i) == doc[i] = "note"

Isolated(i)  == doc[i] = "banner"
Protected(i) == doc[i] \in {"banner", "note"}
Least(S)     == CHOOSE i \in S : \A j \in S : i <= j
Greatest(S)  == CHOOSE i \in S : \A j \in S : j <= i

-----------------------------------------------------------------------------
(* Heading candidates                                                      *)

(* Wrong: any short block without a number is a title.                     *)
IsTitleAnywhere(i) == doc[i] \notin Numbered \cup {"paragraph", "banner", "empty"}

(* detect_title: the first block with a text, if short and not numbered.   *)
IsTitle(i) ==
    /\ doc[i] \notin Numbered \cup {"paragraph", "banner", "empty"}
    /\ \A j \in 1 .. i - 1 : doc[j] \in {"banner", "empty"}

(* Below "Abstract" only numbered and well-known headings count, until one *)
(* of those has been passed.                                               *)
InAbstract(i) ==
    \E k \in 1 .. i - 1 :
        /\ doc[k] = "abstract"
        /\ \A m \in k + 1 .. i - 1 : doc[m] \notin Numbered \cup Major

IsHeading(i) ==
    \/ doc[i] \in Headed \cup Keywords
    \/ doc[i] = "hinted" /\ ~InAbstract(i)

(* Wrong: the depth of a number is not cut off at 4.                       *)
InferredLevelDeep(i) ==
    CASE doc[i] = "level2" -> 2
      [] doc[i] = "level3" -> 3
      [] doc[i] = "level5" -> 5
      [] OTHER -> 1

(* infer_heading_level: the depth of a number, 4 at most.                  *)
InferredLevel(i) ==
    CASE doc[i] = "level2" -> 2
      [] doc[i] = "level3" -> 3
      [] doc[i] = "level5" -> 4
      [] OTHER -> 1

(* The parser's level stands for well-known headings only: any other one   *)
(* without a number is of level 2, or 1 near the start.                    *)
HeadingLevel(i) ==
    CASE doc[i] = "results" -> 3
      [] doc[i] = "hinted" /\ i > NearStart -> 2
      [] OTHER -> InferredLevel(i)

Marks(i, l, t) ==
    /\ headings' = headings \cup {i} /\ marked' = marked \cup {i}
    /\ level' = [level EXCEPT ![i] = l]
    /\ type' = [type EXCEPT ![i] = t]

(* _detect_heading_candidates overwrites the level and keeps the type that *)
(* a failed layout left.                                                   *)
DetectByRules ==
    /\ pass = "detect" /\ source # "layout"
    /\ \/ IsTitle(at) /\ Marks(at, 0, "TITLE")
       \/ ~IsTitle(at) /\ IsHeading(at) /\ Marks(at, HeadingLevel(at), type[at])
       \/ ~IsTitle(at) /\ ~IsHeading(at) /\ UNCHANGED <<headings, marked, level, type>>
    /\ Advance("assign")
    /\ UNCHANGED <<doc, source, section, current, parent, stack, lastLevel, flagged,
                   titleFound, mood>>

(* What a block matches in the layout is up to the layout; without any     *)
(* candidate the rules are tried.                                          *)
DetectByLayout ==
    /\ pass = "detect" /\ source = "layout"
    /\ \/ UNCHANGED <<headings, marked, level, type>>
       \/ /\ ~Isolated(at) /\ doc[at] # "empty"
          /\ \/ (\A i \in headings : type[i] # "TITLE") /\ Marks(at, 0, "TITLE")
             \/ \E l \in LayoutLevels : Marks(at, l, "HEADING_1")
    /\ IF at = Len(doc) /\ headings' = {}
       THEN at' = 1 /\ source' = "rules" /\ UNCHANGED pass
       ELSE Advance("assign") /\ UNCHANGED source
    /\ UNCHANGED <<doc, section, current, parent, stack, lastLevel, flagged, titleFound,
                   mood>>

(* An element of the layout is not as expected, such as a title without a  *)
(* bbox: the candidates are lost, what they left in their blocks is not.   *)
(* Only elements that match a block with a text are looked at.             *)
LayoutFails ==
    /\ pass = "detect" /\ source = "layout"
    /\ ~Isolated(at) /\ doc[at] # "empty"
    /\ headings' = {} /\ at' = 1
    /\ \/ headings = {} /\ source' = "rules"
       \/ (\E i \in headings : type[i] = "TITLE") /\ source' = "rules over a title"
       \/ /\ headings # {} /\ \A i \in headings : type[i] # "TITLE"
          /\ source' = "rules over headings"
    /\ UNCHANGED <<doc, pass, marked, level, section, current, parent, stack, lastLevel,
                   flagged, type, titleFound, mood>>

-----------------------------------------------------------------------------
(* Sections, parents, jumps                                                *)

(* Such a heading opens the section "title".                               *)
OpensTitle(i) == level[i] = 0 \/ (type[i] = "TITLE" /\ doc[i] \notin Numbered)

(* _assign_section_names: a page header or footer has no section.          *)
AssignSection ==
    /\ pass = "assign"
    /\ current' = IF at \notin headings \/ Isolated(at) THEN current
                  ELSE IF OpensTitle(at) THEN 0 ELSE at
    /\ section' = (IF Isolated(at) THEN section ELSE [section EXCEPT ![at] = current'])
    /\ Advance("nest")
    /\ UNCHANGED <<doc, source, headings, marked, level, parent, stack, lastLevel, flagged, type,
                   titleFound, mood>>

(* Wrong: headings of the same level stay on the stack.                    *)
LowerOrEqual(l) == {h \in stack : level[h] <= l}

(* The headings on the stack that may have one of level l below them.      *)
Lower(l) == {h \in stack : level[h] < l}

(* _build_hierarchy: the parent is the last of them, and they stay.        *)
Nest ==
    /\ pass = "nest"
    /\ LET below == Lower(level[at]) IN
       IF at \in headings /\ ~Isolated(at)
       THEN /\ parent' = IF below = {} THEN parent ELSE [parent EXCEPT ![at] = Greatest(below)]
            /\ stack' = below \cup {at}
       ELSE UNCHANGED <<parent, stack>>
    /\ Advance("jumps")
    /\ UNCHANGED <<doc, source, headings, marked, level, section, current, lastLevel, flagged, type,
                   titleFound, mood>>

HeadingTypes == {"HEADING_1", "HEADING_2", "HEADING_3", "HEADING_4"}

(* Wrong: the level of a block that jumped is not remembered.              *)
FindJumpForgetful ==
    /\ pass = "jumps"
    /\ IF type[at] \in HeadingTypes /\ level[at] > 0 /\ ~Isolated(at)
       THEN IF level[at] > lastLevel + 1
            THEN flagged' = flagged \cup {at} /\ UNCHANGED lastLevel
            ELSE lastLevel' = level[at] /\ UNCHANGED flagged
       ELSE UNCHANGED <<lastLevel, flagged>>
    /\ Advance("classify")
    /\ UNCHANGED <<doc, source, headings, marked, level, section, current, parent, stack, type,
                   titleFound, mood>>

(* _validate_hierarchy asks for the type, which the rules leave UNKNOWN.   *)
FindJump ==
    /\ pass = "jumps"
    /\ IF type[at] \in HeadingTypes /\ level[at] > 0 /\ ~Isolated(at)
       THEN /\ flagged' = IF level[at] > lastLevel + 1 THEN flagged \cup {at} ELSE flagged
            /\ lastLevel' = level[at]
       ELSE UNCHANGED <<lastLevel, flagged>>
    /\ Advance("classify")
    /\ UNCHANGED <<doc, source, headings, marked, level, section, current, parent, stack, type,
                   titleFound, mood>>

-----------------------------------------------------------------------------
(* Classification                                                          *)

(* Wrong: only numbers and well-known names open a section.                *)
OpensByName(i) == i \notin marked /\ doc[i] \in Numbered \cup Major \cup {"abstract"}

(* _find_first_section_index: a long text or too many blocks end the       *)
(* search; the title opens no section.                                     *)
Opens(i) ==
    IF i \in marked THEN type[i] # "TITLE"
    ELSE doc[i] \in Numbered \cup Major \cup {"abstract"}

FirstSection ==
    LET found == {i \in Blocks : /\ Opens(i)
                                 /\ \A j \in 1 .. i : j <= ScanLimit /\ doc[j] # "paragraph"}
    IN  IF found # {} THEN Least(found)
        ELSE (IF FrontLimit < Len(doc) THEN FrontLimit ELSE Len(doc)) + 1

(* _find_references_start_index; behind the end when there is none.  The   *)
(* section name adds nothing: the heading that gave it comes first.        *)
ReferencesStart ==
    LET found == {i \in marked : doc[i] \in {"references", "mention"}}
    IN  IF found # {} THEN Least(found) ELSE Len(doc) + 1

Becomes(t) == type' = [type EXCEPT ![at] = t]

LevelType(l) == IF l \in 1 .. 3 THEN <<"HEADING_1", "HEADING_2", "HEADING_3">>[l]
                ELSE "HEADING_4"

(* Zone 1.  AUTHOR stands for AFFILIATION, too: which one is up to the     *)
(* text and to GROBID.                                                     *)
ClassifyFront ==
    /\ at < FirstSection
    /\ Becomes(IF titleFound THEN "AUTHOR" ELSE "TITLE")
    /\ titleFound' = TRUE /\ UNCHANGED mood

(* Zone 3.                                                                 *)
ClassifyReference ==
    /\ at >= FirstSection /\ at >= ReferencesStart
    /\ Becomes(CASE at = ReferencesStart -> "REFERENCES_HEADING"
                 [] at # ReferencesStart /\ at \in marked /\ level[at] = 1 -> "HEADING_1"
                 [] OTHER -> "REFERENCE_ENTRY")
    /\ UNCHANGED <<titleFound, mood>>

(* The section_name: a heading has its own text for it, a candidate of the *)
(* layout that is not a heading for the rules that of the heading above.   *)
SectionName(i) == IF section[i] = 0 THEN "line" ELSE doc[section[i]]

HeadingType(i) ==
    CASE SectionName(i) = "abstract" -> "ABSTRACT_HEADING"
      [] SectionName(i) = "keywords" -> "KEYWORDS_HEADING"
      [] SectionName(i) = "thanks"   -> "ACKNOWLEDGEMENTS"
      [] SectionName(i) = "appendix" -> "HEADING_1"
      [] OTHER -> LevelType(level[i])

(* Wrong: a heading that opens no special section leaves the mood alone.   *)
MoodsKept(k) == IF k \in {"abstract", "keywords"} THEN k ELSE mood

Moods(k) == IF k \in {"abstract", "keywords"} THEN k ELSE "generic"

(* Zone 2.                                                                 *)
ClassifyBody ==
    /\ at >= FirstSection /\ at < ReferencesStart
    /\ IF at \in marked
       THEN Becomes(HeadingType(at)) /\ mood' = Moods(SectionName(at))
       ELSE /\ Becomes(CASE mood = "abstract" -> "ABSTRACT_BODY"
                         [] mood = "keywords" -> "KEYWORDS_BODY"
                         [] OTHER -> "BODY")
            /\ UNCHANGED mood
    /\ UNCHANGED titleFound

(* Page headers, notes, the title, empty blocks and captions come first.   *)
Classify ==
    /\ pass = "classify"
    /\ IF Protected(at) THEN UNCHANGED <<type, titleFound, mood>>
       ELSE IF type[at] = "TITLE"
       THEN /\ titleFound' = (titleFound \/ at < FirstSection)
            /\ UNCHANGED <<type, mood>>
       ELSE IF doc[at] = "empty" THEN UNCHANGED <<type, titleFound, mood>>
       ELSE IF doc[at] = "caption"
       THEN Becomes("FIGURE_CAPTION") /\ UNCHANGED <<titleFound, mood>>
       ELSE ClassifyFront \/ ClassifyReference \/ ClassifyBody
    /\ Advance("refine")
    /\ UNCHANGED <<doc, source, headings, marked, level, section, current, parent, stack, lastLevel,
                   flagged>>

(* _apply_llm_predictions: a confident label replaces BODY and UNKNOWN.    *)
Refine ==
    /\ pass = "refine"
    /\ \/ UNCHANGED type
       \/ /\ ~Protected(at) /\ type[at] \in {"BODY", "UNKNOWN"}
          /\ \E t \in Labels : Becomes(t)
    /\ Advance("fallback")
    /\ UNCHANGED <<doc, source, headings, marked, level, section, current, parent, stack, lastLevel,
                   flagged, titleFound, mood>>

(* The last loop: what reads like a standard heading becomes one.          *)
Fallback ==
    /\ pass = "fallback"
    /\ IF Protected(at) \/ doc[at] = "empty" THEN UNCHANGED type
       ELSE IF type[at] \in {"BODY", "UNKNOWN"} /\ doc[at] \in Major \cup {"level1"}
       THEN Becomes("HEADING_1")
       ELSE IF type[at] = "UNKNOWN" THEN Becomes("BODY")
       ELSE UNCHANGED type
    /\ Advance("done")
    /\ UNCHANGED <<doc, source, headings, marked, level, section, current, parent, stack, lastLevel,
                   flagged, titleFound, mood>>

Finished == pass = "done" /\ UNCHANGED vars

Next ==
    \/ DetectByRules \/ DetectByLayout \/ LayoutFails
    \/ AssignSection \/ Nest \/ FindJump
    \/ Classify \/ Refine \/ Fallback
    \/ Finished

Spec == Init /\ [][Next]_vars

-----------------------------------------------------------------------------
(* Properties                                                              *)

(* The parent of a heading is the nearest heading before it with a lower   *)
(* level, and a heading without one has no parent: the stack of            *)
(* _build_hierarchy loses no heading that is still needed.                 *)
NearestLower(i, p) ==
    LET before == {j \in headings : j < i /\ level[j] < level[i]}
    IN  IF p = 0 THEN before = {} ELSE p \in before /\ \A j \in before : j <= p

ParentIsNearest ==
    \A i \in headings :
        (pass = "nest" /\ i < at) \/ Nested => NearestLower(i, parent[i])

(* The LLM is not heard yet.                                               *)
Classifying == pass = "classify" \/ (pass = "refine" /\ at = 1)
(* All types are from the rules of detector and classifier.                *)
ByRules     == source = "rules" /\ Classifying
(* So are all titles: a layout that failed left at most headings.          *)
TitleByRules == source \in {"rules", "rules over headings"} /\ Classifying

(* The sections of the detector and the running section of the classifier  *)
(* agree: with headings found by the rules in a document that no failed    *)
(* layout has marked, text of an abstract is in the section of an abstract *)
(* heading, and text in such a section is part of the abstract.            *)
AbstractBelongs ==
    ByRules =>
        \A i \in Blocks :
            /\ type[i] = "ABSTRACT_BODY" =>
                   section[i] > 0 /\ type[section[i]] = "ABSTRACT_HEADING"
            /\ type[i] = "BODY" /\ section[i] > 0 => type[section[i]] # "ABSTRACT_HEADING"

(* Detector and classifier each have a rule for the title; with headings   *)
(* found by the rules, even after a layout that failed before it gave a    *)
(* title, they never give a document two titles before the LLM is heard.   *)
OneTitle ==
    TitleByRules =>
        \A i, j \in Blocks : type[i] = "TITLE" /\ type[j] = "TITLE" => i = j

(* Front matter ends with the first section: with titles found by the      *)
(* rules, no block below a candidate for a heading, of the rules or left   *)
(* by a failed layout, is taken for an author before the LLM is heard,     *)
(* unless a long text stopped the search for the first section or the      *)
(* search ended before it.                                                 *)
NamesBeforeSections ==
    TitleByRules =>
        \A i, j \in Blocks :
            i < j /\ i \in marked /\ level[i] > 0 /\ type[j] = "AUTHOR" =>
                \E k \in 1 .. i : doc[k] = "paragraph" \/ k > ScanLimit

(* Whatever the passes and the LLM did, a page header has no semantic type *)
(* and a note has none, either, in a document that has any text (else it   *)
(* may be the title) and no layout has marked it; every other text has one *)
(* at the end.                                                             *)
BlocksTyped ==
    \A i \in Blocks :
        /\ doc[i] = "banner" => type[i] = "UNKNOWN"
        /\ doc[i] = "note" /\ source = "rules"
           /\ (\E j \in Blocks : doc[j] \notin {"banner", "note", "empty"})
              => type[i] = "UNKNOWN"
        /\ pass = "done" /\ type[i] = "UNKNOWN" => doc[i] \in {"banner", "note", "empty"}

(* With headings found in the layout, the headings that are flagged are    *)
(* those whose level is more than one below that of the heading before.    *)
Above(i) == {j \in headings : j < i /\ level[j] > 0}
JumpsFlagged ==
    source = "layout" /\ Nested /\ pass # "jumps" =>
        \A i \in headings :
            i \in flagged <=>
                /\ level[i] > 0
                /\ level[i] > 1 + (IF Above(i) = {} THEN 0 ELSE level[Greatest(Above(i))])
=============================================================================
