-------------------------- MODULE BlockTypesProofs --------------------------
(***************************************************************************)
(* What the passes of BlockStructure make of each other's results, for     *)
(* documents of any length: jumps of the headings of a layout, sections    *)
(* and titles of the rules, and the types that the classifier gives.       *)
(***************************************************************************)
EXTENDS BlockStructureProofs

(* What the loops go by: a block has a next one, or the pass ends.         *)
LEMMA Advances ==
    ASSUME TypeOK, NEW next, Advance(next)
    PROVE  \/ at < Len(doc) /\ at' = at + 1 /\ pass' = pass
           \/ at = Len(doc) /\ at' = 1 /\ pass' = next
BY BlockFacts DEF TypeOK, Advance

Early == {"detect", "assign", "nest"}
Later == {"classify", "refine", "fallback", "done"}

-----------------------------------------------------------------------------
(* Jumps in a layout                                                       *)

Prev(i)  == IF Above(i) = {} THEN 0 ELSE level[Greatest(Above(i))]
Jumps(i) == level[i] > 0 /\ level[i] > 1 + Prev(i)

(* The search has seen the headings before its block, and remembers the    *)
(* level of the last one.                                                  *)
JumpInv ==
    source = "layout" =>
        /\ pass \in Early \cup {"jumps"} =>
              \A i \in Blocks : type[i] \in HeadingTypes <=> i \in headings /\ level[i] > 0
        /\ pass \in Early => flagged = {} /\ lastLevel = 0
        /\ pass = "jumps" =>
              /\ lastLevel = Prev(at)
              /\ \A i \in headings : i \in flagged <=> i < at /\ Jumps(i)
        /\ pass \in Later => \A i \in headings : i \in flagged <=> Jumps(i)

LEMMA PrevMoves ==
    ASSUME TypeOK
    PROVE  /\ Prev(1) = 0
           /\ Prev(at + 1) = IF at \in headings /\ level[at] > 0 THEN level[at] ELSE Prev(at)
<1>0. /\ Len(doc) \in Nat /\ at \in 1 .. Len(doc) /\ headings \subseteq 1 .. Len(doc)
      /\ level \in [1 .. Len(doc) -> 0 .. 4]
  BY BlockFacts DEF TypeOK
<1>1. Above(1) = {}
  <2>1. \A j \in headings : ~(j < 1)
    BY <1>0
  <2> QED BY <2>1 DEF Above
<1>2. CASE at \in headings /\ level[at] > 0
  <2>1. \A j \in headings : j < at + 1 <=> j < at \/ j = at
    BY <1>0
  <2>2. Above(at + 1) \in SUBSET (1 .. Len(doc)) /\ at \in Above(at + 1)
        /\ \A j \in Above(at + 1) : j <= at
    <3>1. \A j \in Above(at + 1) : j \in headings /\ j < at + 1
      BY DEF Above
    <3>2. at \in Above(at + 1)
      BY <1>0, <1>2 DEF Above
    <3>3. \A j \in headings : j < at + 1 => j <= at
      BY <1>0
    <3>4. Above(at + 1) \subseteq headings
      BY <3>1
    <3> QED BY <1>0, <3>1, <3>2, <3>3, <3>4
  <2>3. Greatest(Above(at + 1)) = at
    <3>1. Greatest(Above(at + 1)) \in Above(at + 1) /\ at <= Greatest(Above(at + 1))
      BY <1>0, <2>2, GreatestIsLast
    <3> QED BY <1>0, <2>2, <3>1
  <2> QED BY <1>1, <1>2, <2>2, <2>3 DEF Prev
<1>3. CASE ~(at \in headings /\ level[at] > 0)
  <2>1. \A j \in headings : j < at + 1 <=> j < at \/ j = at
    BY <1>0
  <2>2. Above(at + 1) = Above(at)
    BY <1>3, <2>1, Zenon DEF Above
  <2> QED BY <1>1, <1>3, <2>2 DEF Prev
<1> QED BY <1>2, <1>3

LEMMA JumpInit == Init => JumpInv
<1> SUFFICES ASSUME Init PROVE JumpInv
  OBVIOUS
<1>1. \A i \in Blocks : type[i] = "UNKNOWN"
  BY DEF Init
<1> QED BY <1>1 DEF Init, JumpInv, Early, Later, HeadingTypes

LEMMA JumpStep == HierarchyInv /\ JumpInv /\ [Next]_vars => JumpInv'
<1> SUFFICES ASSUME HierarchyInv, JumpInv, [Next]_vars, source' = "layout" PROVE JumpInv'
  BY DEF JumpInv
<1>0. /\ TypeOK /\ Len(doc) \in Nat /\ Blocks = 1 .. Len(doc) /\ at \in Blocks
      /\ headings \subseteq Blocks /\ flagged \subseteq Blocks
      /\ level \in [Blocks -> 0 .. 4] /\ lastLevel \in 0 .. 4
      /\ \A h \in headings : ~Isolated(h)
  BY BlockFacts DEF HierarchyInv, TypeOK, StackInv
<1>1. CASE DetectByLayout
  <2>1. /\ source = "layout" /\ pass = "detect" /\ pass' \in Early
        /\ UNCHANGED <<doc, flagged, lastLevel>>
    BY <1>1, <1>0, AdvanceTyped DEF DetectByLayout, Early, Advance
  <2>2. /\ level \in [Blocks -> 0 .. 4] /\ type \in [Blocks -> Types] /\ Blocks' = Blocks
        /\ \A i \in Blocks : type[i] \in HeadingTypes <=> i \in headings /\ level[i] > 0
    BY <1>0, <2>1 DEF TypeOK, JumpInv, Early, Blocks
  <2>3. \A i \in Blocks : type'[i] \in HeadingTypes <=> i \in headings' /\ level'[i] > 0
    <3>1. CASE UNCHANGED <<headings, marked, level, type>>
      BY <2>2, <3>1
    <3>2. CASE Marks(at, 0, "TITLE")
      BY <1>0, <2>2, <3>2 DEF Marks, HeadingTypes
    <3>3. ASSUME NEW l \in LayoutLevels, Marks(at, l, "HEADING_1")
          PROVE \A i \in Blocks : type'[i] \in HeadingTypes <=> i \in headings' /\ level'[i] > 0
      <4>1. l \in 1 .. 4
        BY BlockAssumption DEF BlockAssumption
      <4> QED BY <1>0, <2>2, <3>3, <4>1 DEF Marks, HeadingTypes
    <3> QED BY <1>1, <3>1, <3>2, <3>3 DEF DetectByLayout
  <2> QED BY <2>1, <2>2, <2>3 DEF JumpInv, Early, Later
<1>2. CASE AssignSection \/ Nest
  <2>1. /\ UNCHANGED <<doc, source, headings, level, type, flagged, lastLevel>>
        /\ pass \in Early /\ Blocks' = Blocks
        /\ pass' \in Early \/ (pass' = "jumps" /\ at' = 1)
    BY <1>2, <1>0, Advances DEF AssignSection, Nest, Early, Blocks
  <2>2. Prev(at)' = Prev(at')
    BY <2>1 DEF Prev, Above
  <2>3. ASSUME pass' = "jumps"
        PROVE  Prev(at)' = 0 /\ \A i \in headings : ~(i < at')
    <3>1. at' = 1
      BY <2>1, <2>3 DEF Early
    <3>2. Prev(at)' = Prev(1)
      BY <2>2, <3>1
    <3>3. \A i \in headings : ~(i < 1)
      BY <1>0
    <3> QED BY <1>0, <3>1, <3>2, <3>3, PrevMoves
  <2>4. /\ \A i \in Blocks : type[i] \in HeadingTypes <=> i \in headings /\ level[i] > 0
        /\ flagged = {} /\ lastLevel = 0
    BY <2>1 DEF JumpInv, Early
  <2>5. /\ \A i \in Blocks' : type'[i] \in HeadingTypes <=> i \in headings' /\ level'[i] > 0
        /\ flagged' = {} /\ lastLevel' = 0
    BY <2>1, <2>4
  <2>6. CASE pass' \in Early
    BY <2>5, <2>6 DEF JumpInv, Early, Later
  <2>7. CASE pass' = "jumps"
    BY <2>1, <2>3, <2>5, <2>7 DEF JumpInv, Early, Later
  <2> QED BY <2>1, <2>6, <2>7
<1>3. CASE FindJump
  <2>1. /\ UNCHANGED <<doc, source, headings, level, type>>
        /\ pass = "jumps" /\ Blocks' = Blocks
        /\ \/ at < Len(doc) /\ at' = at + 1 /\ pass' = "jumps"
           \/ at = Len(doc) /\ at' = 1 /\ pass' = "classify"
    BY <1>3, <1>0, Advances DEF FindJump, Blocks
  <2>2. /\ \A i \in Blocks : type[i] \in HeadingTypes <=> i \in headings /\ level[i] > 0
        /\ lastLevel = Prev(at)
        /\ \A i \in headings : i \in flagged <=> i < at /\ Jumps(i)
    BY <2>1 DEF JumpInv
  <2>3. \A i \in Nat : Prev(i)' = Prev(i) /\ (Jumps(i)' <=> Jumps(i))
    BY <2>1 DEF Prev, Above, Jumps
  <2>4. CASE at \in headings /\ level[at] > 0
    <3>1. type[at] \in HeadingTypes /\ ~Isolated(at)
      BY <1>0, <2>2, <2>4
    <3>2. /\ flagged' = IF level[at] > lastLevel + 1 THEN flagged \cup {at} ELSE flagged
          /\ lastLevel' = level[at]
      BY <1>3, <2>4, <3>1 DEF FindJump
    <3>3. level[at] \in Nat /\ lastLevel \in Nat
      BY <1>0
    <3>4. level[at] > lastLevel + 1 <=> Jumps(at)
      BY <2>2, <2>4, <3>3 DEF Jumps
    <3>5. lastLevel' = Prev(at + 1)
      BY <1>0, <2>4, <3>2, PrevMoves
    <3>6. \A i \in headings : i \in flagged' <=> i < at + 1 /\ Jumps(i)
      BY <1>0, <2>2, <3>2, <3>4
    <3> QED BY <1>0, <2>1, <2>2, <2>3, <3>5, <3>6 DEF JumpInv, Early, Later
  <2>5. CASE ~(at \in headings /\ level[at] > 0)
    <3>1. UNCHANGED <<flagged, lastLevel>>
      BY <1>0, <1>3, <2>2, <2>5 DEF FindJump
    <3>2. lastLevel' = Prev(at + 1)
      BY <1>0, <2>2, <2>5, <3>1, PrevMoves
    <3>3. \A i \in headings : i \in flagged' <=> i < at + 1 /\ Jumps(i)
      BY <1>0, <2>2, <2>5, <3>1 DEF Jumps
    <3> QED BY <1>0, <2>1, <2>2, <2>3, <3>2, <3>3 DEF JumpInv, Early, Later
  <2> QED BY <2>4, <2>5
<1>4. CASE Classify \/ Refine \/ Fallback \/ Finished \/ UNCHANGED vars
  <2>1. /\ UNCHANGED <<doc, source, headings, level, flagged>>
        /\ (pass \in Later /\ pass' \in Later) \/ UNCHANGED vars
    BY <1>0, <1>4, AdvanceTyped DEF Classify, Refine, Fallback, Finished, vars, Later
  <2>2. CASE UNCHANGED vars
    BY <2>2 DEF JumpInv, vars, Prev, Above, Jumps, Blocks
  <2>3. CASE pass \in Later /\ pass' \in Later
    <3>1. \A i \in Nat : Jumps(i)' <=> Jumps(i)
      BY <2>1 DEF Prev, Above, Jumps
    <3>2. \A i \in headings : i \in flagged <=> Jumps(i)
      BY <2>1, <2>3 DEF JumpInv
    <3> QED BY <1>0, <2>1, <2>3, <3>1, <3>2 DEF JumpInv, Early, Later
  <2> QED BY <2>1, <2>2, <2>3
<1>5. ~DetectByRules /\ ~LayoutFails
  <2>1. DetectByRules => source # "layout" /\ source' = source
    BY DEF DetectByRules
  <2>2. LayoutFails => source' # "layout"
    BY DEF LayoutFails
  <2> QED BY <2>1, <2>2
<1> QED BY <1>1, <1>2, <1>3, <1>4, <1>5 DEF Next

(* _validate_hierarchy flags exactly the headings of a layout whose level  *)
(* is more than one below that of the heading before.                      *)
THEOREM JumpsAreFlagged == Spec => []JumpsFlagged
<1>1. TypeOK /\ JumpInv => JumpsFlagged
  <2> SUFFICES ASSUME TypeOK, JumpInv, source = "layout", Nested, pass # "jumps",
                      NEW i \in headings
               PROVE  i \in flagged <=> Jumps(i)
    BY DEF JumpsFlagged, Jumps, Prev
  <2> QED BY DEF JumpInv, Nested, Later
<1> QED BY <1>1, JumpInit, JumpStep, StackInit, StackStep, TypeCorrect, PTL DEF Spec

-----------------------------------------------------------------------------
(* Blocks without a type                                                   *)

Silent   == {"banner", "note", "empty"}
HasText  == \E j \in Blocks : doc[j] \notin Silent

TypedInv ==
    /\ WellFormed(doc)
    /\ source = "layout" /\ pass = "detect" =>
          \A i \in Blocks :
              type[i] = "UNKNOWN" \/ (i \in headings /\ type[i] \in {"TITLE", "HEADING_1"})
    /\ \A i \in Blocks : doc[i] = "banner" => type[i] = "UNKNOWN"
    /\ \A i \in Blocks : doc[i] = "note" /\ source = "rules" /\ HasText => type[i] = "UNKNOWN"
    /\ \A i \in Blocks :
          (pass = "fallback" /\ i < at) \/ pass = "done" =>
              (type[i] = "UNKNOWN" => doc[i] \in Silent)

(* With a text before the notes, no note is the first one.                 *)
LEMMA NoteIsNoTitle ==
    ASSUME TypeOK, WellFormed(doc), HasText, NEW i \in Blocks, doc[i] = "note"
    PROVE  ~IsTitle(i)
<1>1. PICK j \in Blocks : doc[j] \notin Silent
  BY DEF HasText
<1>2. Len(doc) \in Nat /\ Blocks = 1 .. Len(doc) /\ i \in Nat /\ j \in Nat
  BY BlockFacts
<1>3. ~(i < j) /\ i # j
  BY <1>1, <1>2 DEF WellFormed, Blocks, Silent
<1>4. j \in 1 .. i - 1
  BY <1>2, <1>3
<1> QED BY <1>1, <1>4 DEF IsTitle, Silent

(* A step that leaves the type of protected blocks alone, before the last  *)
(* loop.                                                                   *)
LEMMA TypedKept ==
    ASSUME TypeOK, TypedInv, UNCHANGED <<doc, source>>,
           \A i \in Blocks : Protected(i) => type'[i] = type[i],
           pass' \notin {"detect", "done"}, pass' = "fallback" => at' = 1
    PROVE  TypedInv'
<1>1. Blocks' = Blocks /\ (HasText' <=> HasText) /\ Len(doc) \in Nat /\ Blocks = 1 .. Len(doc)
  BY BlockFacts DEF Blocks, HasText
<1>2. /\ WellFormed(doc)'
      /\ \A i \in Blocks : doc'[i] = "banner" => type'[i] = "UNKNOWN"
      /\ \A i \in Blocks :
            doc'[i] = "note" /\ source' = "rules" /\ HasText' => type'[i] = "UNKNOWN"
  BY <1>1 DEF TypedInv, Protected
<1>3. \A i \in Blocks : ~(i < 1)
  BY <1>1
<1> QED BY <1>1, <1>2, <1>3 DEF TypedInv

LEMMA TypedInit == Init => TypedInv
<1> SUFFICES ASSUME Init PROVE TypedInv
  OBVIOUS
<1>1. \A i \in Blocks : type[i] = "UNKNOWN"
  BY DEF Init
<1> QED BY <1>1 DEF Init, TypedInv

LEMMA TypedStep == TypeOK /\ TypedInv /\ [Next]_vars => TypedInv'
<1> SUFFICES ASSUME TypeOK, TypedInv, [Next]_vars PROVE TypedInv'
  OBVIOUS
<1>0. /\ Len(doc) \in Nat /\ Blocks = 1 .. Len(doc) /\ at \in Blocks
      /\ type \in [Blocks -> Types]
  BY BlockFacts DEF TypeOK
<1>1. CASE DetectByRules
  <2>1. /\ UNCHANGED <<doc, source>> /\ source # "layout"
        /\ pass' \in {"detect", "assign"} /\ Blocks' = Blocks /\ (HasText' <=> HasText)
    BY <1>1, AdvanceTyped DEF DetectByRules, Blocks, HasText
  <2>2. \A i \in Blocks : type'[i] = type[i] \/ (i = at /\ IsTitle(i))
    BY <1>0, <1>1 DEF DetectByRules, Marks
  <2>3. \A i \in Blocks : doc[i] = "banner" => ~IsTitle(i)
    BY DEF IsTitle
  <2>4. \A i \in Blocks : doc[i] = "note" /\ HasText => ~IsTitle(i)
    BY NoteIsNoTitle DEF TypedInv
  <2> QED BY <2>1, <2>2, <2>3, <2>4 DEF TypedInv
<1>2. CASE DetectByLayout
  <2>1. /\ UNCHANGED doc /\ source = "layout" /\ pass = "detect"
        /\ pass' \in {"detect", "assign"} /\ Blocks' = Blocks
        /\ source' = "rules" => headings' = {}
    BY <1>2, AdvanceTyped DEF DetectByLayout, Blocks
  <2>2. \/ UNCHANGED <<headings, type>>
        \/ /\ doc[at] # "banner" /\ headings' = headings \cup {at}
           /\ type'[at] \in {"TITLE", "HEADING_1"}
           /\ \A i \in Blocks : i # at => type'[i] = type[i]
    BY <1>0, <1>2 DEF DetectByLayout, Marks, Isolated
  <2>3. \A i \in Blocks :
           type'[i] = "UNKNOWN" \/ (i \in headings' /\ type'[i] \in {"TITLE", "HEADING_1"})
    BY <2>1, <2>2 DEF TypedInv
  <2>4. \A i \in Blocks : doc[i] = "banner" => type'[i] = "UNKNOWN"
    BY <2>2 DEF TypedInv
  <2>5. source' \in {"rules", "layout"} /\ WellFormed(doc)'
    BY <1>2, <2>1 DEF DetectByLayout, TypedInv
  <2> QED BY <2>1, <2>3, <2>4, <2>5 DEF TypedInv
<1>L. CASE LayoutFails
  <2>1. /\ UNCHANGED <<doc, type>> /\ source = "layout" /\ pass = "detect"
        /\ pass' = "detect" /\ Blocks' = Blocks /\ source' # "layout"
        /\ source' = "rules" => headings = {}
    BY <1>L DEF LayoutFails, Blocks
  <2>2. source' = "rules" => \A i \in Blocks : type[i] = "UNKNOWN"
    BY <2>1 DEF TypedInv
  <2> QED BY <2>1, <2>2 DEF TypedInv
<1>3. CASE AssignSection \/ Nest \/ FindJump \/ Classify
  <2>1. /\ UNCHANGED <<doc, source>>
        /\ pass' \in {"assign", "nest", "jumps", "classify", "refine"}
    BY <1>3, AdvanceTyped DEF AssignSection, Nest, FindJump, Classify
  <2>2. \A i \in Blocks : Protected(i) => type'[i] = type[i]
    <3>1. CASE AssignSection \/ Nest \/ FindJump
      BY <3>1 DEF AssignSection, Nest, FindJump
    <3>2. CASE Classify
      <4>1. Protected(at) => type' = type
        BY <3>2 DEF Classify
      <4>2. \A i \in Blocks : i # at => type'[i] = type[i]
        BY <1>0, <3>2 DEF Classify, ClassifyFront, ClassifyReference, ClassifyBody, Becomes
      <4> QED BY <4>1, <4>2
    <3> QED BY <1>3, <3>1, <3>2
  <2> QED BY <2>1, <2>2, TypedKept
<1>4. CASE Refine
  <2>1. /\ UNCHANGED <<doc, source>>
        /\ pass' \in {"refine", "fallback"} /\ (pass' = "fallback" => at' = 1)
    BY <1>4, Advances DEF Refine
  <2>2. \A i \in Blocks : Protected(i) => type'[i] = type[i]
    BY <1>0, <1>4 DEF Refine, Becomes
  <2> QED BY <2>1, <2>2, TypedKept
<1>5. CASE Fallback
  <2>1. /\ UNCHANGED <<doc, source>> /\ pass = "fallback"
        /\ Blocks' = Blocks /\ (HasText' <=> HasText)
        /\ \/ at < Len(doc) /\ at' = at + 1 /\ pass' = "fallback"
           \/ at = Len(doc) /\ at' = 1 /\ pass' = "done"
    BY <1>5, Advances DEF Fallback, Blocks, HasText
  <2>2. \A i \in Blocks : type'[i] = type[i] \/ (i = at /\ ~Protected(at))
    BY <1>0, <1>5 DEF Fallback, Becomes
  <2>3. type'[at] = "UNKNOWN" => doc[at] \in Silent
    BY <1>0, <1>5 DEF Fallback, Becomes, Protected, Silent
  <2>4. \A i \in Blocks :
           (pass' = "fallback" /\ i < at') \/ pass' = "done" => i = at \/ i < at
    BY <1>0, <2>1
  <2>5. \A i \in Blocks :
           (pass' = "fallback" /\ i < at') \/ pass' = "done" =>
               (type'[i] = "UNKNOWN" => doc[i] \in Silent)
    BY <2>1, <2>2, <2>3, <2>4 DEF TypedInv
  <2>6. /\ \A i \in Blocks : doc[i] = "banner" => type'[i] = "UNKNOWN"
        /\ \A i \in Blocks :
              doc[i] = "note" /\ source = "rules" /\ HasText => type'[i] = "UNKNOWN"
    BY <2>2 DEF TypedInv, Protected
  <2>7. WellFormed(doc)' /\ pass' # "detect"
    BY <2>1 DEF TypedInv
  <2> QED BY <2>1, <2>5, <2>6, <2>7 DEF TypedInv
<1>6. CASE Finished \/ UNCHANGED vars
  <2>1. UNCHANGED vars
    BY <1>6 DEF Finished
  <2> QED BY <2>1 DEF vars, TypedInv, Blocks, HasText
<1> QED BY <1>1, <1>2, <1>L, <1>3, <1>4, <1>5, <1>6 DEF Next

(* Page headers keep no semantic type, notes below a text none either when *)
(* the headings are found by the rules, and at the end every other text    *)
(* has one: no pass over the blocks and no label of the LLM undoes it.     *)
THEOREM EveryTextIsTyped == Spec => []BlocksTyped
<1>1. TypedInv => BlocksTyped
  <2> SUFFICES ASSUME TypedInv PROVE BlocksTyped
    OBVIOUS
  <2>1. (\E j \in Blocks : doc[j] \notin {"banner", "note", "empty"}) <=> HasText
    BY DEF HasText, Silent
  <2> QED BY <2>1 DEF TypedInv, BlocksTyped, Silent
<1> QED BY <1>1, TypedInit, TypedStep, TypeCorrect, PTL DEF Spec

-----------------------------------------------------------------------------
(* Titles                                                                  *)

(* The first block of a set of blocks.                                     *)
LEMMA LeastIsFirst ==
    ASSUME NEW n \in Nat, NEW S \in SUBSET (1 .. n), S # {}
    PROVE  Least(S) \in S /\ \A j \in S : Least(S) <= j
<1>1. S \subseteq Nat
  OBVIOUS
<1>2. PICK x \in S : \A z \in S : ~(<<z, x>> \in OpToRel(<, Nat))
  BY <1>1, NatLessThanWellFounded, WFMin
<1>3. ASSUME NEW z \in Nat, NEW w \in Nat, z < w
      PROVE  <<z, w>> \in OpToRel(<, Nat)
  <2>1. <<z, w>> \in Nat \X Nat /\ <<z, w>>[1] = z /\ <<z, w>>[2] = w
    OBVIOUS
  <2> QED BY <1>3, <2>1, Zenon DEF OpToRel
<1>4. \A z \in S : ~(z < x)
  BY <1>1, <1>2, <1>3, Zenon
<1>5. \A z \in S : x <= z
  BY <1>1, <1>4
<1> QED BY <1>5 DEF Least

(* The blocks among which _find_first_section_index takes the first one.   *)
Reached(i) == \A j \in 1 .. i : j <= ScanLimit /\ doc[j] # "paragraph"
Openings   == {i \in Blocks : Opens(i) /\ Reached(i)}

LEMMA FirstOpening ==
    ASSUME TypeOK
    PROVE  /\ FirstSection = IF Openings # {} THEN Least(Openings)
                             ELSE (IF FrontLimit < Len(doc) THEN FrontLimit ELSE Len(doc)) + 1
           /\ FirstSection \in Nat
           /\ \A i \in Openings : FirstSection <= i
<1>1. FirstSection = IF Openings # {} THEN Least(Openings)
                     ELSE (IF FrontLimit < Len(doc) THEN FrontLimit ELSE Len(doc)) + 1
  BY DEF FirstSection, Openings, Reached
<1>2. Openings \in SUBSET (1 .. Len(doc)) /\ Len(doc) \in Nat /\ FrontLimit \in Nat
  BY BlockFacts, BlockAssumption DEF Openings, BlockAssumption
<1>3. CASE Openings # {}
  <2>1. Least(Openings) \in Openings /\ \A i \in Openings : Least(Openings) <= i
    BY <1>2, <1>3, LeastIsFirst
  <2>2. Least(Openings) \in Nat
    <3>1. Least(Openings) \in 1 .. Len(doc)
      BY <1>2, <2>1, Zenon
    <3> QED BY <3>1
  <2>3. FirstSection = Least(Openings)
    BY <1>1, <1>3, Zenon
  <2> QED BY <2>1, <2>2, <2>3, <1>1, Zenon
<1>4. CASE Openings = {}
  BY <1>1, <1>2, <1>4
<1> QED BY <1>1, <1>3, <1>4

(* A block is classified once, and only the front matter yields a title.   *)
LEMMA Classified ==
    ASSUME TypeOK, Classify
    PROVE  \/ type' = type /\ (Protected(at) \/ type[at] = "TITLE" \/ doc[at] = "empty")
           \/ /\ ~Protected(at) /\ type[at] # "TITLE" /\ doc[at] # "empty"
              /\ \E t : /\ Becomes(t)
                        /\ t = "TITLE" => at < FirstSection /\ ~titleFound /\ titleFound'
<1>1. CASE ClassifyFront /\ ~Protected(at) /\ type[at] # "TITLE" /\ doc[at] # "empty"
  BY <1>1 DEF ClassifyFront, TypeOK
<1>2. CASE ClassifyReference /\ ~Protected(at) /\ type[at] # "TITLE" /\ doc[at] # "empty"
  <2>1. (CASE at = ReferencesStart -> "REFERENCES_HEADING"
           [] at # ReferencesStart /\ at \in marked /\ level[at] = 1 -> "HEADING_1"
           [] OTHER -> "REFERENCE_ENTRY")
        \in {"REFERENCES_HEADING", "HEADING_1", "REFERENCE_ENTRY"}
    BY Zenon
  <2> QED BY <1>2, <2>1 DEF ClassifyReference
<1>3. CASE ClassifyBody /\ ~Protected(at) /\ type[at] # "TITLE" /\ doc[at] # "empty"
  <2>1. \A l : LevelType(l) # "TITLE"
    BY DEF LevelType
  <2>2. HeadingType(at) \in {"ABSTRACT_HEADING", "KEYWORDS_HEADING", "ACKNOWLEDGEMENTS",
                             "HEADING_1", LevelType(level[at])}
    BY Zenon DEF HeadingType
  <2>3. (CASE mood = "abstract" -> "ABSTRACT_BODY"
           [] mood = "keywords" -> "KEYWORDS_BODY"
           [] OTHER -> "BODY") \in {"ABSTRACT_BODY", "KEYWORDS_BODY", "BODY"}
    BY Zenon
  <2> QED BY <1>3, <2>1, <2>2, <2>3 DEF ClassifyBody
<1> QED BY <1>1, <1>2, <1>3 DEF Classify

(* The first section stays where it is while the types change.             *)
LEMMA FirstSectionStays ==
    ASSUME TypeOK, Classify
    PROVE  FirstSection' = FirstSection
<1>1. /\ UNCHANGED <<doc, marked>> /\ Blocks' = Blocks
      /\ type \in [Blocks -> Types] /\ at \in Blocks
      /\ \A i : Reached(i)' <=> Reached(i)
  BY BlockFacts DEF Classify, Blocks, TypeOK, Reached
<1>2. ASSUME NEW i \in Blocks PROVE Opens(i)' /\ Reached(i)' <=> Opens(i) /\ Reached(i)
  <2>1. CASE type'[i] = type[i]
    BY <1>1, <2>1 DEF Opens
  <2>2. CASE i = at /\ type[at] # "TITLE" /\ type'[at] # "TITLE"
    BY <1>1, <2>2 DEF Opens
  <2>3. CASE i = at /\ type[at] # "TITLE" /\ at < FirstSection
    <3>1. at \in Nat /\ FirstSection \in Nat /\ ~(FirstSection <= at)
      BY <2>3, BlockFacts, FirstOpening
    <3>2. ~(Opens(at) /\ Reached(at))
      BY <1>1, <3>1, FirstOpening DEF Openings
    <3> QED BY <1>1, <2>3, <3>2 DEF Opens
  <2> QED BY <1>1, <2>1, <2>2, <2>3, Classified DEF Becomes
<1>3. Openings' = Openings
  BY <1>1, <1>2, Zenon DEF Openings
<1> QED BY <1>1, <1>3 DEF FirstSection, Openings, Reached

(* No layout has given a title.                                            *)
TitleOpen == source \in {"rules", "rules over headings"}

(* What rules and classifier have made titles: a block that detect_title   *)
(* accepts, and one that the classifier has remembered or passed.          *)
TitleInv ==
    TitleOpen =>
        /\ pass \in {"detect", "assign", "nest", "jumps"} =>
              \A i \in Blocks :
                  \/ type[i] = "UNKNOWN"
                  \/ type[i] = "TITLE" /\ IsTitle(i)
                  \/ type[i] = "HEADING_1" /\ source # "rules"
        /\ pass = "classify" =>
              /\ \A i \in Blocks : type[i] = "TITLE" /\ (at <= i \/ Protected(i)) => IsTitle(i)
              /\ \A i \in Blocks :
                    type[i] = "TITLE" /\ i < at /\ ~Protected(i) =>
                        titleFound \/ FirstSection < at
        /\ pass = "classify" \/ (pass = "refine" /\ at = 1) =>
              \A i, j \in Blocks : type[i] = "TITLE" /\ type[j] = "TITLE" => i = j

LEMMA TitleIsUnique ==
    ASSUME TypeOK, NEW i \in Blocks, NEW j \in Blocks, IsTitle(i), IsTitle(j)
    PROVE  i = j
<1>1. i \in Nat /\ j \in Nat
  BY BlockFacts
<1>2. ~(i \in 1 .. j - 1) /\ ~(j \in 1 .. i - 1)
  BY DEF IsTitle
<1>3. i >= 1 /\ j >= 1
  BY BlockFacts
<1> QED BY <1>1, <1>2, <1>3

LEMMA TitleInit == Init => TitleInv
<1> SUFFICES ASSUME Init PROVE TitleInv
  OBVIOUS
<1>1. \A i \in Blocks : type[i] = "UNKNOWN"
  BY DEF Init
<1> QED BY <1>1 DEF Init, TitleInv

(* A layout without a title leaves at most headings.                       *)
LEMMA LayoutLeaves ==
    ASSUME TypedInv, DetectByLayout \/ LayoutFails, TitleOpen'
    PROVE  /\ pass' = "detect" /\ type' = type
           /\ \A i \in Blocks :
                 type[i] = "UNKNOWN" \/ (type[i] = "HEADING_1" /\ source' # "rules")
<1>1. CASE DetectByLayout
  <2>1. source = "layout" /\ pass = "detect" /\ pass' = "detect" /\ headings' = {}
    BY <1>1 DEF DetectByLayout, TitleOpen
  <2>2. UNCHANGED <<headings, type>>
    BY <1>1, <2>1 DEF DetectByLayout, Marks
  <2> QED BY <2>1, <2>2 DEF TypedInv
<1>2. CASE LayoutFails
  <2>1. /\ source = "layout" /\ pass = "detect" /\ pass' = "detect" /\ type' = type
        /\ \/ headings = {}
           \/ source' # "rules" /\ \A i \in headings : type[i] # "TITLE"
    BY <1>2 DEF LayoutFails, TitleOpen
  <2> QED BY <2>1 DEF TypedInv
<1> QED BY <1>1, <1>2

(* The block that the classifier makes the title is the only one.          *)
LEMMA NewTitle ==
    ASSUME TypeOK, TypedInv, TitleInv, TitleOpen, pass = "classify",
           ~Protected(at), doc[at] # "empty", at < FirstSection, ~titleFound,
           NEW i \in Blocks, type[i] = "TITLE", i # at
    PROVE  FALSE
<1>1. at \in Nat /\ i \in Nat /\ FirstSection \in Nat /\ at >= 1 /\ i >= 1
  BY BlockFacts, FirstOpening
<1>2. CASE i < at /\ ~Protected(i)
  BY <1>1, <1>2 DEF TitleInv
<1>3. CASE i < at /\ Protected(i)
  <2>1. IsTitle(i)
    BY <1>3 DEF TitleInv
  <2>2. doc[i] = "note"
    BY <1>3, <2>1 DEF IsTitle, Protected
  <2>3. doc[at] = "note"
    BY <1>3, <2>2, BlockFacts DEF TypedInv, WellFormed, Blocks
  <2> QED BY <2>3 DEF Protected
<1>4. CASE at < i
  <2>1. IsTitle(i) /\ at \in 1 .. i - 1
    BY <1>1, <1>4 DEF TitleInv
  <2> QED BY <2>1 DEF IsTitle, Protected
<1> QED BY <1>1, <1>2, <1>3, <1>4

LEMMA TitleStep == TypeOK /\ TypedInv /\ TitleInv /\ [Next]_vars => TitleInv'
<1> SUFFICES ASSUME TypeOK, TypedInv, TitleInv, [Next]_vars, TitleOpen'
             PROVE  TitleInv'
  BY DEF TitleInv
<1>0. /\ Len(doc) \in Nat /\ Blocks = 1 .. Len(doc) /\ at \in Blocks
      /\ type \in [Blocks -> Types]
      /\ Blocks' = Blocks /\ doc' = doc
      /\ \A i : (IsTitle(i)' <=> IsTitle(i)) /\ (Protected(i)' <=> Protected(i))
  <2>1. doc' = doc
    BY DEF Next, DetectByRules, DetectByLayout, LayoutFails, AssignSection, Nest, FindJump,
           Classify, Refine, Fallback, Finished, vars
  <2> QED BY <2>1, BlockFacts DEF TypeOK, Blocks, IsTitle, Protected
<1>1. CASE DetectByRules
  <2>1. /\ TitleOpen /\ source' = source
        /\ pass = "detect" /\ pass' \in {"detect", "assign"}
    BY <1>1, AdvanceTyped DEF DetectByRules, TitleOpen
  <2>2. \A i \in Blocks : type'[i] = type[i] \/ (type'[i] = "TITLE" /\ IsTitle(i))
    BY <1>0, <1>1 DEF DetectByRules, Marks
  <2> QED BY <1>0, <2>1, <2>2 DEF TitleInv
<1>2. CASE DetectByLayout \/ LayoutFails
  <2>1. /\ pass' = "detect" /\ type' = type
        /\ \A i \in Blocks :
              type[i] = "UNKNOWN" \/ (type[i] = "HEADING_1" /\ source' # "rules")
    BY <1>2, LayoutLeaves
  <2> QED BY <1>0, <2>1 DEF TitleInv
<1>3. CASE AssignSection \/ Nest \/ FindJump
  <2>1. /\ UNCHANGED <<source, type>> /\ pass \in {"assign", "nest", "jumps"}
        /\ \/ pass' \in {"assign", "nest", "jumps"}
           \/ pass' = "classify" /\ at' = 1
    BY <1>3, Advances DEF AssignSection, Nest, FindJump
  <2>2. \A i \in Blocks :
           \/ type[i] = "UNKNOWN"
           \/ type[i] = "TITLE" /\ IsTitle(i)
           \/ type[i] = "HEADING_1" /\ source # "rules"
    BY <2>1 DEF TitleInv, TitleOpen
  <2>3. \A i, j \in Blocks : type[i] = "TITLE" /\ type[j] = "TITLE" => i = j
    BY <2>2, TitleIsUnique
  <2>4. \A i \in Blocks : ~(i < 1)
    BY <1>0
  <2> QED BY <1>0, <2>1, <2>2, <2>3, <2>4 DEF TitleInv
<1>4. CASE Classify
  <2>1. /\ pass = "classify" /\ TitleOpen
        /\ \/ at < Len(doc) /\ at' = at + 1 /\ pass' = "classify"
           \/ at = Len(doc) /\ at' = 1 /\ pass' = "refine"
    BY <1>4, Advances DEF Classify, TitleOpen
  <2>2. /\ \A i \in Blocks : type[i] = "TITLE" /\ (at <= i \/ Protected(i)) => IsTitle(i)
        /\ \A i \in Blocks :
              type[i] = "TITLE" /\ i < at /\ ~Protected(i) => titleFound \/ FirstSection < at
        /\ \A i, j \in Blocks : type[i] = "TITLE" /\ type[j] = "TITLE" => i = j
    BY <2>1 DEF TitleInv
  <2>3. \A i \in Blocks : i # at \/ Protected(i) => type'[i] = type[i]
    BY <1>0, <1>4, Classified DEF Becomes
  <2>4. \A i, j \in Blocks : type'[i] = "TITLE" /\ type'[j] = "TITLE" => i = j
    <3>1. CASE type'[at] = "TITLE" /\ type[at] # "TITLE"
      <4>1. /\ ~Protected(at) /\ doc[at] # "empty" /\ at < FirstSection /\ ~titleFound
        BY <1>0, <1>4, <3>1, Classified DEF Becomes
      <4>2. \A i \in Blocks : type[i] = "TITLE" => i = at
        BY <2>1, <4>1, NewTitle
      <4> QED BY <2>3, <4>2
    <3>2. CASE type'[at] # "TITLE" \/ type[at] = "TITLE"
      BY <1>0, <2>2, <2>3, <3>2
    <3> QED BY <3>1, <3>2
  <2>5. titleFound => titleFound'
    BY <1>4 DEF Classify, ClassifyFront, ClassifyReference, ClassifyBody
  <2>6. type'[at] = "TITLE" /\ ~Protected(at) => titleFound' \/ ~(at < FirstSection)
    BY <1>0, <1>4, Classified DEF Classify, Becomes
  <2>7. FirstSection' = FirstSection /\ FirstSection \in Nat
    BY <1>4, FirstSectionStays, FirstOpening
  <2>8. ASSUME pass' = "classify"
        PROVE  /\ \A i \in Blocks : type'[i] = "TITLE" /\ (at' <= i \/ Protected(i)) => IsTitle(i)
               /\ \A i \in Blocks : type'[i] = "TITLE" /\ i < at' /\ ~Protected(i) =>
                     titleFound' \/ FirstSection' < at'
    <3>1. at' = at + 1
      BY <2>1, <2>8
    <3>2. \A i \in Blocks : (at' <= i => at <= i /\ i # at) /\ (i < at' => i < at \/ i = at)
      BY <1>0, <3>1
    <3>3. (~(at < FirstSection) => FirstSection' < at') /\ (FirstSection < at => FirstSection' < at')
      BY <1>0, <2>7, <3>1
    <3> QED BY <2>2, <2>3, <2>5, <2>6, <3>2, <3>3
  <2> QED BY <1>0, <2>1, <2>4, <2>8 DEF TitleInv
<1>5. CASE Refine \/ Fallback
  <2>1. /\ source' = source /\ pass' # "classify" /\ ~(pass' = "refine" /\ at' = 1)
        /\ pass' \notin {"detect", "assign", "nest", "jumps"}
    BY <1>0, <1>5, Advances DEF Refine, Fallback
  <2> QED BY <2>1 DEF TitleInv
<1>6. CASE Finished \/ UNCHANGED vars
  <2>1. UNCHANGED vars
    BY <1>6 DEF Finished
  <2>2. FirstSection' = FirstSection
    BY <2>1 DEF vars, FirstSection, Opens, Blocks
  <2>3. UNCHANGED <<pass, at, source, type, titleFound>> /\ (TitleOpen' <=> TitleOpen)
    BY <2>1 DEF vars, TitleOpen
  <2> QED BY <1>0, <2>2, <2>3 DEF TitleInv
<1> QED BY <1>1, <1>2, <1>3, <1>4, <1>5, <1>6 DEF Next

(* detect_title and the front matter rule of the classifier never give a   *)
(* document two titles, even when a layout failed before it gave one.      *)
THEOREM NeverTwoTitles == Spec => []OneTitle
<1>1. TitleInv => OneTitle
  BY DEF TitleInv, OneTitle, TitleByRules, Classifying, TitleOpen
<1> QED BY <1>1, TitleInit, TitleStep, TypedInit, TypedStep, TypeCorrect, PTL DEF Spec

-----------------------------------------------------------------------------
(* Front matter                                                            *)

(* A numbered or named heading that the search for the first section       *)
(* reaches is no title, and nothing below it is an author.                 *)
NamesInv ==
    TitleOpen =>
        /\ pass \in {"detect", "assign", "nest", "jumps", "classify"} =>
              \A i \in marked : level[i] > 0 /\ Reached(i) => type[i] # "TITLE"
        /\ pass = "classify" \/ (pass = "refine" /\ at = 1) =>
              \A i, j \in Blocks :
                  i < j /\ i \in marked /\ level[i] > 0 /\ type[j] = "AUTHOR" => ~Reached(i)

LEMMA NamesInit == Init => NamesInv
BY DEF Init, NamesInv

(* Such a heading before the first section was not reached.                *)
LEMMA SectionStops ==
    ASSUME TypeOK, NamesInv, TitleOpen, pass = "classify",
           NEW i \in marked, level[i] > 0, Reached(i)
    PROVE  FirstSection <= i
<1>1. i \in Blocks /\ Opens(i)
  BY DEF TypeOK, NamesInv, Opens
<1> QED BY <1>1, FirstOpening DEF Openings

LEMMA NamesStep == TypeOK /\ TypedInv /\ TitleInv /\ NamesInv /\ [Next]_vars => NamesInv'
<1> SUFFICES ASSUME TypeOK, TypedInv, TitleInv, NamesInv, [Next]_vars, TitleOpen'
             PROVE  NamesInv'
  BY DEF NamesInv
<1>0. /\ Len(doc) \in Nat /\ Blocks = 1 .. Len(doc) /\ at \in Blocks
      /\ type \in [Blocks -> Types] /\ level \in [Blocks -> 0 .. 4] /\ marked \subseteq Blocks
      /\ Blocks' = Blocks /\ doc' = doc /\ \A i : Reached(i)' <=> Reached(i)
  <2>1. doc' = doc
    BY DEF Next, DetectByRules, DetectByLayout, LayoutFails, AssignSection, Nest, FindJump,
           Classify, Refine, Fallback, Finished, vars
  <2> QED BY <2>1, BlockFacts DEF TypeOK, Blocks, Reached
<1>1. CASE DetectByRules
  <2>1. /\ TitleOpen /\ pass = "detect" /\ pass' \in {"detect", "assign"}
    BY <1>1, AdvanceTyped DEF DetectByRules, TitleOpen
  <2>2. ~IsTitle(at) => type[at] # "TITLE"
    BY <1>0, <2>1 DEF TitleInv
  <2>3. \A i \in marked' : level'[i] > 0 /\ Reached(i) => type'[i] # "TITLE"
    <3>1. CASE IsTitle(at) /\ Marks(at, 0, "TITLE")
      BY <1>0, <2>1, <3>1 DEF NamesInv, Marks
    <3>2. CASE ~IsTitle(at) /\ IsHeading(at) /\ Marks(at, HeadingLevel(at), type[at])
      <4>1. type' = type /\ marked' = marked \cup {at}
            /\ \A i \in Blocks : i # at => level'[i] = level[i]
        BY <1>0, <3>2 DEF Marks
      <4> QED BY <1>0, <2>1, <2>2, <3>2, <4>1 DEF NamesInv
    <3>3. CASE UNCHANGED <<headings, marked, level, type>>
      BY <2>1, <3>3 DEF NamesInv
    <3> QED BY <1>1, <3>1, <3>2, <3>3 DEF DetectByRules
  <2> QED BY <1>0, <2>1, <2>3 DEF NamesInv
<1>2. CASE DetectByLayout \/ LayoutFails
  <2>1. pass' = "detect" /\ \A i \in Blocks : type'[i] # "TITLE"
    BY <1>2, LayoutLeaves
  <2>2. marked' \subseteq Blocks
    BY <1>0, <1>2 DEF DetectByLayout, LayoutFails, Marks
  <2> QED BY <2>1, <2>2 DEF NamesInv
<1>3. CASE AssignSection \/ Nest \/ FindJump
  <2>1. /\ UNCHANGED <<source, type, marked, level>> /\ pass \in {"assign", "nest", "jumps"}
        /\ pass' \in {"assign", "nest", "jumps", "classify"}
    BY <1>3, AdvanceTyped DEF AssignSection, Nest, FindJump
  <2>2. \A i \in Blocks : type[i] # "AUTHOR"
    BY <2>1 DEF TitleInv, TitleOpen
  <2> QED BY <1>0, <2>1, <2>2 DEF NamesInv, TitleOpen
<1>4. CASE Classify
  <2>1. /\ pass = "classify" /\ TitleOpen /\ UNCHANGED <<marked, level>>
        /\ pass' \in {"classify", "refine"}
    BY <1>4, AdvanceTyped DEF Classify, TitleOpen
  <2>2. \A i \in Blocks : i # at => type'[i] = type[i]
    BY <1>0, <1>4, Classified DEF Becomes
  <2>3. type'[at] = "TITLE" => type[at] = "TITLE" \/ at < FirstSection
    BY <1>0, <1>4, Classified DEF Becomes
  <2>4. type'[at] = "AUTHOR" => type[at] = "AUTHOR" \/ at < FirstSection
    <3>1. CASE ClassifyReference
      <4>1. (CASE at = ReferencesStart -> "REFERENCES_HEADING"
               [] at # ReferencesStart /\ at \in marked /\ level[at] = 1 -> "HEADING_1"
               [] OTHER -> "REFERENCE_ENTRY") # "AUTHOR"
        BY Zenon
      <4> QED BY <1>0, <3>1, <4>1 DEF ClassifyReference, Becomes
    <3>2. CASE ClassifyBody
      <4>1. \A l : LevelType(l) # "AUTHOR"
        BY DEF LevelType
      <4>2. HeadingType(at) \in {"ABSTRACT_HEADING", "KEYWORDS_HEADING", "ACKNOWLEDGEMENTS",
                                 "HEADING_1", LevelType(level[at])}
        BY Zenon DEF HeadingType
      <4>3. (CASE mood = "abstract" -> "ABSTRACT_BODY"
               [] mood = "keywords" -> "KEYWORDS_BODY"
               [] OTHER -> "BODY") \in {"ABSTRACT_BODY", "KEYWORDS_BODY", "BODY"}
        BY Zenon
      <4> QED BY <1>0, <3>2, <4>1, <4>2, <4>3 DEF ClassifyBody, Becomes
    <3>3. CASE ClassifyFront
      BY <3>3 DEF ClassifyFront
    <3> QED BY <1>0, <1>4, <3>1, <3>2, <3>3 DEF Classify, Becomes
  <2>5. FirstSection \in Nat /\ at \in Nat
        /\ \A i \in marked : level[i] > 0 /\ Reached(i) => i \in Nat /\ FirstSection <= i
    BY <1>0, <2>1, FirstOpening, SectionStops
  <2>6. \A i \in marked : level[i] > 0 /\ Reached(i) => type'[i] # "TITLE"
    <3> SUFFICES ASSUME NEW i \in marked, level[i] > 0, Reached(i) PROVE type'[i] # "TITLE"
      OBVIOUS
    <3>1. type[i] # "TITLE"
      BY <2>1 DEF NamesInv
    <3>2. i = at => ~(at < FirstSection)
      BY <2>5
    <3> QED BY <1>0, <2>2, <2>3, <3>1, <3>2
  <2>7. \A i, j \in Blocks :
           i < j /\ i \in marked /\ level[i] > 0 /\ type'[j] = "AUTHOR" => ~Reached(i)
    <3> SUFFICES ASSUME NEW i \in Blocks, NEW j \in Blocks, i < j, i \in marked, level[i] > 0,
                        type'[j] = "AUTHOR", Reached(i)
                 PROVE  FALSE
      OBVIOUS
    <3>1. type[j] # "AUTHOR"
      BY <2>1 DEF NamesInv
    <3>2. j = at /\ at < FirstSection
      BY <2>2, <2>4, <3>1
    <3> QED BY <1>0, <2>5, <3>2
  <2> QED BY <1>0, <2>1, <2>6, <2>7 DEF NamesInv
<1>5. CASE Refine \/ Fallback
  <2>1. /\ pass' # "classify" /\ ~(pass' = "refine" /\ at' = 1)
        /\ pass' \notin {"detect", "assign", "nest", "jumps"}
    BY <1>0, <1>5, Advances DEF Refine, Fallback
  <2> QED BY <2>1 DEF NamesInv
<1>6. CASE Finished \/ UNCHANGED vars
  <2>1. UNCHANGED vars
    BY <1>6 DEF Finished
  <2> QED BY <1>0, <2>1 DEF vars, NamesInv, TitleOpen
<1> QED BY <1>1, <1>2, <1>3, <1>4, <1>5, <1>6 DEF Next

(* _find_first_section_index ends the front matter in time: below a        *)
(* heading that it can reach the classifier makes no block an author, nor  *)
(* below one that a failed layout left.                                    *)
THEOREM AuthorsComeFirst == Spec => []NamesBeforeSections
<1>1. TypeOK /\ NamesInv => NamesBeforeSections
  <2> SUFFICES ASSUME TypeOK, NamesInv, TitleByRules, NEW i \in Blocks, NEW j \in Blocks,
                      i < j, i \in marked, level[i] > 0, type[j] = "AUTHOR"
               PROVE  \E k \in 1 .. i : doc[k] = "paragraph" \/ k > ScanLimit
    BY DEF NamesBeforeSections
  <2>1. ~Reached(i)
    BY DEF NamesInv, TitleByRules, Classifying, TitleOpen
  <2>2. i \in Nat /\ ScanLimit \in Nat
    BY BlockFacts, BlockAssumption DEF BlockAssumption
  <2> QED BY <2>1, <2>2 DEF Reached
<1> QED BY <1>1, NamesInit, NamesStep, TitleInit, TitleStep, TypedInit, TypedStep, TypeCorrect,
           PTL DEF Spec

-----------------------------------------------------------------------------
(* The abstract                                                            *)

Last(i) == IF Above(i) = {} THEN 0 ELSE Greatest(Above(i))

LEMMA LastMoves ==
    ASSUME TypeOK
    PROVE  /\ Last(1) = 0
           /\ Last(at + 1) = IF at \in headings /\ level[at] > 0 THEN at ELSE Last(at)
           /\ \A i \in Nat : Last(i) = 0 \/ (Last(i) \in headings /\ Last(i) < i)
<1>0. /\ Len(doc) \in Nat /\ at \in 1 .. Len(doc) /\ headings \subseteq 1 .. Len(doc)
  BY BlockFacts DEF TypeOK
<1>a. level \in [1 .. Len(doc) -> 0 .. 4]
  BY BlockFacts DEF TypeOK
<1>1. Above(1) = {}
  <2>1. \A j \in headings : ~(j < 1)
    BY <1>0
  <2> QED BY <2>1 DEF Above
<1>2. ASSUME NEW i \in Nat, Above(i) # {}
      PROVE  Greatest(Above(i)) \in Above(i) /\ \A j \in Above(i) : j <= Greatest(Above(i))
  <2>1. Above(i) \in SUBSET (1 .. Len(doc))
    BY <1>0 DEF Above
  <2> QED BY <1>0, <1>2, <2>1, GreatestIsLast
<1>3. ASSUME NEW i \in Nat
      PROVE  Last(i) = 0 \/ (Last(i) \in headings /\ Last(i) < i)
  BY <1>2 DEF Last, Above
<1>4. CASE at \in headings /\ level[at] > 0
  <2>1. at + 1 \in Nat /\ at \in Above(at + 1)
    BY <1>0, <1>4 DEF Above
  <2>2. Greatest(Above(at + 1)) \in Above(at + 1) /\ at <= Greatest(Above(at + 1))
    BY <1>2, <2>1
  <2>3. Greatest(Above(at + 1)) \in 1 .. Len(doc) /\ Greatest(Above(at + 1)) < at + 1
    BY <1>0, <2>2 DEF Above
  <2>4. Greatest(Above(at + 1)) = at
    BY <1>0, <2>2, <2>3
  <2> QED BY <1>1, <1>3, <1>4, <2>1, <2>4 DEF Last
<1>5. CASE ~(at \in headings /\ level[at] > 0)
  <2>1. \A j \in headings : j < at + 1 <=> j < at \/ j = at
    BY <1>0
  <2>2. Above(at + 1) = Above(at)
    BY <1>5, <2>1, Zenon DEF Above
  <2> QED BY <1>1, <1>3, <1>5, <2>2 DEF Last
<1> QED BY <1>4, <1>5

(* Above a heading that detect_title accepts there is none: it would have  *)
(* a text and come first.                                                  *)
LEMMA TitleComesFirst ==
    ASSUME TypeOK, StackInv, at \in headings, IsTitle(at)
    PROVE  Last(at) = 0
<1>1. Len(doc) \in Nat /\ at \in 1 .. Len(doc) /\ headings \subseteq 1 .. Len(doc)
  BY BlockFacts DEF TypeOK
<1>2. \A h \in headings : h < at => h \in 1 .. at - 1
  BY <1>1
<1>3. \A h \in headings : h < at => doc[h] \in {"banner", "empty"}
  BY <1>2 DEF IsTitle
<1>4. \A h \in headings : doc[h] \notin {"banner", "empty"}
  BY DEF StackInv, Isolated
<1>5. Above(at) = {}
  BY <1>3, <1>4 DEF Above
<1> QED BY <1>5 DEF Last

(* _assign_section_names gives a block the last heading before it that is  *)
(* no title, itself included.                                              *)
SectionInv ==
    /\ pass = "detect" => current = 0
    /\ source = "rules" =>
          /\ \A h \in headings : IsTitle(h) <=> level[h] = 0
          /\ pass = "assign" =>
                /\ current = Last(at)
                /\ \A i \in Blocks : i < at /\ ~Isolated(i) => section[i] = Last(i + 1)
          /\ pass \in {"nest", "jumps", "classify", "refine"} =>
                \A i \in Blocks : ~Isolated(i) => section[i] = Last(i + 1)

LEMMA SectionInit == Init => SectionInv
BY DEF Init, SectionInv

LEMMA SectionStep == HierarchyInv /\ TitleInv /\ SectionInv /\ [Next]_vars => SectionInv'
<1> SUFFICES ASSUME HierarchyInv, TitleInv, SectionInv, [Next]_vars PROVE SectionInv'
  OBVIOUS
<1>0. /\ TypeOK /\ Len(doc) \in Nat /\ Blocks = 1 .. Len(doc) /\ at \in Blocks
      /\ section \in [Blocks -> 0 .. Len(doc)]
      /\ headings \subseteq Blocks /\ level \in [Blocks -> 0 .. 4]
      /\ \A h \in headings : ~Isolated(h)
  BY BlockFacts DEF HierarchyInv, TypeOK, StackInv
<1>1. /\ doc' = doc /\ Blocks' = Blocks
      /\ \A i : (Isolated(i)' <=> Isolated(i)) /\ (IsTitle(i)' <=> IsTitle(i))
  <2>1. doc' = doc
    BY DEF Next, DetectByRules, DetectByLayout, LayoutFails, AssignSection, Nest, FindJump,
           Classify, Refine, Fallback, Finished, vars
  <2> QED BY <2>1 DEF Blocks, Isolated, IsTitle
<1>2. CASE DetectByRules
  <2>1. /\ current' = current /\ source' = source /\ pass = "detect"
        /\ pass' = "detect" \/ (pass' = "assign" /\ at' = 1)
    BY <1>0, <1>2, Advances DEF DetectByRules
  <2>2. headings' \subseteq headings \cup {at} /\ headings' \subseteq Blocks
    BY <1>0, <1>2 DEF DetectByRules, Marks
  <2>3. ASSUME pass' = "assign"
        PROVE  Last(at)' = 0 /\ \A i \in Blocks : ~(i < at')
    <3>1. at' = 1 /\ \A i \in Blocks : ~(i < 1)
      BY <1>0, <2>1, <2>3
    <3>2. Above(at)' = {}
      BY <2>2, <3>1 DEF Above
    <3> QED BY <3>1, <3>2 DEF Last
  <2>4. ASSUME source = "rules"
        PROVE  \A h \in headings' : IsTitle(h) <=> level'[h] = 0
    <3>1. HeadingLevel(at) # 0
      BY LevelTyped
    <3>2. /\ at \in headings' => at \in headings \/ level'[at] = 0 \/ ~IsTitle(at)
          /\ \A h \in headings : h # at => level'[h] = level[h]
      BY <1>0, <1>2 DEF DetectByRules, Marks
    <3>3. IsTitle(at) => level'[at] = 0
      BY <1>0, <1>2 DEF DetectByRules, Marks
    <3>4. ~IsTitle(at) /\ at \in headings' => level'[at] # 0
      BY <1>0, <1>2, <2>4, <3>1 DEF DetectByRules, Marks, SectionInv
    <3>5. \A h \in headings : IsTitle(h) <=> level[h] = 0
      BY <2>4 DEF SectionInv
    <3> QED BY <2>2, <3>2, <3>3, <3>4, <3>5
  <2> QED BY <1>1, <2>1, <2>3, <2>4 DEF SectionInv
<1>L. CASE DetectByLayout \/ LayoutFails
  <2>1. /\ current' = current /\ pass = "detect" /\ source = "layout"
        /\ source' = "rules" => headings' = {} /\ pass' = "detect"
    BY <1>L DEF DetectByLayout, LayoutFails
  <2> QED BY <2>1 DEF SectionInv
<1>3. CASE AssignSection
  <2>1. /\ pass = "assign" /\ UNCHANGED <<source, headings, level>>
        /\ \/ at < Len(doc) /\ at' = at + 1 /\ pass' = "assign"
           \/ at = Len(doc) /\ at' = 1 /\ pass' = "nest"
    BY <1>0, <1>3, Advances DEF AssignSection
  <2>a. CASE source # "rules"
    BY <2>1, <2>a DEF SectionInv
  <2>b. CASE source = "rules"
    <3>1. \A i \in Nat : Last(i)' = Last(i)
      BY <2>1 DEF Last, Above
    <3>2. \A h \in headings : (IsTitle(h) <=> level[h] = 0) /\ (type[h] = "TITLE" => IsTitle(h))
      BY <1>0, <2>1, <2>b DEF SectionInv, TitleInv, TitleOpen
    <3>3. at \in headings => (OpensTitle(at) <=> ~(level[at] > 0)) /\ ~Isolated(at)
      BY <1>0, <3>2 DEF OpensTitle
    <3>4. current' = IF at \in headings /\ level[at] > 0 THEN at
                     ELSE IF at \in headings THEN 0 ELSE current
      BY <1>3, <3>3 DEF AssignSection
    <3>5. current = Last(at) /\ (at \in headings /\ IsTitle(at) => Last(at) = 0)
      BY <1>0, <2>1, <2>b, TitleComesFirst DEF SectionInv, HierarchyInv
    <3>6. current' = Last(at + 1)
      BY <1>0, <3>2, <3>3, <3>4, <3>5, LastMoves DEF OpensTitle
    <3>7. \A i \in Blocks : i < at + 1 /\ ~Isolated(i) => section'[i] = Last(i + 1)
      <4> SUFFICES ASSUME NEW i \in Blocks, i < at + 1, ~Isolated(i)
                   PROVE  section'[i] = Last(i + 1)
        OBVIOUS
      <4>1. CASE i = at
        BY <1>0, <1>3, <3>6, <4>1 DEF AssignSection
      <4>2. CASE i # at
        <5>1. i < at
          BY <1>0, <4>2
        <5>2. section'[i] = section[i]
          BY <1>0, <1>3, <4>2 DEF AssignSection
        <5> QED BY <2>1, <2>b, <5>1, <5>2 DEF SectionInv
      <4> QED BY <4>1, <4>2
    <3>8. \A i \in Blocks : i + 1 \in Nat /\ (at = Len(doc) => i < at + 1)
      BY <1>0
    <3>9. CASE at' = at + 1 /\ pass' = "assign"
      <4>1. Last(at)' = Last(at + 1)
        <5>1. Last(at)' = Last(at')
          BY <2>1 DEF Last, Above
        <5> QED BY <3>9, <5>1
      <4> QED BY <1>1, <2>1, <3>1, <3>2, <3>6, <3>7, <3>8, <3>9, <4>1 DEF SectionInv
    <3>10. CASE at = Len(doc) /\ pass' = "nest"
      BY <1>1, <2>1, <3>1, <3>2, <3>7, <3>8, <3>10 DEF SectionInv
    <3> QED BY <2>1, <3>9, <3>10
  <2> QED BY <2>a, <2>b
<1>4. CASE Nest \/ FindJump \/ Classify \/ Refine
  <2>1. /\ UNCHANGED <<source, headings, level, section>>
        /\ pass \in {"nest", "jumps", "classify", "refine"}
        /\ pass' \in {"nest", "jumps", "classify", "refine", "fallback"}
    BY <1>0, <1>4, AdvanceTyped DEF Nest, FindJump, Classify, Refine
  <2>2. \A i \in Blocks : Last(i + 1)' = Last(i + 1)
    BY <2>1 DEF Last, Above
  <2> QED BY <1>1, <2>1, <2>2 DEF SectionInv
<1>5. CASE Fallback
  <2>1. pass' \in {"fallback", "done"} /\ UNCHANGED <<source, headings, level>>
    BY <1>0, <1>5, AdvanceTyped DEF Fallback
  <2> QED BY <1>1, <2>1 DEF SectionInv
<1>6. CASE Finished \/ UNCHANGED vars
  <2>1. UNCHANGED vars
    BY <1>6 DEF Finished
  <2> QED BY <1>1, <2>1 DEF vars, SectionInv, Last, Above
<1> QED BY <1>2, <1>L, <1>3, <1>4, <1>5, <1>6 DEF Next

(* While the classifier is in the body of the document, it is in the mood  *)
(* of an abstract exactly below a heading that it took for one.            *)
InAbstractSection(i) == Last(i) # 0 /\ type[Last(i)] = "ABSTRACT_HEADING"

Belongs(i) ==
    /\ type[i] = "ABSTRACT_BODY" => section[i] > 0 /\ type[section[i]] = "ABSTRACT_HEADING"
    /\ type[i] = "BODY" /\ section[i] > 0 => type[section[i]] # "ABSTRACT_HEADING"

MoodInv ==
    /\ \A i \in Blocks : at <= i /\ type[i] # "UNKNOWN" => type[i] = "TITLE" /\ IsTitle(i)
    /\ at <= FirstSection => mood = "generic"
    /\ at <= ReferencesStart => (mood = "abstract" <=> InAbstractSection(at))

AbstractInv ==
    /\ pass \in {"detect", "assign", "nest", "jumps"} => mood = "generic"
    /\ source \in {"rules", "layout"} => marked = headings
    /\ source = "rules" =>
          /\ \A h \in headings : IsTitle(h) \/ doc[h] \in Headed \cup Keywords \cup {"hinted"}
          /\ pass = "classify" => MoodInv
          /\ pass = "classify" \/ (pass = "refine" /\ at = 1) => \A i \in Blocks : Belongs(i)

LEMMA AbstractInit == Init => AbstractInv
BY DEF Init, AbstractInv

LEMMA ReferencesTyped ==
    ASSUME TypeOK PROVE ReferencesStart \in Nat
<1> DEFINE found == {i \in marked : doc[i] \in {"references", "mention"}}
<1>1. found \in SUBSET (1 .. Len(doc)) /\ Len(doc) \in Nat
  BY BlockFacts DEF TypeOK
<1>2. ReferencesStart = IF found # {} THEN Least(found) ELSE Len(doc) + 1
  BY DEF ReferencesStart
<1> HIDE DEF found
<1>3. CASE found # {}
  <2>1. Least(found) \in found
    BY <1>1, <1>3, LeastIsFirst
  <2>2. Least(found) \in 1 .. Len(doc)
    BY <1>1, <2>1, Zenon
  <2>3. ReferencesStart = Least(found)
    BY <1>2, <1>3, Zenon
  <2> QED BY <1>1, <2>2, <2>3
<1>4. CASE found = {}
  BY <1>1, <1>2, <1>4
<1> QED BY <1>3, <1>4

(* The name of the section decides whether a heading is that of an         *)
(* abstract.                                                               *)
LEMMA HeadingTypeByName ==
    ASSUME NEW i
    PROVE  /\ HeadingType(i) = "ABSTRACT_HEADING" <=> SectionName(i) = "abstract"
           /\ HeadingType(i) \notin {"BODY", "ABSTRACT_BODY"}
<1>1. \A l : LevelType(l) \notin {"ABSTRACT_HEADING", "BODY", "ABSTRACT_BODY"}
  BY DEF LevelType
<1>2. SectionName(i) = "abstract" => HeadingType(i) = "ABSTRACT_HEADING"
  BY DEF HeadingType
<1>3. SectionName(i) # "abstract" => HeadingType(i) \in {"KEYWORDS_HEADING", "ACKNOWLEDGEMENTS",
                                                          "HEADING_1", LevelType(level[i])}
  BY Zenon DEF HeadingType
<1> QED BY <1>1, <1>2, <1>3

(* A heading decides the mood, any other block and the title keep it.      *)
LEMMA MoodStep ==
    ASSUME HierarchyInv, SectionInv, AbstractInv, source = "rules", Classify,
           at < ReferencesStart
    PROVE  mood' = "abstract" <=> IF at \in headings /\ level[at] > 0
                                  THEN type'[at] = "ABSTRACT_HEADING"
                                  ELSE mood = "abstract"
<1>0. /\ at \in Blocks /\ at \in Nat /\ type \in [Blocks -> Types] /\ level[at] \in 0 .. 4
      /\ ReferencesStart \in Nat /\ FirstSection \in Nat /\ pass = "classify" /\ MoodInv
      /\ TypeOK /\ StackInv /\ marked = headings
  BY BlockFacts, ReferencesTyped, FirstOpening DEF HierarchyInv, TypeOK, Classify, AbstractInv
<1>1. type[at] \in {"UNKNOWN", "TITLE"} /\ (type[at] = "TITLE" => IsTitle(at))
  BY <1>0 DEF MoodInv
<1>2. at \in headings => (IsTitle(at) <=> ~(level[at] > 0))
  BY <1>0 DEF SectionInv
<1>3. at \in headings /\ IsTitle(at) => mood # "abstract" /\ Last(at) = 0
  BY <1>0, TitleComesFirst DEF MoodInv, InAbstractSection
<1>4. at \in headings /\ (Protected(at) \/ type[at] = "TITLE" \/ doc[at] \in {"empty", "caption"})
         => IsTitle(at)
  BY <1>1 DEF AbstractInv, Protected, Headed, Keywords
<1>5. CASE Protected(at) \/ type[at] = "TITLE" \/ doc[at] \in {"empty", "caption"}
  <2>1. mood' = mood
    BY <1>5 DEF Classify
  <2> QED BY <1>2, <1>4, <1>5, <2>1
<1>6. CASE ClassifyFront
  <2>1. mood' = mood /\ mood = "generic"
    BY <1>0, <1>6 DEF ClassifyFront, MoodInv
  <2>2. type'[at] # "ABSTRACT_HEADING"
    BY <1>0, <1>6 DEF ClassifyFront, Becomes
  <2> QED BY <2>1, <2>2
<1>7. CASE ClassifyBody
  <2>1. CASE at \in headings
    <3>1. type'[at] = HeadingType(at) /\ mood' = Moods(SectionName(at))
      BY <1>0, <1>7, <2>1 DEF ClassifyBody, Becomes
    <3>2. mood' = "abstract" <=> SectionName(at) = "abstract"
      BY <3>1 DEF Moods
    <3>3. section[at] = Last(at + 1)
      BY <1>0, <2>1 DEF SectionInv, StackInv
    <3>4. CASE level[at] > 0
      BY <2>1, <3>1, <3>2, <3>4, HeadingTypeByName
    <3>5. CASE ~(level[at] > 0)
      <4>1. section[at] = 0 /\ mood # "abstract"
        BY <1>0, <1>2, <1>3, <2>1, <3>3, <3>5, LastMoves
      <4> QED BY <3>2, <3>5, <4>1 DEF SectionName
    <3> QED BY <3>4, <3>5
  <2>2. CASE at \notin headings
    BY <1>0, <1>7, <2>2 DEF ClassifyBody
  <2> QED BY <2>1, <2>2
<1>8. ~ClassifyReference
  BY <1>0 DEF ClassifyReference
<1> QED BY <1>5, <1>6, <1>7, <1>8 DEF Classify

(* Only text of the body zone becomes body text, that of an abstract in    *)
(* the mood for it.                                                        *)
LEMMA BodyStep ==
    ASSUME TypeOK, AbstractInv, source = "rules", Classify, type'[at] \in {"BODY", "ABSTRACT_BODY"}
    PROVE  /\ at \notin headings /\ ~Isolated(at) /\ at < ReferencesStart
           /\ type'[at] = "ABSTRACT_BODY" <=> mood = "abstract"
<1>0. /\ at \in Blocks /\ at \in Nat /\ type \in [Blocks -> Types]
      /\ pass = "classify" /\ MoodInv /\ marked = headings
  BY BlockFacts DEF TypeOK, Classify, AbstractInv
<1>1. type[at] \in {"UNKNOWN", "TITLE"}
  BY <1>0 DEF MoodInv
<1>2. ~ClassifyFront
  BY <1>0 DEF ClassifyFront, Becomes
<1>3. ~ClassifyReference
  <2>1. (CASE at = ReferencesStart -> "REFERENCES_HEADING"
           [] at # ReferencesStart /\ at \in marked /\ level[at] = 1 -> "HEADING_1"
           [] OTHER -> "REFERENCE_ENTRY")
        \in {"REFERENCES_HEADING", "HEADING_1", "REFERENCE_ENTRY"}
    BY Zenon
  <2> QED BY <1>0, <2>1 DEF ClassifyReference, Becomes
<1>4. ~Protected(at) /\ ClassifyBody
  BY <1>0, <1>1, <1>2, <1>3 DEF Classify, Becomes
<1>5. at \notin headings
  BY <1>0, <1>4, HeadingTypeByName DEF ClassifyBody, Becomes
<1>6. type'[at] = CASE mood = "abstract" -> "ABSTRACT_BODY"
                    [] mood = "keywords" -> "KEYWORDS_BODY"
                    [] OTHER -> "BODY"
  BY <1>0, <1>4, <1>5 DEF ClassifyBody, Becomes
<1>7. type'[at] = "ABSTRACT_BODY" <=> mood = "abstract"
  BY <1>6
<1> QED BY <1>4, <1>5, <1>7 DEF ClassifyBody, Protected, Isolated

LEMMA ClassifyAbstract ==
    ASSUME HierarchyInv, TypedInv, SectionInv, AbstractInv, source = "rules", Classify
    PROVE  AbstractInv'
<1>0. /\ TypeOK /\ Len(doc) \in Nat /\ Blocks = 1 .. Len(doc) /\ at \in Blocks
      /\ type \in [Blocks -> Types] /\ headings \subseteq Blocks
      /\ FirstSection \in Nat /\ ReferencesStart \in Nat
      /\ MoodInv /\ \A i \in Blocks : Belongs(i)
  BY BlockFacts, FirstOpening, ReferencesTyped
  DEF HierarchyInv, TypeOK, AbstractInv, Classify
<1>1. /\ UNCHANGED <<doc, source, headings, marked, level, section>> /\ Blocks' = Blocks /\ pass = "classify"
      /\ \/ at < Len(doc) /\ at' = at + 1 /\ pass' = "classify"
         \/ at = Len(doc) /\ at' = 1 /\ pass' = "refine"
      /\ \A i : IsTitle(i)' <=> IsTitle(i)
      /\ ReferencesStart' = ReferencesStart
  BY <1>0, Advances DEF Classify, Blocks, IsTitle, ReferencesStart
<1>2. \A i \in Blocks : i # at => type'[i] = type[i]
  BY <1>0, Classified DEF Becomes
<1>3. FirstSection' = FirstSection
  BY <1>0, FirstSectionStays
<1>4. /\ \A i \in Nat : Last(i) # 0 => Last(i) \in Blocks /\ Last(i) < i
      /\ Last(at) # 0 => Last(at) \in Blocks /\ Last(at) # at /\ Last(at) > 0
  <2>1. \A i \in Nat : Last(i) # 0 => Last(i) \in Blocks /\ Last(i) < i
    BY <1>0, LastMoves
  <2>2. at \in Nat /\ (Last(at) # 0 => Last(at) \in Blocks /\ Last(at) < at)
    BY <1>0, <2>1
  <2> QED BY <1>0, <2>1, <2>2
<1>5. \A i \in Blocks : i \in Nat /\ i + 1 \in Nat
  BY <1>0
<1>6. \A i \in Blocks : Belongs(i)'
  <2> SUFFICES ASSUME NEW i \in Blocks, type'[i] \in {"BODY", "ABSTRACT_BODY"}
               PROVE  Belongs(i)'
    BY DEF Belongs
  <2>1. CASE i = at
    <3>1. /\ at \notin headings /\ ~Isolated(at) /\ at < ReferencesStart
          /\ type'[at] = "ABSTRACT_BODY" <=> mood = "abstract"
      BY <1>0, <2>1, BodyStep
    <3>2. section[at] = Last(at)
      BY <1>0, <1>1, <3>1, LastMoves DEF SectionInv
    <3>3. mood = "abstract" <=> InAbstractSection(at)
      BY <1>0, <1>5, <3>1 DEF MoodInv
    <3>4. type'[Last(at)] = type[Last(at)] \/ Last(at) = 0
      BY <1>2, <1>4
    <3> QED BY <1>1, <1>4, <2>1, <3>1, <3>2, <3>3, <3>4 DEF Belongs, InAbstractSection
  <2>2. CASE i # at
    <3>1. type'[i] = type[i]
      BY <1>2, <2>2
    <3>2. i < at /\ ~Isolated(i)
      BY <1>0, <2>2, <3>1 DEF MoodInv, TypedInv, Isolated
    <3>3. section[i] = Last(i + 1)
      BY <1>1, <3>2 DEF SectionInv
    <3>4. section[i] # 0 => section[i] \in Blocks /\ section[i] # at
      <4>1. i + 1 \in Nat /\ i \in Nat /\ at \in Nat
        BY <1>0
      <4>2. section[i] # 0 => section[i] \in Blocks /\ section[i] < i + 1
        BY <1>4, <3>3, <4>1
      <4> QED BY <1>0, <3>2, <4>2
    <3>5. section[i] # 0 => type'[section[i]] = type[section[i]]
      BY <1>2, <3>4
    <3>6. section[i] > 0 => section[i] # 0
      OBVIOUS
    <3> QED BY <1>0, <1>1, <3>1, <3>5, <3>6 DEF Belongs
  <2> QED BY <2>1, <2>2
<1>7. ASSUME at' = at + 1 PROVE MoodInv'
  <2>1. \A i \in Blocks : at' <= i => i # at /\ at <= i
    BY <1>0, <1>7
  <2>2. \A i \in Blocks' : at' <= i /\ type'[i] # "UNKNOWN" => type'[i] = "TITLE" /\ IsTitle(i)'
    BY <1>0, <1>1, <1>2, <2>1 DEF MoodInv
  <2>3. at' <= FirstSection' => mood' = "generic"
    <3>1. at' <= FirstSection' => at < FirstSection /\ at <= FirstSection /\ ~(at >= FirstSection)
      BY <1>0, <1>3, <1>7
    <3>2. ~(at >= FirstSection) => mood' = mood
      BY DEF Classify, ClassifyFront, ClassifyReference, ClassifyBody
    <3> QED BY <1>0, <3>1, <3>2 DEF MoodInv
  <2>4. ASSUME at' <= ReferencesStart'
        PROVE  mood' = "abstract" <=> InAbstractSection(at)'
    <3>1. at < ReferencesStart /\ at <= ReferencesStart
      BY <1>0, <1>1, <1>7, <2>4
    <3>2. mood' = "abstract" <=> IF at \in headings /\ level[at] > 0
                                 THEN type'[at] = "ABSTRACT_HEADING"
                                 ELSE mood = "abstract"
      BY <1>0, <3>1, MoodStep
    <3>3. InAbstractSection(at)' <=>
             Last(at + 1) # 0 /\ type'[Last(at + 1)] = "ABSTRACT_HEADING"
      <4>1. Last(at)' = Last(at')
        BY <1>1 DEF Last, Above
      <4> QED BY <1>7, <4>1 DEF InAbstractSection
    <3>4. CASE at \in headings /\ level[at] > 0
      BY <1>0, <3>2, <3>3, <3>4, LastMoves
    <3>5. CASE ~(at \in headings /\ level[at] > 0)
      <4>1. Last(at + 1) = Last(at)
        BY <1>0, <3>5, LastMoves
      <4>2. Last(at) # 0 => type'[Last(at)] = type[Last(at)]
        BY <1>2, <1>4
      <4>3. mood = "abstract" <=> InAbstractSection(at)
        BY <1>0, <3>1 DEF MoodInv
      <4> QED BY <3>2, <3>3, <3>5, <4>1, <4>2, <4>3 DEF InAbstractSection
    <3> QED BY <3>4, <3>5
  <2> QED BY <2>2, <2>3, <2>4 DEF MoodInv
<1>8. \A h \in headings : (IsTitle(h) \/ doc[h] \in Headed \cup Keywords \cup {"hinted"})'
  BY <1>1 DEF AbstractInv
<1> QED BY <1>1, <1>6, <1>7, <1>8 DEF AbstractInv

LEMMA AbstractStep ==
    HierarchyInv /\ TypedInv /\ TitleInv /\ SectionInv /\ AbstractInv /\ [Next]_vars
        => AbstractInv'
<1> SUFFICES ASSUME HierarchyInv, TypedInv, TitleInv, SectionInv, AbstractInv, [Next]_vars
             PROVE  AbstractInv'
  OBVIOUS
<1>0. /\ TypeOK /\ Len(doc) \in Nat /\ Blocks = 1 .. Len(doc) /\ at \in Blocks
      /\ Blocks' = Blocks /\ doc' = doc /\ \A i : IsTitle(i)' <=> IsTitle(i)
  <2>1. doc' = doc
    BY DEF Next, DetectByRules, DetectByLayout, LayoutFails, AssignSection, Nest, FindJump,
           Classify, Refine, Fallback, Finished, vars
  <2> QED BY <2>1, BlockFacts DEF HierarchyInv, TypeOK, Blocks, IsTitle
<1>1. CASE DetectByRules
  <2>1. /\ source' = source /\ source # "layout" /\ pass' \in {"detect", "assign"}
        /\ mood' = mood /\ pass = "detect"
    BY <1>0, <1>1, AdvanceTyped DEF DetectByRules
  <2>2. /\ headings' \subseteq headings \cup {at}
        /\ at \in headings' => at \in headings \/ IsTitle(at) \/ IsHeading(at)
        /\ marked = headings => marked' = headings'
    BY <1>1 DEF DetectByRules, Marks
  <2>3. IsHeading(at) => doc[at] \in Headed \cup Keywords \cup {"hinted"}
    BY DEF IsHeading
  <2>4. source = "rules" =>
           \A h \in headings' : IsTitle(h) \/ doc[h] \in Headed \cup Keywords \cup {"hinted"}
    BY <2>2, <2>3 DEF AbstractInv
  <2> QED BY <1>0, <2>1, <2>2, <2>4 DEF AbstractInv
<1>2. CASE DetectByLayout \/ LayoutFails
  <2>1. /\ pass = "detect" /\ pass' \in {"detect", "assign"} /\ mood' = mood
        /\ source = "layout" /\ marked = headings
    BY <1>0, <1>2, AdvanceTyped DEF DetectByLayout, LayoutFails, AbstractInv
  <2>2. source' = "rules" => headings' = {} /\ pass' = "detect"
    BY <1>2 DEF DetectByLayout, LayoutFails
  <2>3. source' \in {"rules", "layout"} => marked' = headings'
    BY <1>2, <2>1 DEF DetectByLayout, LayoutFails, Marks
  <2> QED BY <1>0, <2>1, <2>2, <2>3 DEF AbstractInv
<1>3. CASE AssignSection \/ Nest \/ FindJump
  <2>1. /\ UNCHANGED <<source, headings, marked, level, type, mood>> /\ pass \in {"assign", "nest", "jumps"}
        /\ pass' \in {"assign", "nest", "jumps"} \/ (pass' = "classify" /\ at' = 1)
    BY <1>0, <1>3, Advances DEF AssignSection, Nest, FindJump
  <2>2. mood = "generic"
    BY <2>1 DEF AbstractInv
  <2>3. ASSUME source = "rules"
        PROVE  \A i \in Blocks : type[i] # "UNKNOWN" => type[i] = "TITLE" /\ IsTitle(i)
    BY <2>1, <2>3 DEF TitleInv, TitleOpen
  <2>4. ASSUME source = "rules", pass' = "classify"
        PROVE  MoodInv' /\ \A i \in Blocks : Belongs(i)'
    <3>1. Last(at)' = 0
      <4>1. Last(at)' = Last(at')
        BY <2>1 DEF Last, Above
      <4> QED BY <1>0, <2>1, <2>4, <4>1, LastMoves
    <3> QED BY <1>0, <2>1, <2>2, <2>3, <2>4, <3>1 DEF MoodInv, Belongs, InAbstractSection
  <2> QED BY <1>0, <2>1, <2>2, <2>4 DEF AbstractInv
<1>4. CASE Classify
  <2>1. CASE source = "rules"
    BY <1>4, <2>1, ClassifyAbstract
  <2>2. CASE source # "rules"
    <3>1. UNCHANGED <<source, marked, headings>> /\ pass' \in {"classify", "refine"}
      BY <1>0, <1>4, AdvanceTyped DEF Classify
    <3> QED BY <2>2, <3>1 DEF AbstractInv
  <2> QED BY <2>1, <2>2
<1>5. CASE Refine \/ Fallback
  <2>1. /\ UNCHANGED <<source, headings, marked>>
        /\ pass' \notin {"classify", "detect", "assign", "nest", "jumps"}
        /\ ~(pass' = "refine" /\ at' = 1)
    BY <1>0, <1>5, Advances DEF Refine, Fallback
  <2> QED BY <1>0, <2>1 DEF AbstractInv
<1>6. CASE Finished \/ UNCHANGED vars
  <2>1. UNCHANGED vars
    BY <1>6 DEF Finished
  <2> QED BY <1>0, <2>1
      DEF vars, AbstractInv, MoodInv, Belongs, InAbstractSection, Last, Above, FirstSection,
          Opens, ReferencesStart
<1> QED BY <1>1, <1>2, <1>3, <1>4, <1>5, <1>6 DEF Next

(* The running section of the classifier and the section names of the      *)
(* detector agree on what the abstract is, unless a layout has failed      *)
(* after it had marked a block.                                            *)
THEOREM AbstractsAgree == Spec => []AbstractBelongs
<1>1. AbstractInv => AbstractBelongs
  BY DEF AbstractInv, AbstractBelongs, ByRules, Classifying, Belongs
<1> QED BY <1>1, AbstractInit, AbstractStep, SectionInit, SectionStep, TitleInit, TitleStep,
           TypedInit, TypedStep, StackInit, StackStep, TypeCorrect, PTL
        DEF Spec, HierarchyInv
=============================================================================
