------------------------ MODULE BlockStructureProofs ------------------------
(***************************************************************************)
(* The types of BlockStructure, and that its stack of open headings finds  *)
(* the nearest heading of a lower level, for documents of any length.      *)
(***************************************************************************)
EXTENDS BlockStructure, WellFoundedInduction, TLAPS

(* The last block of a set of blocks.                                      *)
LEMMA GreatestIsLast ==
    ASSUME NEW n \in Nat, NEW S \in SUBSET (1 .. n), S # {}
    PROVE  Greatest(S) \in S /\ \A j \in S : j <= Greatest(S)
<1> DEFINE T == {n - x : x \in S}
<1>1. T \subseteq Nat
  OBVIOUS
<1>2. T # {}
  BY Zenon
<1>3. PICK y \in T : \A z \in T : ~(<<z, y>> \in OpToRel(<, Nat))
  BY <1>1, <1>2, NatLessThanWellFounded, WFMin
<1>a. ASSUME NEW z \in Nat, NEW w \in Nat, z < w
      PROVE  <<z, w>> \in OpToRel(<, Nat)
  <2>1. <<z, w>> \in Nat \X Nat /\ <<z, w>>[1] = z /\ <<z, w>>[2] = w
    OBVIOUS
  <2> QED  BY <1>a, <2>1, Zenon DEF OpToRel
<1>b. \A z \in T : ~(z < y)
  BY <1>1, <1>3, <1>a, Zenon
<1>c. \A z \in T : y <= z
  BY <1>1, <1>b
<1>4. PICK x \in S : y = n - x
  BY <1>3
<1>5. ASSUME NEW j \in S
      PROVE  j <= x
  <2>1. n - j \in T
    OBVIOUS
  <2>2. y <= n - j
    BY <1>c, <2>1, Zenon
  <2>3. j \in 1 .. n /\ x \in 1 .. n
    BY Zenon
  <2> HIDE DEF T
  <2> QED  BY <1>4, <2>2, <2>3
<1> QED  BY <1>4, <1>5 DEF Greatest

-----------------------------------------------------------------------------
(* Types                                                                   *)

LEMMA TypeInit == Init => TypeOK
<1> SUFFICES ASSUME Init PROVE TypeOK
  OBVIOUS
<1>1. PICK n \in 1 .. MaxBlocks :
         doc \in [1 .. n -> IF source = "rules" THEN Kinds ELSE LayoutKinds]
  BY DEF Init
<1>2. doc \in [1 .. n -> AllKinds] /\ n \in Nat /\ n >= 1
  BY <1>1, BlockAssumption DEF BlockAssumption
<1>3. doc \in Seq(AllKinds) /\ Len(doc) = n /\ Blocks = 1 .. n
  BY <1>2 DEF Blocks
<1>4. "UNKNOWN" \in Types
  BY DEF Types
<1>5. /\ level = [i \in Blocks |-> 0] /\ section = [i \in Blocks |-> 0]
      /\ parent = [i \in Blocks |-> 0] /\ type = [i \in Blocks |-> "UNKNOWN"]
  BY DEF Init
<1>6. 0 \in 0 .. Len(doc) /\ Len(doc) \in 1 .. MaxBlocks
  BY <1>1, <1>2, <1>3
<1>7. /\ level \in [Blocks -> 0 .. 4] /\ section \in [Blocks -> 0 .. Len(doc)]
      /\ parent \in [Blocks -> 0 .. Len(doc)] /\ type \in [Blocks -> Types]
  BY <1>4, <1>5, <1>6
<1>8. at \in 1 .. Len(doc)
  BY <1>2, <1>3 DEF Init
<1>9. source \in Sources
  BY DEF Init, Sources
<1> QED  BY <1>3, <1>6, <1>7, <1>8, <1>9 DEF Init, TypeOK

(* Blocks and the block of the loop.                                       *)
LEMMA BlockFacts ==
    ASSUME TypeOK
    PROVE  Len(doc) \in Nat /\ Blocks = 1 .. Len(doc) /\ at \in Blocks /\ at \in Nat
BY DEF TypeOK, Blocks

LEMMA AdvanceTyped ==
    ASSUME TypeOK, NEW next, Advance(next)
    PROVE  at' \in 1 .. Len(doc) /\ pass' \in {pass, next}
BY DEF TypeOK, Advance

LEMMA LevelTyped ==
    ASSUME NEW i PROVE HeadingLevel(i) \in 1 .. 4
<1>1. HeadingLevel(i) \in {1, 2, 3, 4}
  <2>1. InferredLevel(i) \in {1, 2, 3, 4}
    BY Zenon DEF InferredLevel
  <2>2. HeadingLevel(i) \in {2, 3, InferredLevel(i)}
    BY Zenon DEF HeadingLevel
  <2> QED  BY <2>1, <2>2
<1> QED  BY <1>1

LEMMA MarksTyped ==
    ASSUME TypeOK, NEW l \in 0 .. 4, NEW t \in Types, Marks(at, l, t)
    PROVE  /\ headings' \subseteq marked' /\ marked' \subseteq Blocks
           /\ marked \subseteq marked'
           /\ level' \in [Blocks -> 0 .. 4]
           /\ type' \in [Blocks -> Types]
BY BlockFacts DEF TypeOK, Marks

LEMMA BecomesTyped ==
    ASSUME TypeOK, NEW t \in Types, Becomes(t)
    PROVE  type' \in [Blocks -> Types]
BY BlockFacts DEF TypeOK, Becomes

(* Parents are blocks, and only headings are on the stack.                 *)
LEMMA NestTyped ==
    ASSUME TypeOK, Nest
    PROVE  parent' \in [Blocks -> 0 .. Len(doc)] /\ stack' \subseteq marked
<1> DEFINE below == Lower(level[at])
<1>1. below \subseteq marked /\ below \subseteq 1 .. Len(doc) /\ Len(doc) \in Nat
  BY BlockFacts DEF Lower, TypeOK
<1>2. below # {} => Greatest(below) \in 0 .. Len(doc)
  <2> SUFFICES ASSUME below # {} PROVE Greatest(below) \in 0 .. Len(doc)
    OBVIOUS
  <2>1. Greatest(below) \in below
    BY <1>1, GreatestIsLast
  <2> QED  BY <1>1, <2>1
<1> HIDE DEF below
<1> QED  BY <1>1, <1>2, BlockFacts DEF Nest, TypeOK, below

(* A classified block has one of the types.                                *)
LEMMA ClassifyTyped ==
    ASSUME TypeOK, Classify
    PROVE  /\ type' \in [Blocks -> Types]
           /\ titleFound' \in BOOLEAN
           /\ mood' \in {"generic", "abstract", "keywords"}
<1>1. CASE UNCHANGED <<type, titleFound, mood>>
  BY <1>1 DEF TypeOK
<1>2. CASE UNCHANGED <<type, mood>> /\ titleFound' = (titleFound \/ at < FirstSection)
  BY <1>2 DEF TypeOK
<1>3. CASE Becomes("FIGURE_CAPTION") /\ UNCHANGED <<titleFound, mood>>
  BY <1>3, BecomesTyped DEF TypeOK, Types
<1>4. CASE ClassifyFront
  <2>1. \E t \in Types : Becomes(t)
    BY <1>4 DEF ClassifyFront, Types
  <2> QED  BY <1>4, <2>1, BecomesTyped DEF ClassifyFront, TypeOK
<1>5. CASE ClassifyReference
  <2>1. (CASE at = ReferencesStart -> "REFERENCES_HEADING"
           [] at # ReferencesStart /\ at \in marked /\ level[at] = 1 -> "HEADING_1"
           [] OTHER -> "REFERENCE_ENTRY") \in Types
    BY Zenon DEF Types
  <2> QED  BY <1>5, <2>1, BecomesTyped DEF ClassifyReference, TypeOK
<1>6. CASE ClassifyBody
  <2>1. \A l : LevelType(l) \in Types
    BY DEF LevelType, Types
  <2>2. HeadingType(at) \in Types
    <3>1. HeadingType(at) \in {"ABSTRACT_HEADING", "KEYWORDS_HEADING", "ACKNOWLEDGEMENTS",
                               "HEADING_1", LevelType(level[at])}
      BY Zenon DEF HeadingType
    <3> QED  BY <2>1, <3>1 DEF Types
  <2>3. (CASE mood = "abstract" -> "ABSTRACT_BODY"
           [] mood = "keywords" -> "KEYWORDS_BODY"
           [] OTHER -> "BODY") \in Types
    BY Zenon DEF Types
  <2>4. \E t \in Types : Becomes(t)
    BY <1>6, <2>2, <2>3 DEF ClassifyBody
  <2>5. mood' \in {"generic", "abstract", "keywords"}
    BY <1>6 DEF ClassifyBody, Moods, TypeOK
  <2> QED  BY <1>6, <2>4, <2>5, BecomesTyped DEF ClassifyBody, TypeOK
<1> QED  BY <1>1, <1>2, <1>3, <1>4, <1>5, <1>6 DEF Classify

LEMMA TypeStep == TypeOK /\ [Next]_vars => TypeOK'
<1> SUFFICES ASSUME TypeOK, [Next]_vars PROVE TypeOK'
  OBVIOUS
<1>0. Len(doc) \in Nat /\ Blocks = 1 .. Len(doc) /\ at \in Blocks /\ at \in Nat
  BY BlockFacts
<1>a. "TITLE" \in Types /\ "HEADING_1" \in Types /\ "BODY" \in Types
  BY DEF Types
<1>b. ASSUME doc' = doc PROVE Blocks' = Blocks /\ Len(doc)' = Len(doc)
  BY <1>b DEF Blocks
<1>1. CASE DetectByRules
  <2>1. at' \in 1 .. Len(doc) /\ pass' \in {pass, "assign"}
    BY <1>1, AdvanceTyped DEF DetectByRules
  <2>2. type[at] \in Types
    BY <1>0 DEF TypeOK
  <2>3. /\ headings' \subseteq marked' /\ marked' \subseteq Blocks /\ marked \subseteq marked'
        /\ level' \in [Blocks -> 0 .. 4] /\ type' \in [Blocks -> Types]
    <3>1. CASE UNCHANGED <<headings, marked, level, type>>
      BY <3>1 DEF TypeOK
    <3>2. CASE Marks(at, 0, "TITLE")
      BY <3>2, <1>a, MarksTyped
    <3>3. CASE Marks(at, HeadingLevel(at), type[at])
      <4>1. HeadingLevel(at) \in 0 .. 4
        BY LevelTyped
      <4> QED  BY <3>3, <4>1, <2>2, MarksTyped
    <3> QED  BY <1>1, <3>1, <3>2, <3>3 DEF DetectByRules
  <2> QED  BY <1>1, <1>b, <2>1, <2>3 DEF DetectByRules, TypeOK
<1>2. CASE DetectByLayout
  <2>1. at' \in 1 .. Len(doc) /\ pass' \in {pass, "assign"}
    BY <1>2, <1>0, AdvanceTyped DEF DetectByLayout
  <2>3. source' \in Sources
    BY <1>2 DEF DetectByLayout, TypeOK, Sources
  <2>2. /\ headings' \subseteq marked' /\ marked' \subseteq Blocks /\ marked \subseteq marked'
        /\ level' \in [Blocks -> 0 .. 4] /\ type' \in [Blocks -> Types]
    <3>1. CASE UNCHANGED <<headings, marked, level, type>>
      BY <3>1 DEF TypeOK
    <3>2. CASE Marks(at, 0, "TITLE")
      BY <3>2, <1>a, MarksTyped
    <3>3. ASSUME NEW l \in LayoutLevels, Marks(at, l, "HEADING_1")
          PROVE  /\ headings' \subseteq marked' /\ marked' \subseteq Blocks
                 /\ marked \subseteq marked'
                 /\ level' \in [Blocks -> 0 .. 4] /\ type' \in [Blocks -> Types]
      <4>1. l \in 0 .. 4
        BY BlockAssumption DEF BlockAssumption
      <4> QED  BY <3>3, <4>1, <1>a, MarksTyped
    <3> QED  BY <1>2, <3>1, <3>2, <3>3 DEF DetectByLayout
  <2> QED  BY <1>2, <1>b, <2>1, <2>2, <2>3 DEF DetectByLayout, TypeOK
<1>L. CASE LayoutFails
  <2>1. at' \in 1 .. Len(doc) /\ headings' = {}
    <3>1. 1 \in 1 .. Len(doc)
      BY <1>0
    <3> QED  BY <1>L, <3>1, Zenon DEF LayoutFails
  <2>2. source' \in Sources
    BY <1>L DEF LayoutFails, Sources
  <2> QED  BY <1>L, <1>b, <2>1, <2>2 DEF LayoutFails, TypeOK
<1>3. CASE AssignSection
  <2>1. at' \in 1 .. Len(doc) /\ pass' \in {pass, "nest"}
    BY <1>3, AdvanceTyped DEF AssignSection
  <2>2. current' \in 0 .. Len(doc) /\ section' \in [Blocks -> 0 .. Len(doc)]
    BY <1>3, <1>0 DEF AssignSection, TypeOK
  <2> QED  BY <1>3, <1>b, <2>1, <2>2 DEF AssignSection, TypeOK
<1>4. CASE Nest
  <2>1. at' \in 1 .. Len(doc) /\ pass' \in {pass, "jumps"}
    BY <1>4, AdvanceTyped DEF Nest
  <2>2. parent' \in [Blocks -> 0 .. Len(doc)] /\ stack' \subseteq marked
    BY <1>4, <1>0, NestTyped
  <2> QED  BY <1>4, <1>b, <2>1, <2>2 DEF Nest, TypeOK
<1>5. CASE FindJump
  <2>1. at' \in 1 .. Len(doc) /\ pass' \in {pass, "classify"}
    BY <1>5, AdvanceTyped DEF FindJump
  <2> QED  BY <1>5, <1>0, <1>b, <2>1 DEF FindJump, TypeOK
<1>6. CASE Classify
  <2>1. at' \in 1 .. Len(doc) /\ pass' \in {pass, "refine"}
    BY <1>6, AdvanceTyped DEF Classify
  <2> QED  BY <1>6, <1>b, <2>1, ClassifyTyped DEF Classify, TypeOK
<1>7. CASE Refine
  <2>1. at' \in 1 .. Len(doc) /\ pass' \in {pass, "fallback"}
    BY <1>7, AdvanceTyped DEF Refine
  <2>2. type' \in [Blocks -> Types]
    BY <1>7, BecomesTyped, BlockAssumption DEF Refine, BlockAssumption, TypeOK
  <2> QED  BY <1>7, <1>b, <2>1, <2>2 DEF Refine, TypeOK
<1>8. CASE Fallback
  <2>1. at' \in 1 .. Len(doc) /\ pass' \in {pass, "done"}
    BY <1>8, AdvanceTyped DEF Fallback
  <2>2. type' \in [Blocks -> Types]
    BY <1>8, <1>a, BecomesTyped DEF Fallback, TypeOK
  <2> QED  BY <1>8, <1>b, <2>1, <2>2 DEF Fallback, TypeOK
<1>9. CASE Finished \/ UNCHANGED vars
  BY <1>9 DEF Finished, vars, TypeOK, Blocks
<1> QED  BY <1>1, <1>2, <1>L, <1>3, <1>4, <1>5, <1>6, <1>7, <1>8, <1>9 DEF Next

(* Every reachable state is well typed, for all kinds of text, labels and  *)
(* limits: what _run_classification leaves in a block is a type of the     *)
(* system, and no parent or section lies outside the document.             *)
THEOREM TypeCorrect == Spec => []TypeOK
BY TypeInit, TypeStep, PTL DEF Spec

-----------------------------------------------------------------------------
(* Parents                                                                 *)

(* What _build_hierarchy relies on.  The headings on the stack are those   *)
(* below which every later one so far is of a higher level.                *)
Open(h) == h < at /\ \A m \in headings : h < m /\ m < at => level[h] < level[m]

StackInv ==
    /\ \A h \in headings : ~Isolated(h) /\ doc[h] # "empty"
    /\ pass \in {"detect", "assign"} => stack = {} /\ \A i \in Blocks : parent[i] = 0
    /\ pass = "nest" =>
          /\ stack = {h \in headings : Open(h)}
          /\ \A i \in Blocks : i >= at => parent[i] = 0

HierarchyInv == TypeOK /\ StackInv /\ ParentIsNearest

(* The last heading on the stack below a level is the nearest of all       *)
(* headings below it.                                                      *)
LEMMA LastOpenIsNearest ==
    ASSUME TypeOK, stack = {h \in headings : Open(h)}, Lower(level[at]) # {}
    PROVE  NearestLower(at, Greatest(Lower(level[at])))
<1> DEFINE below == Lower(level[at])
           before == {j \in headings : j < at /\ level[j] < level[at]}
<1>0. Len(doc) \in Nat /\ Blocks = 1 .. Len(doc) /\ at \in Blocks /\ at \in Nat
  BY BlockFacts
<1>1. below \subseteq before
  BY DEF Lower, Open
<1>2. before \subseteq 1 .. Len(doc) /\ level \in [1 .. Len(doc) -> 0 .. 4]
      /\ headings \subseteq 1 .. Len(doc)
  BY <1>0 DEF TypeOK
<1>3. Greatest(below) \in below /\ \A j \in below : j <= Greatest(below)
  BY <1>0, <1>1, <1>2, GreatestIsLast
<1>4. Greatest(before) \in before /\ \A j \in before : j <= Greatest(before)
  BY <1>0, <1>1, <1>2, GreatestIsLast
<1>5. Greatest(before) \in below
  <2> DEFINE g == Greatest(before)
  <2>1. g \in headings /\ g < at /\ level[g] < level[at]
    BY <1>4
  <2>2. ASSUME NEW m \in headings, g < m, m < at
        PROVE  level[g] < level[m]
    <3>1. m \notin before
      BY <1>0, <1>2, <1>4, <2>2
    <3> QED  BY <1>0, <1>2, <2>1, <2>2, <3>1
  <2> QED  BY <2>1, <2>2 DEF Lower, Open
<1>6. \A j \in before : j <= Greatest(below)
  <2> DEFINE g == Greatest(before)
             l == Greatest(below)
  <2>1. g \in Nat /\ l \in Nat /\ g <= l
    BY <1>1, <1>2, <1>3, <1>4, <1>5
  <2>2. \A j \in before : j \in Nat /\ j <= g
    BY <1>2, <1>4
  <2> HIDE DEF below, before, g, l
  <2>3. \A j \in before : j <= l
    BY <2>1, <2>2
  <2> QED  BY <2>3 DEF l
<1>7. Greatest(below) # 0
  BY <1>1, <1>2, <1>3
<1> QED  BY <1>1, <1>3, <1>6, <1>7 DEF NearestLower

(* Without such a heading there is none at all.                            *)
LEMMA NoneOpenIsNone ==
    ASSUME TypeOK, stack = {h \in headings : Open(h)}, Lower(level[at]) = {}
    PROVE  NearestLower(at, 0)
<1> DEFINE before == {j \in headings : j < at /\ level[j] < level[at]}
<1>0. Len(doc) \in Nat /\ Blocks = 1 .. Len(doc) /\ at \in Blocks /\ at \in Nat
  BY BlockFacts
<1>1. before \subseteq 1 .. Len(doc) /\ level \in [1 .. Len(doc) -> 0 .. 4]
      /\ headings \subseteq 1 .. Len(doc)
  BY <1>0 DEF TypeOK
<1>2. before = {}
  <2> SUFFICES ASSUME before # {} PROVE FALSE
    OBVIOUS
  <2> DEFINE g == Greatest(before)
  <2>1. g \in before /\ \A j \in before : j <= g
    BY <1>0, <1>1, GreatestIsLast
  <2>2. g \in headings /\ g < at /\ level[g] < level[at]
    BY <2>1
  <2>3. ASSUME NEW m \in headings, g < m, m < at
        PROVE  level[g] < level[m]
    <3>1. m \notin before
      BY <1>0, <1>1, <2>1, <2>3
    <3> QED  BY <1>0, <1>1, <2>2, <2>3, <3>1
  <2>4. g \in Lower(level[at])
    BY <2>2, <2>3 DEF Lower, Open
  <2> QED  BY <2>4
<1> QED  BY <1>2 DEF NearestLower

LEMMA StackInit == Init => HierarchyInv
<1> SUFFICES ASSUME Init PROVE HierarchyInv
  OBVIOUS
<1>1. TypeOK
  BY TypeInit
<1>2. StackInv /\ ParentIsNearest
  BY DEF Init, StackInv, ParentIsNearest
<1> QED  BY <1>1, <1>2 DEF HierarchyInv

(* The steps of the detection find no heading in a page header, and leave  *)
(* stack and parents alone.                                                *)
LEMMA StackDetect ==
    ASSUME HierarchyInv, DetectByRules \/ DetectByLayout \/ LayoutFails
    PROVE  StackInv' /\ ParentIsNearest'
<1>1. pass = "detect" /\ pass' \in {"detect", "assign"} /\ UNCHANGED <<doc, stack, parent>>
  BY DEF DetectByRules, DetectByLayout, LayoutFails, Advance
<1>2. \A h \in headings : ~Isolated(h) /\ doc[h] # "empty"
  BY DEF HierarchyInv, StackInv
<1>3. \/ headings' \subseteq headings
      \/ headings' = headings \cup {at} /\ ~Isolated(at) /\ doc[at] # "empty"
  BY DEF DetectByRules, DetectByLayout, LayoutFails, Marks, IsTitle, IsHeading, Headed,
         Keywords, Isolated
<1>4. \A h \in headings' : ~Isolated(h)' /\ doc'[h] # "empty"
  BY <1>1, <1>2, <1>3 DEF Isolated
<1> QED  BY <1>1, <1>4 DEF HierarchyInv, StackInv, ParentIsNearest, Nested, Blocks

LEMMA StackAssign ==
    ASSUME HierarchyInv, AssignSection
    PROVE  StackInv' /\ ParentIsNearest'
<1>1. /\ pass = "assign" /\ UNCHANGED <<doc, headings, level, stack, parent>>
      /\ pass' = "assign" \/ (pass' = "nest" /\ at' = 1)
  BY DEF AssignSection, Advance
<1>2. Len(doc) \in Nat /\ Blocks = 1 .. Len(doc) /\ headings \subseteq Blocks
  BY BlockFacts DEF HierarchyInv, TypeOK
<1>3. pass' = "nest" => {h \in headings' : Open(h)'} = {}
  <2> SUFFICES ASSUME pass' = "nest", NEW h \in headings', Open(h)' PROVE FALSE
    OBVIOUS
  <2>1. h < 1 /\ h \in 1 .. Len(doc)
    BY <1>1, <1>2 DEF Open
  <2> QED  BY <1>2, <2>1
<1> QED  BY <1>1, <1>2, <1>3 DEF HierarchyInv, StackInv, ParentIsNearest, Nested, Blocks, Isolated

LEMMA StackNest ==
    ASSUME HierarchyInv, Nest
    PROVE  StackInv' /\ ParentIsNearest'
<1> USE DEF HierarchyInv
<1>0. Len(doc) \in Nat /\ Blocks = 1 .. Len(doc) /\ at \in Blocks /\ at \in Nat
  BY BlockFacts
<1>1. pass = "nest" /\ UNCHANGED <<doc, headings, level>> /\ Blocks' = Blocks
  BY DEF Nest, Blocks
<1>2. \/ pass' = "nest" /\ at' = at + 1
      \/ pass' = "jumps" /\ at = Len(doc)
  BY <1>1 DEF Nest, Advance
<1>3. /\ stack = {h \in headings : Open(h)}
      /\ \A i \in Blocks : i >= at => parent[i] = 0
      /\ \A h \in headings : ~Isolated(h) /\ doc[h] # "empty"
  BY <1>1 DEF StackInv
<1>4. headings \subseteq Blocks /\ level \in [Blocks -> 0 .. 4] /\ parent \in [Blocks -> 0 .. Len(doc)]
  BY DEF TypeOK
<1>5. \A i \in headings : i < at => NearestLower(i, parent[i])
  BY <1>1 DEF ParentIsNearest
<1>6. \A i \in Blocks : i # at => parent'[i] = parent[i]
  BY <1>4 DEF Nest
<1>7. at \in headings => NearestLower(at, parent'[at])
  <2> SUFFICES ASSUME at \in headings PROVE NearestLower(at, parent'[at])
    OBVIOUS
  <2>1. CASE Lower(level[at]) = {}
    <3>1. parent'[at] = 0
      BY <1>0, <1>3, <2>1 DEF Nest
    <3> QED  BY <1>3, <2>1, <3>1, NoneOpenIsNone
  <2>2. CASE Lower(level[at]) # {}
    <3>1. parent'[at] = Greatest(Lower(level[at]))
      BY <1>0, <1>3, <1>4, <2>2 DEF Nest
    <3> QED  BY <1>3, <2>2, <3>1, LastOpenIsNearest
  <2> QED  BY <2>1, <2>2
<1>8. \A i \in headings : i <= at => NearestLower(i, parent'[i])
  BY <1>0, <1>4, <1>5, <1>6, <1>7
<1>9. \A i, p : NearestLower(i, p)' <=> NearestLower(i, p)
  BY <1>1 DEF NearestLower
<1>10. ParentIsNearest'
  BY <1>0, <1>1, <1>2, <1>4, <1>8, <1>9 DEF ParentIsNearest, Nested
<1>11. pass' = "nest" => stack' = {h \in headings' : Open(h)'}
  <2> SUFFICES ASSUME at' = at + 1 PROVE stack' = {h \in headings' : Open(h)'}
    BY <1>2
  <2>1. CASE at \in headings
    <3>1. stack' = {h \in stack : level[h] < level[at]} \cup {at}
      BY <1>3, <2>1 DEF Nest, Lower
    <3>2. ASSUME NEW h \in headings
          PROVE  Open(h)' <=> h = at \/ (Open(h) /\ level[h] < level[at])
      BY <1>0, <1>1, <1>4, <2>1 DEF Open
    <3> QED  BY <1>1, <1>3, <2>1, <3>1, <3>2
  <2>2. CASE at \notin headings
    <3>1. stack' = stack
      BY <2>2 DEF Nest
    <3>2. ASSUME NEW h \in headings PROVE Open(h)' <=> Open(h)
      BY <1>0, <1>1, <1>4, <2>2 DEF Open
    <3> QED  BY <1>1, <1>3, <3>1, <3>2
  <2> QED  BY <2>1, <2>2
<1>12. pass' = "nest" => \A i \in Blocks : i >= at' => parent'[i] = 0
  BY <1>0, <1>2, <1>3, <1>6
<1>13. \A h \in headings' : ~Isolated(h)' /\ doc'[h] # "empty"
  BY <1>1, <1>3 DEF Isolated
<1> QED  BY <1>1, <1>2, <1>10, <1>11, <1>12, <1>13 DEF StackInv

(* Later passes leave headings, levels and parents alone.                  *)
LEMMA StackLater ==
    ASSUME HierarchyInv, FindJump \/ Classify \/ Refine \/ Fallback \/ Finished
    PROVE  StackInv' /\ ParentIsNearest'
<1>1. /\ Nested /\ Nested' /\ pass \notin {"detect", "assign", "nest"}
      /\ pass' \notin {"detect", "assign", "nest"}
      /\ UNCHANGED <<doc, headings, level, parent, stack>>
  BY DEF FindJump, Classify, Refine, Fallback, Finished, Advance, Nested, vars
<1>2. \A i, p : NearestLower(i, p)' <=> NearestLower(i, p)
  BY <1>1 DEF NearestLower
<1> QED  BY <1>1, <1>2 DEF HierarchyInv, StackInv, ParentIsNearest, Isolated

LEMMA StackStep == HierarchyInv /\ [Next]_vars => HierarchyInv'
<1> SUFFICES ASSUME HierarchyInv, [Next]_vars PROVE HierarchyInv'
  OBVIOUS
<1>1. TypeOK'
  BY TypeStep DEF HierarchyInv
<1>2. StackInv' /\ ParentIsNearest'
  <2>1. CASE UNCHANGED vars
    BY <2>1 DEF vars, HierarchyInv, StackInv, ParentIsNearest, NearestLower, Nested, Blocks,
              Isolated, Open
  <2>2. CASE Next
    BY <2>2, StackDetect, StackAssign, StackNest, StackLater DEF Next
  <2> QED  BY <2>1, <2>2
<1> QED  BY <1>1, <1>2 DEF HierarchyInv

(* Whatever the blocks of a document are and however many, and whether its *)
(* headings come from the rules or a layout, the parent that               *)
(* _build_hierarchy gives to a heading is the nearest one of a lower level.*)
THEOREM ParentsAreNearest == Spec => []ParentIsNearest
<1>1. HierarchyInv => ParentIsNearest
  BY DEF HierarchyInv
<1> QED  BY <1>1, StackInit, StackStep, PTL DEF Spec
=============================================================================
