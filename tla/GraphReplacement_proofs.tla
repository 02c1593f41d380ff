----------------------- MODULE GraphReplacement_proofs -----------------------
(***************************************************************************)
(* Writers of a whole graph, any number of them and graphs of any size: a  *)
(* replacement nobody disturbs leaves the new graph or the old one, and    *)
(* the last of those that overlap stands, whatever runs start meanwhile.   *)
(***************************************************************************)
EXTENDS GraphReplacement, TLAPS

USE ReplacementAssumption DEF Kind

-----------------------------------------------------------------------------
(* Steps and edges of one author                                           *)

LEMMA StepFacts ==
    ASSUME NEW w \in Author, NEW n \in 0 .. Size
    PROVE  /\ FirstSteps(w, n) \subseteq StepId
           /\ \A s \in FirstSteps(w, n) : s[1] = w /\ s[2] \in 1 .. n
           /\ \A s \in StepId : s[1] = w /\ s[2] <= n => s \in FirstSteps(w, n)
  BY DEF FirstSteps, StepId, Author

LEMMA NextStep ==
    ASSUME NEW w \in Author, NEW n \in 0 .. Size, n < Size
    PROVE  FirstSteps(w, n + 1) = FirstSteps(w, n) \cup {<<w, n + 1>>}
  BY DEF FirstSteps

LEMMA NextEdge ==
    ASSUME NEW w \in Author, NEW n \in 0 .. Size
    PROVE  FirstEdges(w, n + 1) = FirstEdges(w, n) \cup {<<<<w, n + 1>>, <<w, n + 2>>>>}
  BY DEF FirstEdges

LEMMA EdgeFacts ==
    ASSUME NEW w \in Author, NEW n \in 0 .. Size, n < Size
    PROVE  /\ FirstEdges(w, 0) = {}
           /\ \A e \in FirstEdges(w, n) : /\ e[1] \in StepsOf(w) /\ e[2] \in StepsOf(w)
                                          /\ e[1][1] = w /\ e[2][1] = w
           /\ \A m \in 0 .. n : FirstEdges(w, m) \subseteq FirstEdges(w, n)
  BY DEF FirstEdges, StepsOf, FirstSteps

LEMMA Apart ==
    ASSUME NEW w \in Author, NEW v \in Author, v # w
    PROVE  StepsOf(w) \cap StepsOf(v) = {}
  BY DEF StepsOf, FirstSteps

-----------------------------------------------------------------------------
(* How a writer moves                                                      *)

LEMMA Moves ==
    ASSUME TypeOK, NEW w \in Author, NEW p \in Progress, Goes(w, p)
    PROVE  /\ writer' \in [Author -> Progress]
           /\ \A v \in Author : v # w => writer'[v] = writer[v]
           /\ writer'[w].at = p.at /\ writer'[w].kind = p.kind
           /\ writer'[w].made = p.made /\ writer'[w].tied = p.tied
           /\ p.at \notin Over => writer'[w].known = p.known /\ writer'[w].left = p.left
           /\ p.at \in Over => writer'[w].known = {} /\ writer'[w].left = {}
  <1>1. Settled(p) \in Progress
    BY DEF Settled, Progress, Over
  <1>2. writer'[w] = Settled(p) /\ \A v \in Author : v # w => writer'[v] = writer[v]
    BY DEF Goes, TypeOK
  <1>3. writer' \in [Author -> Progress]
    BY <1>1 DEF Goes, TypeOK
  <1>4. /\ Settled(p).at = p.at /\ Settled(p).kind = p.kind
        /\ Settled(p).made = p.made /\ Settled(p).tied = p.tied
        /\ p.at \notin Over => Settled(p).known = p.known /\ Settled(p).left = p.left
        /\ p.at \in Over => Settled(p).known = {} /\ Settled(p).left = {}
    BY DEF Settled, Progress
  <1> QED
    BY <1>2, <1>3, <1>4

LEMMA Fields ==
    ASSUME TypeOK, NEW w \in Author
    PROVE  /\ writer[w] \in Progress
           /\ writer[w].at \in Phase /\ writer[w].kind \in {"replace", "add", "plan"}
           /\ writer[w].known \subseteq StepId /\ writer[w].left \subseteq StepId
           /\ writer[w].made \in 0 .. Size /\ writer[w].tied \in 0 .. Size
  BY DEF TypeOK, Progress

-----------------------------------------------------------------------------
(* Steps that leave the rows alone                                         *)

SameRows ==
    /\ UNCHANGED <<rows, last, robbed>>
    /\ \A v \in Author :
          /\ writer'[v].made = writer[v].made /\ writer'[v].tied = writer[v].tied
          /\ writer'[v].known \subseteq writer[v].known
          /\ writer'[v].at \in {"idle", "listing"} => writer[v].at \in {"idle", "listing"}

LEMMA SameRowsKeep ==
    ASSUME TypeOK, NothingAhead, EdgesFit, KnownIsOld, LastStands, SameRows
    PROVE  (NothingAhead /\ EdgesFit /\ KnownIsOld /\ LastStands)'
  <1>1. NothingAhead'
    <2>1. \A s \in steps' : Written(s)'
      BY DEF SameRows, rows, NothingAhead, Written, TypeOK, StepId
    <2>2. \A w \in Author : \A s \in writer'[w].known : Written(s)'
      <3> SUFFICES ASSUME NEW w \in Author, NEW s \in writer'[w].known PROVE Written(s)'
        OBVIOUS
      <3>1. s \in writer[w].known /\ s[1] \in Author
        BY Fields DEF SameRows, StepId
      <3> QED
        BY <3>1 DEF SameRows, NothingAhead, Written
    <2> QED
      BY <2>1, <2>2 DEF SameRows, NothingAhead
  <1>2. EdgesFit'
    BY DEF SameRows, rows, EdgesFit, TypeOK, StepId
  <1>3. KnownIsOld'
    BY DEF SameRows, KnownIsOld
  <1>4. LastStands'
    BY DEF SameRows, rows, LastStands, TypeOK
  <1> QED
    BY <1>1, <1>2, <1>3, <1>4

-----------------------------------------------------------------------------
(* The invariant is inductive: the steps that leave the rows alone         *)

LEMMA InitInv == Init => ReplacementInv
  <1> SUFFICES ASSUME Init PROVE ReplacementInv
    OBVIOUS
  <1>0. First \in Author /\ Size \in 0 .. Size /\ 0 \in 0 .. Size /\ Size - 1 \in 0 .. Size
    BY DEF Author
  <1>1. \A w \in Author : /\ writer[w].at \in {"done", "idle"}
                          /\ writer[w].known = {} /\ writer[w].left = {}
    BY DEF Init
  <1>2. /\ writer[First].made = Size /\ writer[First].tied = Size - 1
        /\ \A w \in Author : w # First => writer[w].made = 0 /\ writer[w].tied = 0
    BY <1>0 DEF Init
  <1>3. steps = FirstSteps(First, Size) /\ edges = FirstEdges(First, Size - 1) /\ last = First
    BY DEF Init, StepsOf, EdgesOf
  <1>4. writer \in [Author -> Progress]
    BY <1>0 DEF Init, Progress, Phase
  <1>5. TypeOK
    <2>1. steps \subseteq StepId
      BY <1>0, <1>3, StepFacts
    <2>2. edges \subseteq StepId \X StepId
      BY <1>0, <1>3 DEF FirstEdges, StepId
    <2> QED
      BY <1>0, <1>4, <2>1, <2>2 DEF TypeOK, Init
  <1>6. NothingAhead
    <2>1. \A s \in steps : Written(s)
      BY <1>0, <1>2, <1>3, StepFacts DEF Written
    <2> QED
      BY <1>1, <1>2, <2>1, <1>0 DEF NothingAhead, Init
  <1>7. EdgesFit
    BY <1>0, <1>2, <1>3, EdgeFacts DEF EdgesFit, StepsOf
  <1>8. KnownIsOld /\ LeftIsRest /\ AloneIsExact
    BY <1>1 DEF KnownIsOld, LeftIsRest, AloneIsExact, At, Replacing, Live, Over, Author
  <1>9. LastStands
    BY <1>2, <1>3 DEF LastStands, Init
  <1> QED
    BY <1>5, <1>6, <1>7, <1>8, <1>9 DEF ReplacementInv

LEMMA BeginKeeps ==
    ASSUME ReplacementInv, NEW w \in Writer, NEW kind \in MayDo[w], Begin(w, kind)
    PROVE  ReplacementInv'
  <1> DEFINE p == [writer[w] EXCEPT !.kind = kind,
                        !.at = IF kind = "add" THEN "building" ELSE "listing"]
  <1>0. w \in Author /\ kind \in {"replace", "add", "plan"} /\ TypeOK
    BY DEF Author, ReplacementInv
  <1>1. /\ p \in Progress /\ p.kind = kind
        /\ p.at = IF kind = "add" THEN "building" ELSE "listing"
        /\ p.known = writer[w].known /\ p.left = writer[w].left
        /\ p.made = writer[w].made /\ p.tied = writer[w].tied
    BY <1>0, Fields DEF Progress, Phase
  <1>2. Goes(w, p) /\ writer[w].at = "idle"
    BY DEF Begin, At
  <1> HIDE DEF p
  <1>3. /\ writer' \in [Author -> Progress]
        /\ \A v \in Author : v # w => writer'[v] = writer[v]
        /\ writer'[w].at = p.at /\ writer'[w].kind = kind
        /\ writer'[w].made = writer[w].made /\ writer'[w].tied = writer[w].tied
        /\ writer'[w].known = writer[w].known /\ writer'[w].left = writer[w].left
    BY <1>0, <1>1, <1>2, Moves DEF Over
  <1>4. TypeOK'
    BY <1>0, <1>3 DEF TypeOK, Begin, rows, history
  <1>5. SameRows
    BY <1>2, <1>3 DEF SameRows, Begin, history, rows
  <1>6. (NothingAhead /\ EdgesFit /\ KnownIsOld /\ LastStands)'
    BY <1>5, SameRowsKeep DEF ReplacementInv
  <1>7. LeftIsRest'
    <2> SUFFICES ASSUME NEW v \in Author
                 PROVE  /\ writer'[v].at \notin {"clearing", "removing"} => writer'[v].left = {}
                        /\ At(v, "clearing")' => /\ writer'[v].left \subseteq writer'[v].known
                                                 /\ writer'[v].known \cap steps' \subseteq writer'[v].left
                                                 /\ writer'[v].made = Size /\ writer'[v].tied = Size - 1
                        /\ At(v, "removing")' => StepsOf(v) \cap steps' \subseteq writer'[v].left
      BY DEF LeftIsRest
    <2>1. CASE v = w
      BY <2>1, <1>1, <1>2, <1>3 DEF LeftIsRest, ReplacementInv, At
    <2>2. CASE v # w
      BY <2>2, <1>3 DEF LeftIsRest, ReplacementInv, At, Begin, rows
    <2> QED
      BY <2>1, <2>2
  <1>8. AloneIsExact'
    <2>1. \A v \in Replacing' : v # w /\ v \in Replacing
      BY <1>1, <1>3, <1>0 DEF Replacing, Live, At, Does, Author, Over
    <2>2. \A v \in Replacing' : writer'[v] = writer[v]
      BY <2>1, <1>3 DEF Replacing, Author
    <2> QED
      BY <2>1, <2>2 DEF AloneIsExact, ReplacementInv, At, Begin, history, rows
  <1> QED
    BY <1>4, <1>6, <1>7, <1>8 DEF ReplacementInv

(* What a step of one writer w does to the others' part of the invariant.  *)
LEMMA OthersLeft ==
    ASSUME ReplacementInv, NEW w \in Author,
           \A v \in Author : v # w => writer'[v] = writer[v],
           \A v \in Author : v # w => /\ writer[v].known \cap steps' \subseteq steps
                                      /\ StepsOf(v) \cap steps' \subseteq steps
    PROVE  \A v \in Author : v # w =>
               /\ writer'[v].at \notin {"clearing", "removing"} => writer'[v].left = {}
               /\ At(v, "clearing")' => /\ writer'[v].left \subseteq writer'[v].known
                                        /\ writer'[v].known \cap steps' \subseteq writer'[v].left
                                        /\ writer'[v].made = Size /\ writer'[v].tied = Size - 1
               /\ At(v, "removing")' => StepsOf(v) \cap steps' \subseteq writer'[v].left
  BY DEF LeftIsRest, ReplacementInv, At

(* A replacement another disturbs is counted as disturbed.                 *)
LEMMA OthersAlone ==
    ASSUME ReplacementInv, NEW w \in Writer, Disturbs(w),
           \A v \in Author : v # w => writer'[v] = writer[v]
    PROVE  \A v \in Replacing' \ disturbed' : v # w =>
               /\ v \in Replacing \ disturbed
               /\ writer'[v] = writer[v]
               /\ UNCHANGED rows
  <1> SUFFICES ASSUME NEW v \in Replacing' \ disturbed', v # w
               PROVE  v \in Replacing \ disturbed /\ UNCHANGED rows
    BY DEF Replacing, Author
  <1>1. v \in Replacing
    BY DEF Replacing, Does, At, Live, Author
  <1> QED
    BY <1>1 DEF Disturbs

LEMMA OneByOne ==
    ASSUME ReplacementInv, NEW w \in Writer, Disturbs(w),
           \A v \in Author : v # w => writer'[v] = writer[v],
           w \in Replacing' \ disturbed' =>
               /\ At(w, "building")' \/ At(w, "undoing")' =>
                     steps' = writer'[w].known \cup FirstSteps(w, writer'[w].made)
               /\ At(w, "building")' => FirstEdges(w, writer'[w].tied) \subseteq edges'
               /\ At(w, "clearing")' => /\ steps' = writer'[w].left \cup StepsOf(w)
                                        /\ EdgesOf(w) \subseteq edges'
               /\ At(w, "removing")' => /\ steps' = writer'[w].known \cup writer'[w].left
                                        /\ writer'[w].known \cap writer'[w].left = {}
    PROVE  AloneIsExact'
  <1>1. \A v \in Replacing' \ disturbed' : v # w =>
            /\ v \in Replacing \ disturbed
            /\ writer'[v] = writer[v]
            /\ UNCHANGED rows
    BY OthersAlone
  <1> SUFFICES ASSUME NEW v \in Replacing' \ disturbed', v # w
               PROVE  /\ At(v, "building")' \/ At(v, "undoing")' =>
                             steps' = writer'[v].known \cup FirstSteps(v, writer'[v].made)
                      /\ At(v, "building")' => FirstEdges(v, writer'[v].tied) \subseteq edges'
                      /\ At(v, "clearing")' => /\ steps' = writer'[v].left \cup StepsOf(v)
                                               /\ EdgesOf(v) \subseteq edges'
                      /\ At(v, "removing")' => /\ steps' = writer'[v].known \cup writer'[v].left
                                               /\ writer'[v].known \cap writer'[v].left = {}
    BY DEF AloneIsExact
  <1> QED
    BY <1>1 DEF AloneIsExact, ReplacementInv, At, rows

LEMMA ListKeeps ==
    ASSUME ReplacementInv, NEW w \in Writer, List(w)
    PROVE  ReplacementInv'
  <1> DEFINE p == IF Does(w, "plan") THEN [writer[w] EXCEPT !.at = "building"]
                  ELSE [writer[w] EXCEPT !.at = "building", !.known = steps]
  <1>0. w \in Author /\ TypeOK /\ writer[w].at = "listing" /\ writer[w].left = {}
    BY DEF Author, ReplacementInv, List, At, LeftIsRest
  <1>1. /\ p \in Progress /\ p.at = "building"
        /\ p.kind = writer[w].kind /\ p.left = writer[w].left
        /\ p.made = writer[w].made /\ p.tied = writer[w].tied
        /\ p.known = IF Does(w, "plan") THEN writer[w].known ELSE steps
    BY <1>0, Fields DEF Progress, Phase, TypeOK
  <1>2. Goes(w, p)
    BY DEF List
  <1>3. /\ steps' \subseteq steps /\ edges' \subseteq edges
        /\ \A e \in edges : e[1] \in steps' /\ e[2] \in steps' => e \in edges'
        /\ \A e \in edges' : e[1] \in steps => e[1] \in steps'
        /\ \A e \in edges' : e[2] \in steps => e[2] \in steps'
        /\ ~Does(w, "plan") => UNCHANGED rows
    BY DEF List, Deletes, rows
  <1>4. Disturbs(w) /\ last' = w /\ ~robbed' /\ UNCHANGED <<running, runs, faults>>
    BY DEF List
  <1> HIDE DEF p
  <1>5. /\ writer' \in [Author -> Progress]
        /\ \A v \in Author : v # w => writer'[v] = writer[v]
        /\ writer'[w].at = "building" /\ writer'[w].kind = writer[w].kind
        /\ writer'[w].made = writer[w].made /\ writer'[w].tied = writer[w].tied
        /\ writer'[w].left = {}
        /\ writer'[w].known = IF Does(w, "plan") THEN writer[w].known ELSE steps
    BY <1>0, <1>1, <1>2, Moves DEF Over
  <1>6. writer[w].made = 0 /\ writer[w].tied = 0
    BY <1>0 DEF ReplacementInv, NothingAhead
  <1>7. \A s \in steps : s \in StepId /\ s[1] \in Author /\ Written(s)
    BY <1>0 DEF TypeOK, StepId, ReplacementInv, NothingAhead
  <1>8. TypeOK'
    <2>1. disturbed' \subseteq Author
      BY <1>4, <1>0 DEF Disturbs, TypeOK, Replacing, Author
    <2>2. steps' \subseteq StepId /\ edges' \subseteq StepId \X StepId /\ robbed' \in BOOLEAN
      BY <1>0, <1>3 DEF TypeOK, List
    <2> QED
      BY <1>0, <1>4, <1>5, <2>1, <2>2 DEF TypeOK
  <1>9. \A v \in Author : writer'[v].made = writer[v].made /\ writer'[v].tied = writer[v].tied
    BY <1>5
  <1>10. NothingAhead'
    <2>1. \A s \in steps' : Written(s)'
      BY <1>3, <1>7, <1>9 DEF Written
    <2>2. \A v \in Author : \A s \in writer'[v].known : Written(s)'
      <3> SUFFICES ASSUME NEW v \in Author, NEW s \in writer'[v].known PROVE Written(s)'
        OBVIOUS
      <3>1. s \in writer[v].known \/ s \in steps
        BY <1>5
      <3>2. s[1] \in Author /\ Written(s)
        BY <3>1, <1>7, <1>0, Fields DEF StepId, ReplacementInv, NothingAhead
      <3> QED
        BY <3>2, <1>9 DEF Written
    <2>3. \A v \in Author : writer'[v].at \in {"idle", "listing"} =>
              writer'[v].made = 0 /\ writer'[v].tied = 0
      BY <1>5, <1>6 DEF ReplacementInv, NothingAhead
    <2> QED
      BY <2>1, <2>2, <2>3, <1>9 DEF ReplacementInv, NothingAhead
  <1>11. EdgesFit'
    <2> SUFFICES ASSUME NEW e \in edges'
                 PROVE  /\ e[1] \in steps' /\ e[2] \in steps'
                        /\ e \in FirstEdges(e[1][1], writer'[e[1][1]].tied)
      BY DEF EdgesFit
    <2>1. e \in edges /\ e[1][1] \in Author
      BY <1>0, <1>3 DEF TypeOK, StepId
    <2> QED
      BY <2>1, <1>3, <1>9 DEF EdgesFit, ReplacementInv
  <1>12. \A v \in Author : writer[v].known \cap StepsOf(w) = {} /\ steps \cap StepsOf(w) = {}
    <2> SUFFICES ASSUME NEW s \in StepsOf(w), \/ s \in steps
                                              \/ \E v \in Author : s \in writer[v].known
                 PROVE FALSE
      OBVIOUS
    <2>1. s[1] = w /\ s[2] \in 1 .. Size
      BY <1>0, StepFacts DEF StepsOf
    <2>2. Written(s)
      BY DEF ReplacementInv, NothingAhead
    <2> QED
      BY <2>1, <2>2, <1>6 DEF Written
  <1>13. KnownIsOld'
    BY <1>4, <1>5, <1>12 DEF KnownIsOld, ReplacementInv
  <1>14. LeftIsRest'
    <2>1. \A v \in Author : v # w => /\ writer[v].known \cap steps' \subseteq steps
                                     /\ StepsOf(v) \cap steps' \subseteq steps
      BY <1>3
    <2> QED
      BY <1>0, <1>5, <2>1, OthersLeft DEF LeftIsRest, At
  <1>15. AloneIsExact'
    <2>1. w \in Replacing' => Does(w, "replace")' /\ UNCHANGED rows
      BY <1>5, <1>3 DEF Replacing, Does
    <2>2. w \in Replacing' => steps' = writer'[w].known
      BY <2>1, <1>5 DEF Does, rows
    <2>3. FirstSteps(w, 0) = {} /\ FirstEdges(w, 0) = {}
      BY DEF FirstSteps, FirstEdges
    <2> QED
      BY <1>4, <1>5, <1>6, <2>1, <2>2, <2>3, OneByOne DEF At
  <1>16. LastStands'
    <2>1. FirstSteps(w, 0) = {} /\ FirstEdges(w, 0) = {}
      BY DEF FirstSteps, FirstEdges
    <2> QED
      BY <2>1, <1>4, <1>5, <1>6 DEF LastStands
  <1> QED
    BY <1>8, <1>10, <1>11, <1>13, <1>14, <1>15, <1>16 DEF ReplacementInv

(* Where a writer goes on once a step or an edge is written.               *)
LEMMA OnwardsFacts ==
    ASSUME NEW w \in Writer, TypeOK, KnownIsOld, LeftIsRest, writer[w].at = "building",
           NEW p \in Progress, p.at = "building", p.kind = writer[w].kind,
           p.known = writer[w].known, p.left = writer[w].left
    PROVE  /\ Onwards(w, p) \in Progress
           /\ Onwards(w, p).kind = p.kind /\ Onwards(w, p).known = p.known
           /\ Onwards(w, p).made = p.made /\ Onwards(w, p).tied = p.tied
           /\ Onwards(w, p).at \in {"building", "clearing", "done"}
           /\ Onwards(w, p).at = "building" => Onwards(w, p).left = {}
           /\ Onwards(w, p).at \in {"clearing", "done"} =>
                 p.made = Size /\ (p.tied < Size => p.tied = Size - 1)
           /\ Onwards(w, p).at = "clearing" => Onwards(w, p).left = p.known
           /\ Onwards(w, p).at = "done" /\ p.kind = "replace" => p.known = {}
  <1>0. w \in Author /\ p.left = {}
    BY DEF Author, LeftIsRest
  <1>1. p.made \in 0 .. Size /\ p.tied \in 0 .. Size /\ p.known \subseteq StepId
    BY DEF Progress
  <1>2. CASE p.made < Size \/ p.tied < Size - 1
    BY <1>0, <1>2 DEF Onwards
  <1>3. CASE ~(p.made < Size \/ p.tied < Size - 1)
    <2>1. p.made = Size /\ (p.tied < Size => p.tied = Size - 1)
      BY <1>1, <1>3
    <2>2. CASE Does(w, "replace") /\ Obsolete(w) # {}
      <3>1. Onwards(w, p) = [p EXCEPT !.at = "clearing", !.left = p.known]
        BY <1>3, <2>2 DEF Onwards, Obsolete
      <3> HIDE DEF Onwards
      <3> QED
        BY <3>1, <2>1, <1>1 DEF Progress, Phase
    <2>3. CASE ~(Does(w, "replace") /\ Obsolete(w) # {})
      <3>1. Onwards(w, p) = [p EXCEPT !.at = "done"]
        BY <1>3, <2>3 DEF Onwards
      <3>2. p.kind = "replace" => p.known = {}
        BY <2>3 DEF Does, Obsolete
      <3> QED
        BY <3>1, <3>2, <2>1, <1>1 DEF Progress, Phase
    <2> QED
      BY <2>2, <2>3
  <1> QED
    BY <1>2, <1>3

LEMMA CreateKeeps ==
    ASSUME ReplacementInv, NEW w \in Writer, Create(w)
    PROVE  ReplacementInv'
  <1> DEFINE n == writer[w].made + 1
             p == [writer[w] EXCEPT !.made = n]
             q == Onwards(w, p)
  <1>0. w \in Author /\ TypeOK /\ writer[w].at = "building" /\ writer[w].left = {}
    BY DEF Author, ReplacementInv, Create, At, LeftIsRest
  <1>1. /\ writer[w].made \in 0 .. Size /\ writer[w].made < Size /\ n \in 1 .. Size
        /\ writer[w].tied = 0
    <2>1. writer[w].made \in 0 .. Size /\ writer[w].tied \in 0 .. Size /\ writer[w].made < Size
      BY <1>0, Fields DEF Create
    <2> QED
      BY <2>1, <1>0 DEF ReplacementInv, NothingAhead
  <1>2. /\ p \in Progress /\ p.at = "building" /\ p.kind = writer[w].kind
        /\ p.known = writer[w].known /\ p.left = writer[w].left
        /\ p.made = n /\ p.tied = writer[w].tied
    BY <1>0, <1>1, Fields DEF Progress
  <1>3. /\ Goes(w, q) /\ steps' = steps \cup {<<w, n>>} /\ edges' = edges
        /\ Disturbs(w) /\ UNCHANGED <<running, runs, faults, last, robbed>>
    BY DEF Create
  <1> HIDE DEF p
  <1>4. /\ q \in Progress /\ q.kind = p.kind /\ q.known = p.known
        /\ q.made = p.made /\ q.tied = p.tied
        /\ q.at \in {"building", "clearing", "done"}
        /\ q.at = "building" => q.left = {}
        /\ q.at \in {"clearing", "done"} => p.made = Size /\ (p.tied < Size => p.tied = Size - 1)
        /\ q.at = "clearing" => q.left = p.known
    BY <1>0, <1>2, OnwardsFacts DEF ReplacementInv
  <1> HIDE DEF q, n
  <1>5. /\ writer' \in [Author -> Progress]
        /\ \A v \in Author : v # w => writer'[v] = writer[v]
        /\ writer'[w].at \in {"building", "clearing", "done"}
        /\ writer'[w].kind = writer[w].kind
        /\ writer'[w].made = n /\ writer'[w].tied = 0
        /\ writer'[w].at # "done" => writer'[w].known = writer[w].known
        /\ writer'[w].at = "done" => writer'[w].known = {}
        /\ writer'[w].at \in {"building", "done"} => writer'[w].left = {}
        /\ writer'[w].at = "clearing" => writer'[w].left = writer[w].known
        /\ writer'[w].at = "clearing" => n = Size /\ Size = 1
    BY <1>0, <1>1, <1>2, <1>3, <1>4, Moves DEF Over
  <1>6. /\ \A v \in Author : writer[v].known \subseteq StepId /\ writer'[v].known \subseteq writer[v].known
        /\ \A v \in Author : writer[v].made \in 0 .. Size
        /\ \A v \in Author : writer'[v].tied = writer[v].tied
        /\ \A v \in Author : writer[v].made <= writer'[v].made
    BY <1>0, <1>1, <1>5, Fields DEF n
  <1>7. <<w, n>> \in StepId /\ <<w, n>> \in StepsOf(w) /\ ~Written(<<w, n>>)
    BY <1>0, <1>1, StepFacts DEF StepId, StepsOf, Written, n
  <1>8. TypeOK'
    <2>1. disturbed' \subseteq Author
      BY <1>3, <1>0 DEF Disturbs, TypeOK, Replacing, Author
    <2> QED
      BY <1>0, <1>3, <1>5, <1>7, <2>1 DEF TypeOK
  <1>9. \A s \in StepId : Written(s) => Written(s)'
    <2> SUFFICES ASSUME NEW s \in StepId, Written(s) PROVE Written(s)'
      OBVIOUS
    <2>1. s[1] \in Author /\ s[2] \in 1 .. Size
      BY DEF StepId
    <2>2. writer'[s[1]].made \in 0 .. Size
      BY <2>1, <1>5 DEF Progress
    <2> QED
      BY <2>1, <2>2, <1>6 DEF Written
  <1>10. NothingAhead'
    <2>1. \A s \in steps' : Written(s)'
      <3>1. \A s \in steps : s[2] <= writer'[s[1]].made
        BY <1>0, <1>9 DEF ReplacementInv, NothingAhead, TypeOK, Written
      <3>2. \A s : s = <<w, n>> => s[2] <= writer'[s[1]].made
        BY <1>1, <1>5
      <3> QED
        BY <3>1, <3>2, <1>3 DEF Written
    <2>2. \A v \in Author : \A s \in writer'[v].known : Written(s)'
      BY <1>6, <1>9 DEF ReplacementInv, NothingAhead
    <2> QED
      BY <2>1, <2>2, <1>5, <1>6 DEF ReplacementInv, NothingAhead
  <1>11. EdgesFit'
    <2> SUFFICES ASSUME NEW e \in edges'
                 PROVE  /\ e[1] \in steps' /\ e[2] \in steps'
                        /\ e \in FirstEdges(e[1][1], writer'[e[1][1]].tied)
      BY DEF EdgesFit
    <2>1. e \in edges /\ e[1][1] \in Author
      BY <1>0, <1>3 DEF TypeOK, StepId
    <2> QED
      BY <2>1, <1>3, <1>6 DEF EdgesFit, ReplacementInv
  <1>12. KnownIsOld'
    BY <1>3, <1>6 DEF KnownIsOld, ReplacementInv
  <1>13. LeftIsRest'
    <2>1. \A v \in Author : v # w => /\ writer[v].known \cap steps' \subseteq steps
                                     /\ StepsOf(v) \cap steps' \subseteq steps
      BY <1>0, <1>3, <1>7, Apart DEF ReplacementInv, NothingAhead
    <2>2. writer'[w].at = "clearing" => writer'[w].tied = Size - 1
      BY <1>5
    <2> QED
      BY <1>0, <1>5, <2>1, <2>2, OthersLeft DEF LeftIsRest, At
  <1>14. AloneIsExact'
    <2>1. w \in Replacing' \ disturbed' => w \in Replacing \ disturbed
      BY <1>0, <1>3, <1>5 DEF Replacing, Does, Live, At, Over, Disturbs
    <2>2. w \in Replacing \ disturbed => steps = writer[w].known \cup FirstSteps(w, writer[w].made)
      BY <1>0 DEF ReplacementInv, AloneIsExact, At
    <2>3. FirstSteps(w, n) = FirstSteps(w, writer[w].made) \cup {<<w, n>>}
      BY <1>0, <1>1, NextStep DEF n
    <2>4. FirstEdges(w, 0) = {} /\ (Size = 1 => EdgesOf(w) = {})
      BY DEF FirstEdges, EdgesOf
    <2> QED
      BY <1>3, <1>5, <2>1, <2>2, <2>3, <2>4, OneByOne DEF At, StepsOf
  <1>15. LastStands'
    <2>1. CASE last = w
      <3>1. FirstSteps(w, n) = FirstSteps(w, writer[w].made) \cup {<<w, n>>}
        BY <1>0, <1>1, NextStep DEF n
      <3> QED
        BY <2>1, <3>1, <1>1, <1>3, <1>5 DEF LastStands, ReplacementInv
    <2>2. CASE last # w
      BY <2>2, <1>0, <1>3, <1>5 DEF LastStands, ReplacementInv, TypeOK
    <2> QED
      BY <2>1, <2>2
  <1> QED
    BY <1>8, <1>10, <1>11, <1>12, <1>13, <1>14, <1>15 DEF ReplacementInv

LEMMA TieKeeps ==
    ASSUME ReplacementInv, NEW w \in Writer, Tie(w)
    PROVE  ReplacementInv'
  <1> DEFINE n == writer[w].tied + 1
             p == [writer[w] EXCEPT !.tied = n]
             q == Onwards(w, p)
  <1>0. w \in Author /\ TypeOK /\ writer[w].at = "building" /\ writer[w].left = {}
    BY DEF Author, ReplacementInv, Tie, Ties, At, LeftIsRest
  <1>1. /\ writer[w].tied \in 0 .. Size /\ writer[w].tied < Size - 1
        /\ writer[w].made = Size /\ n \in 1 .. Size /\ n < Size
    BY <1>0, Fields DEF Tie, Ties
  <1>2. /\ p \in Progress /\ p.at = "building" /\ p.kind = writer[w].kind
        /\ p.known = writer[w].known /\ p.left = writer[w].left
        /\ p.tied = n /\ p.made = writer[w].made
    BY <1>0, <1>1, Fields DEF Progress
  <1>3. Edge(w) = <<<<w, n>>, <<w, n + 1>>>>
    BY DEF Edge
  <1>4. /\ Goes(w, q) /\ edges' = edges \cup {Edge(w)} /\ steps' = steps
        /\ Edge(w)[1] \in steps /\ Edge(w)[2] \in steps
        /\ Disturbs(w) /\ UNCHANGED <<running, runs, faults, last, robbed>>
    BY DEF Tie
  <1> HIDE DEF p
  <1>5. /\ q \in Progress /\ q.kind = p.kind /\ q.known = p.known
        /\ q.made = p.made /\ q.tied = p.tied
        /\ q.at \in {"building", "clearing", "done"}
        /\ q.at = "building" => q.left = {}
        /\ q.at \in {"clearing", "done"} => p.made = Size /\ (p.tied < Size => p.tied = Size - 1)
        /\ q.at = "clearing" => q.left = p.known
    BY <1>0, <1>2, OnwardsFacts DEF ReplacementInv
  <1> HIDE DEF q
  <1>6. /\ writer' \in [Author -> Progress]
        /\ \A v \in Author : v # w => writer'[v] = writer[v]
        /\ writer'[w].at \in {"building", "clearing", "done"}
        /\ writer'[w].kind = writer[w].kind
        /\ writer'[w].made = Size /\ writer'[w].tied = n
        /\ writer'[w].at # "done" => writer'[w].known = writer[w].known
        /\ writer'[w].at = "done" => writer'[w].known = {}
        /\ writer'[w].at \in {"building", "done"} => writer'[w].left = {}
        /\ writer'[w].at = "clearing" => writer'[w].left = writer[w].known
        /\ writer'[w].at = "clearing" => n = Size - 1
    BY <1>0, <1>1, <1>2, <1>4, <1>5, Moves DEF Over
  <1>7. FirstEdges(w, n) = FirstEdges(w, writer[w].tied) \cup {Edge(w)}
    <2>1. Edge(w) = <<<<w, writer[w].tied + 1>>, <<w, writer[w].tied + 2>>>>
      BY <1>1, <1>3
    <2> QED
      BY <2>1, <1>0, <1>1, NextEdge
  <1> HIDE DEF n
  <1>8. \A v \in Author : /\ writer[v].known \subseteq StepId /\ writer'[v].known \subseteq writer[v].known
                          /\ writer'[v].made = writer[v].made
    BY <1>0, <1>1, <1>6, Fields
  <1>9. TypeOK'
    <2>1. disturbed' \subseteq Author
      BY <1>4, <1>0 DEF Disturbs, TypeOK, Replacing, Author
    <2>2. Edge(w) \in StepId \X StepId
      BY <1>0, <1>3, <1>4 DEF TypeOK
    <2> QED
      BY <1>0, <1>4, <1>6, <2>1, <2>2 DEF TypeOK
  <1>10. NothingAhead'
    <2>1. \A s \in steps' : Written(s)'
      BY <1>0, <1>4, <1>8 DEF Written, ReplacementInv, NothingAhead, TypeOK, StepId
    <2>2. \A v \in Author : \A s \in writer'[v].known : Written(s)'
      BY <1>8 DEF ReplacementInv, NothingAhead, Written, StepId
    <2>3. \A v \in Author : /\ writer'[v].at \in {"idle", "listing"} => writer'[v].made = 0 /\ writer'[v].tied = 0
                            /\ writer'[v].tied > 0 => writer'[v].made = Size
                            /\ writer'[v].tied < Size
      BY <1>1, <1>6 DEF ReplacementInv, NothingAhead
    <2> QED
      BY <2>1, <2>2, <2>3 DEF NothingAhead
  <1>11. EdgesFit'
    <2> SUFFICES ASSUME NEW e \in edges'
                 PROVE  /\ e[1] \in steps' /\ e[2] \in steps'
                        /\ e \in FirstEdges(e[1][1], writer'[e[1][1]].tied)
      BY DEF EdgesFit
    <2>1. CASE e = Edge(w)
      BY <2>1, <1>3, <1>4, <1>6, <1>7
    <2>2. CASE e \in edges
      <3>1. e[1][1] \in Author /\ e[1] \in steps /\ e[2] \in steps
        BY <1>0, <2>2 DEF TypeOK, StepId, EdgesFit, ReplacementInv
      <3>2. e \in FirstEdges(e[1][1], writer[e[1][1]].tied)
        BY <2>2 DEF EdgesFit, ReplacementInv
      <3>3. CASE e[1][1] = w
        BY <3>1, <3>2, <3>3, <1>4, <1>6, <1>7
      <3>4. CASE e[1][1] # w
        BY <3>1, <3>2, <3>4, <1>4, <1>6
      <3> QED
        BY <3>3, <3>4
    <2> QED
      BY <2>1, <2>2, <1>4
  <1>12. KnownIsOld'
    BY <1>4, <1>8 DEF KnownIsOld, ReplacementInv
  <1>13. LeftIsRest'
    BY <1>0, <1>4, <1>6, OthersLeft DEF LeftIsRest, At
  <1>14. AloneIsExact'
    <2>1. w \in Replacing' \ disturbed' => w \in Replacing \ disturbed
      BY <1>0, <1>4, <1>6 DEF Replacing, Does, Live, At, Over, Disturbs
    <2>2. w \in Replacing \ disturbed => /\ steps = writer[w].known \cup StepsOf(w)
                                         /\ FirstEdges(w, writer[w].tied) \subseteq edges
      BY <1>0, <1>1 DEF ReplacementInv, AloneIsExact, At, StepsOf
    <2>3. w \in Replacing \ disturbed => FirstEdges(w, n) \subseteq edges'
      BY <1>4, <1>7, <2>2
    <2> QED
      BY <1>4, <1>6, <2>1, <2>2, <2>3, OneByOne DEF At, StepsOf, EdgesOf
  <1>15. LastStands'
    <2>1. CASE last = w
      BY <2>1, <1>1, <1>4, <1>6, <1>7 DEF LastStands, ReplacementInv
    <2>2. CASE last # w
      BY <2>2, <1>0, <1>4, <1>6 DEF LastStands, ReplacementInv, TypeOK
    <2> QED
      BY <2>1, <2>2
  <1> QED
    BY <1>9, <1>10, <1>11, <1>12, <1>13, <1>14, <1>15 DEF ReplacementInv

(* Clearing takes steps it found, removing steps it did not find.          *)
LEMMA DeleteKeeps ==
    ASSUME ReplacementInv, NEW w \in Writer, NEW s \in writer[w].left, Delete(w, s)
    PROVE  ReplacementInv'
  <1> DEFINE p == [writer[w] EXCEPT !.left = @ \ {s},
                        !.at = IF writer[w].left = {s} THEN Ending(w) ELSE @]
  <1>0. /\ w \in Author /\ TypeOK /\ writer[w].at \in {"clearing", "removing"}
        /\ s \in StepId /\ s[1] \in Author
    BY Fields DEF Author, ReplacementInv, Delete, StepId
  <1>1. /\ p \in Progress /\ p.kind = writer[w].kind
        /\ p.known = writer[w].known /\ p.left = writer[w].left \ {s}
        /\ p.made = writer[w].made /\ p.tied = writer[w].tied
        /\ p.at = IF writer[w].left = {s} THEN Ending(w) ELSE writer[w].at
    BY <1>0, Fields DEF Progress, Phase, Ending
  <1>2. Goes(w, p)
    BY DEF Delete
  <1>3. /\ steps' = steps \ {s}
        /\ edges' = {e \in edges : e[1] \notin {s} /\ e[2] \notin {s}}
        /\ robbed' = (robbed \/ (At(w, "removing") /\ s[1] = last))
        /\ Disturbs(w) /\ UNCHANGED <<running, runs, faults, last>>
    BY DEF Delete, Deletes
  <1> HIDE DEF p
  <1>4. /\ writer' \in [Author -> Progress]
        /\ \A v \in Author : v # w => writer'[v] = writer[v]
        /\ writer'[w].kind = writer[w].kind
        /\ writer'[w].made = writer[w].made /\ writer'[w].tied = writer[w].tied
        /\ writer[w].left # {s} => /\ writer'[w].at = writer[w].at
                                   /\ writer'[w].known = writer[w].known
                                   /\ writer'[w].left = writer[w].left \ {s}
        /\ writer[w].left = {s} => /\ writer'[w].at \in {"done", "unchanged"}
                                   /\ writer'[w].known = {} /\ writer'[w].left = {}
    BY <1>0, <1>1, <1>2, Moves DEF Over, Ending
  <1>5. \A v \in Author : /\ writer[v].known \subseteq StepId
                          /\ writer'[v].known \subseteq writer[v].known
                          /\ writer'[v].made = writer[v].made
                          /\ writer'[v].tied = writer[v].tied
    BY <1>0, <1>4, Fields
  <1>6. TypeOK'
    <2>1. disturbed' \subseteq Author
      BY <1>3, <1>0 DEF Disturbs, TypeOK, Replacing, Author
    <2>2. steps' \subseteq StepId /\ edges' \subseteq StepId \X StepId /\ robbed' \in BOOLEAN
      BY <1>0, <1>3 DEF TypeOK
    <2> QED
      BY <1>0, <1>3, <1>4, <2>1, <2>2 DEF TypeOK
  <1>7. NothingAhead'
    <2>1. \A r \in steps' : Written(r)'
      BY <1>0, <1>3, <1>5 DEF Written, ReplacementInv, NothingAhead, TypeOK, StepId
    <2>2. \A v \in Author : \A r \in writer'[v].known : Written(r)'
      BY <1>5 DEF ReplacementInv, NothingAhead, Written, StepId
    <2>3. \A v \in Author : writer'[v].at \in {"idle", "listing"} =>
              writer'[v].made = 0 /\ writer'[v].tied = 0
      BY <1>0, <1>4 DEF ReplacementInv, NothingAhead
    <2> QED
      BY <2>1, <2>2, <2>3, <1>5 DEF ReplacementInv, NothingAhead
  <1>8. EdgesFit'
    <2> SUFFICES ASSUME NEW e \in edges'
                 PROVE  /\ e[1] \in steps' /\ e[2] \in steps'
                        /\ e \in FirstEdges(e[1][1], writer'[e[1][1]].tied)
      BY DEF EdgesFit
    <2>1. e \in edges /\ e[1][1] \in Author /\ e[1] # s /\ e[2] # s
      BY <1>0, <1>3 DEF TypeOK, StepId
    <2> QED
      BY <2>1, <1>3, <1>5 DEF EdgesFit, ReplacementInv
  <1>9. KnownIsOld'
    BY <1>3, <1>5 DEF KnownIsOld, ReplacementInv
  <1>10. LeftIsRest'
    <2>1. \A v \in Author : v # w => /\ writer[v].known \cap steps' \subseteq steps
                                     /\ StepsOf(v) \cap steps' \subseteq steps
      BY <1>3
    <2>2. /\ writer'[w].at \notin {"clearing", "removing"} => writer'[w].left = {}
          /\ writer'[w].at = "clearing" => /\ writer'[w].left \subseteq writer'[w].known
                                           /\ writer'[w].known \cap steps' \subseteq writer'[w].left
                                           /\ writer'[w].made = Size /\ writer'[w].tied = Size - 1
          /\ writer'[w].at = "removing" => StepsOf(w) \cap steps' \subseteq writer'[w].left
      BY <1>0, <1>3, <1>4 DEF LeftIsRest, ReplacementInv, At
    <2> QED
      BY <1>0, <1>4, <2>1, <2>2, OthersLeft DEF LeftIsRest, At
  <1>11. writer[w].at = "clearing" => s \notin StepsOf(w) /\ s \notin StepsOf(last)
    BY <1>0 DEF ReplacementInv, LeftIsRest, KnownIsOld, At
  <1>12. \A v \in Author : \A m \in 0 .. Size : m < Size =>
             \A e \in FirstEdges(v, m) : e[1] \in StepsOf(v) /\ e[2] \in StepsOf(v)
    BY EdgeFacts
  <1>13. AloneIsExact'
    <2>1. w \in Replacing' \ disturbed' =>
              /\ w \in Replacing \ disturbed /\ writer[w].left # {s}
      BY <1>0, <1>3, <1>4 DEF Replacing, Does, Live, At, Over, Disturbs
    <2> SUFFICES ASSUME w \in Replacing \ disturbed, writer[w].left # {s}
                 PROVE  /\ writer[w].at = "clearing" => /\ steps' = (writer[w].left \ {s}) \cup StepsOf(w)
                                                        /\ EdgesOf(w) \subseteq edges'
                        /\ writer[w].at = "removing" =>
                              /\ steps' = writer[w].known \cup (writer[w].left \ {s})
                              /\ writer[w].known \cap (writer[w].left \ {s}) = {}
      BY <2>1, <1>0, <1>3, <1>4, OneByOne DEF At
    <2>2. CASE writer[w].at = "clearing"
      <3>1. steps = writer[w].left \cup StepsOf(w) /\ EdgesOf(w) \subseteq edges
        BY <2>2 DEF ReplacementInv, AloneIsExact, At
      <3>2. \A e \in EdgesOf(w) : e[1] # s /\ e[2] # s
        BY <1>0, <1>11, <1>12, <2>2 DEF EdgesOf
      <3> QED
        BY <3>1, <3>2, <1>3, <1>11, <2>2
    <2>3. CASE writer[w].at = "removing"
      <3>1. steps = writer[w].known \cup writer[w].left /\ writer[w].known \cap writer[w].left = {}
        BY <2>3 DEF ReplacementInv, AloneIsExact, At
      <3> QED
        BY <3>1, <1>3, <2>3
    <2> QED
      BY <2>2, <2>3
  <1>14. LastStands'
    <2> SUFFICES ASSUME ~robbed'
                 PROVE  /\ FirstSteps(last, writer[last].made) \subseteq steps'
                        /\ FirstEdges(last, writer[last].tied) \subseteq edges'
      BY <1>0, <1>3, <1>5 DEF LastStands, TypeOK
    <2>1. /\ last \in Author /\ writer[last].made \in 0 .. Size /\ writer[last].tied \in 0 .. Size
          /\ writer[last].tied < Size
      BY <1>0, Fields DEF TypeOK, ReplacementInv, NothingAhead
    <2>2. /\ FirstSteps(last, writer[last].made) \subseteq steps
          /\ FirstEdges(last, writer[last].tied) \subseteq edges
      BY <1>3 DEF LastStands, ReplacementInv
    <2>3. s \notin StepsOf(last)
      <3>1. CASE writer[w].at = "clearing"
        BY <3>1, <1>11
      <3>2. CASE writer[w].at = "removing"
        <4>1. s[1] # last
          BY <3>2, <1>3 DEF At
        <4> QED
          BY <4>1, <2>1, StepFacts DEF StepsOf
      <3> QED
        BY <1>0, <3>1, <3>2
    <2>4. FirstSteps(last, writer[last].made) \subseteq StepsOf(last)
      BY <2>1 DEF StepsOf, FirstSteps
    <2>5. \A e \in FirstEdges(last, writer[last].tied) : e[1] # s /\ e[2] # s
      BY <1>12, <2>1, <2>3
    <2> QED
      BY <2>2, <2>3, <2>4, <2>5, <1>3
  <1> QED
    BY <1>6, <1>7, <1>8, <1>9, <1>10, <1>13, <1>14 DEF ReplacementInv

(* Fail, Undo and Break write no rows: w stops building, or gives up.      *)
LEMMA TurnsKeep ==
    ASSUME ReplacementInv, NEW w \in Writer, Live(w), NEW p \in Progress, Goes(w, p),
           p.kind = writer[w].kind, p.made = writer[w].made, p.tied = writer[w].tied,
           p.known = writer[w].known,
           \/ p.at \in {"broken", "unchanged"}
           \/ p.at = "undoing" /\ writer[w].at = "building" /\ p.left = writer[w].left
           \/ /\ p.at = "removing" /\ writer[w].at = "undoing"
              /\ p.left = Doomed(w),
           faults' \in Nat, UNCHANGED <<rows, running, runs, history>>
    PROVE  ReplacementInv'
  <1>0. w \in Author /\ TypeOK
    BY DEF Author, ReplacementInv
  <1>1. /\ writer' \in [Author -> Progress]
        /\ \A v \in Author : v # w => writer'[v] = writer[v]
        /\ writer'[w].at = p.at /\ writer'[w].kind = writer[w].kind
        /\ writer'[w].made = writer[w].made /\ writer'[w].tied = writer[w].tied
        /\ p.at \in {"broken", "unchanged"} => writer'[w].known = {} /\ writer'[w].left = {}
        /\ p.at \notin {"broken", "unchanged"} => /\ writer'[w].known = writer[w].known
                                                  /\ writer'[w].left = p.left
    BY <1>0, Moves DEF Over
  <1>2. TypeOK'
    BY <1>0, <1>1 DEF TypeOK, rows, history
  <1>3. SameRows
    BY <1>0, <1>1 DEF SameRows, rows, history
  <1>4. (NothingAhead /\ EdgesFit /\ KnownIsOld /\ LastStands)'
    BY <1>3, SameRowsKeep DEF ReplacementInv
  <1>5. LeftIsRest'
    <2>1. \A v \in Author : v # w => /\ writer[v].known \cap steps' \subseteq steps
                                     /\ StepsOf(v) \cap steps' \subseteq steps
      BY DEF rows
    <2>2. writer[w].at = "building" => writer[w].left = {}
      BY <1>0 DEF ReplacementInv, LeftIsRest
    <2>3. p.at = "removing" => StepsOf(w) \cap steps' \subseteq p.left
      BY <1>0 DEF ReplacementInv, KnownIsOld, Doomed, rows
    <2> QED
      BY <1>0, <1>1, <2>1, <2>2, <2>3, OthersLeft DEF LeftIsRest, At
  <1>6. AloneIsExact'
    <2>1. Disturbs(w)
      BY DEF Disturbs, rows, history
    <2>2. w \in Replacing' \ disturbed' => w \in Replacing \ disturbed /\ p.at \notin {"broken", "unchanged"}
      BY <1>0, <1>1 DEF Replacing, Does, Live, At, Over, history
    <2>3. w \in Replacing \ disturbed /\ writer[w].at \in {"building", "undoing"} =>
              steps = writer[w].known \cup FirstSteps(w, writer[w].made)
      BY DEF ReplacementInv, AloneIsExact, At
    <2>4. w \in Replacing \ disturbed /\ p.at = "removing" =>
              steps = writer[w].known \cup p.left /\ writer[w].known \cap p.left = {}
      BY <2>3 DEF Doomed
    <2> QED
      BY <1>0, <1>1, <2>1, <2>2, <2>3, <2>4, OneByOne DEF At, rows, history
  <1> QED
    BY <1>2, <1>4, <1>5, <1>6 DEF ReplacementInv

LEMMA FailKeeps ==
    ASSUME ReplacementInv, NEW w \in Writer, Fail(w)
    PROVE  ReplacementInv'
  <1> DEFINE p == [writer[w] EXCEPT !.at = IF Does(w, "replace") THEN "undoing" ELSE "broken"]
  <1>0. w \in Author /\ TypeOK /\ writer[w].at = "building"
    BY DEF Author, ReplacementInv, Fail, At
  <1>1. /\ p \in Progress /\ p.kind = writer[w].kind
        /\ p.known = writer[w].known /\ p.left = writer[w].left
        /\ p.made = writer[w].made /\ p.tied = writer[w].tied
        /\ p.at \in {"undoing", "broken"}
    BY <1>0, Fields DEF Progress, Phase
  <1>2. /\ Goes(w, p) /\ UNCHANGED <<rows, running, runs, history>>
        /\ faults' = faults + 1 \/ faults' = faults
    BY DEF Fail, Faulty
  <1>3. faults' \in Nat /\ Live(w)
    BY <1>0, <1>2 DEF TypeOK, Live, At, Over
  <1> HIDE DEF p
  <1> QED
    BY <1>0, <1>1, <1>2, <1>3, TurnsKeep

LEMMA UndoKeeps ==
    ASSUME ReplacementInv, NEW w \in Writer, Undo(w)
    PROVE  ReplacementInv'
  <1> DEFINE p == IF Doomed(w) = {} THEN [writer[w] EXCEPT !.at = "unchanged"]
                  ELSE [writer[w] EXCEPT !.at = "removing", !.left = Doomed(w)]
  <1>0. w \in Author /\ TypeOK /\ writer[w].at = "undoing"
    BY DEF Author, ReplacementInv, Undo, At
  <1>1. /\ p \in Progress /\ p.kind = writer[w].kind
        /\ p.known = writer[w].known
        /\ p.made = writer[w].made /\ p.tied = writer[w].tied
        /\ p.at = "unchanged" \/ (p.at = "removing" /\ p.left = Doomed(w))
    BY <1>0, Fields DEF Progress, Phase, Doomed, TypeOK
  <1>2. Goes(w, p) /\ UNCHANGED <<rows, running, runs, faults, history>>
    BY DEF Undo
  <1>3. faults' \in Nat /\ Live(w)
    BY <1>0, <1>2 DEF TypeOK, Live, At, Over
  <1> HIDE DEF p
  <1> QED
    BY <1>0, <1>1, <1>2, <1>3, TurnsKeep

LEMMA BreakKeeps ==
    ASSUME ReplacementInv, NEW w \in Writer, Break(w)
    PROVE  ReplacementInv'
  <1> DEFINE p == [writer[w] EXCEPT !.at = "broken"]
  <1>0. w \in Author /\ TypeOK /\ writer[w].at \in {"listing", "clearing", "undoing", "removing"}
    BY DEF Author, ReplacementInv, Break
  <1>1. /\ p \in Progress /\ p.kind = writer[w].kind /\ p.known = writer[w].known
        /\ p.made = writer[w].made /\ p.tied = writer[w].tied /\ p.at = "broken"
    BY <1>0, Fields DEF Progress, Phase
  <1>2. Goes(w, p) /\ UNCHANGED <<rows, running, runs, history>> /\ faults' = faults + 1
    BY DEF Break, Faulty
  <1>3. faults' \in Nat /\ Live(w)
    BY <1>0, <1>2 DEF TypeOK, Live, At, Over
  <1> HIDE DEF p
  <1> QED
    BY <1>0, <1>1, <1>2, <1>3, TurnsKeep

LEMMA RunsKeep ==
    ASSUME ReplacementInv, StartRun \/ EndRun
    PROVE  ReplacementInv'
  <1>0. TypeOK /\ UNCHANGED <<rows, writer, faults, history>>
    BY DEF ReplacementInv, StartRun, EndRun
  <1>1. TypeOK'
    <2>1. running' \in BOOLEAN /\ runs' \in Nat
      <3>1. running' = TRUE \/ running' = FALSE
        BY DEF StartRun, EndRun
      <3>2. runs' = runs + 1 \/ runs' = runs
        BY DEF StartRun, EndRun
      <3>3. running' \in BOOLEAN
        BY <3>1
      <3>4. runs' \in Nat
        BY <3>2, <1>0 DEF TypeOK
      <3> QED
        BY <3>3, <3>4
    <2> QED
      BY <1>0, <2>1 DEF TypeOK, rows, history
  <1>2. SameRows
    BY <1>0 DEF SameRows, rows, history
  <1>3. (NothingAhead /\ EdgesFit /\ KnownIsOld /\ LastStands)'
    BY <1>2, SameRowsKeep DEF ReplacementInv
  <1>4. LeftIsRest' /\ AloneIsExact'
    BY <1>0 DEF ReplacementInv, LeftIsRest, AloneIsExact, Replacing, Does, Live, At, rows, history
  <1> QED
    BY <1>1, <1>3, <1>4 DEF ReplacementInv

LEMMA CrashKeeps ==
    ASSUME ReplacementInv, Crash
    PROVE  ReplacementInv'
  <1>0. TypeOK /\ UNCHANGED <<rows, runs, history>> /\ faults' = faults + 1
        /\ running' \in {running, FALSE}
    BY DEF ReplacementInv, Crash, Faulty
  <1>1. \A v \in Author :
            \/ /\ Live(v) /\ writer'[v] = Settled([writer[v] EXCEPT !.at = "broken"])
            \/ /\ ~Live(v) /\ writer'[v] = writer[v]
    BY DEF Crash
  <1>2. \A v \in Author : /\ Settled([writer[v] EXCEPT !.at = "broken"]) \in Progress
                          /\ Settled([writer[v] EXCEPT !.at = "broken"]).at = "broken"
                          /\ Settled([writer[v] EXCEPT !.at = "broken"]).made = writer[v].made
                          /\ Settled([writer[v] EXCEPT !.at = "broken"]).tied = writer[v].tied
                          /\ Settled([writer[v] EXCEPT !.at = "broken"]).known = {}
                          /\ Settled([writer[v] EXCEPT !.at = "broken"]).left = {}
    <2> SUFFICES ASSUME NEW v \in Author
                 PROVE  LET q == Settled([writer[v] EXCEPT !.at = "broken"]) IN
                           /\ q \in Progress /\ q.at = "broken"
                           /\ q.made = writer[v].made /\ q.tied = writer[v].tied
                           /\ q.known = {} /\ q.left = {}
      OBVIOUS
    <2> DEFINE p == [writer[v] EXCEPT !.at = "broken"]
    <2>1. p \in Progress /\ p.at = "broken" /\ p.made = writer[v].made /\ p.tied = writer[v].tied
      BY <1>0, Fields DEF Progress, Phase
    <2> HIDE DEF p
    <2>2. Settled(p) \in Progress /\ Settled(p).at = p.at /\ Settled(p).made = p.made
          /\ Settled(p).tied = p.tied /\ Settled(p).known = {} /\ Settled(p).left = {}
      BY <2>1 DEF Settled, Progress, Over
    <2> QED
      BY <2>1, <2>2 DEF p
  <1>3. \A v \in Author : /\ writer'[v] \in Progress /\ ~Live(v)'
                          /\ writer'[v].made = writer[v].made /\ writer'[v].tied = writer[v].tied
                          /\ writer'[v].known \subseteq writer[v].known
                          /\ writer'[v].at \in {"clearing", "removing"} => FALSE
                          /\ writer'[v].left = {}
                          /\ writer'[v].at \in {"idle", "listing"} => writer[v].at \in {"idle", "listing"}
    <2> SUFFICES ASSUME NEW v \in Author
                 PROVE  /\ writer'[v] \in Progress /\ ~Live(v)'
                        /\ writer'[v].made = writer[v].made /\ writer'[v].tied = writer[v].tied
                        /\ writer'[v].known \subseteq writer[v].known
                        /\ writer'[v].at \in {"clearing", "removing"} => FALSE
                        /\ writer'[v].left = {}
                        /\ writer'[v].at \in {"idle", "listing"} => writer[v].at \in {"idle", "listing"}
      OBVIOUS
    <2>1. CASE Live(v)
      <3>1. writer'[v] = Settled([writer[v] EXCEPT !.at = "broken"])
        BY <2>1, <1>1
      <3>2. /\ writer'[v] \in Progress /\ writer'[v].at = "broken"
            /\ writer'[v].made = writer[v].made /\ writer'[v].tied = writer[v].tied
            /\ writer'[v].known = {} /\ writer'[v].left = {}
        BY <3>1, <1>2
      <3> QED
        BY <3>2 DEF Live, At, Over
    <2>2. CASE ~Live(v)
      <3>1. writer'[v] = writer[v]
        BY <2>2, <1>1
      <3>2. writer[v].at \in Over \cup {"idle"} /\ writer[v].left = {} /\ writer[v] \in Progress
        BY <2>2, <1>0, Fields DEF Live, Over, ReplacementInv, LeftIsRest
      <3> QED
        BY <3>1, <3>2 DEF Live, At, Over
    <2> QED
      BY <2>1, <2>2
  <1>4. TypeOK'
    <2>1. writer' \in [Author -> Progress]
      <3>1. writer' = [v \in Author |-> writer'[v]]
        BY DEF Crash
      <3> QED
        BY <3>1, <1>3
    <2>2. running' \in BOOLEAN
      <3>1. running' = running \/ running' = FALSE
        BY <1>0
      <3>2. running \in BOOLEAN
        BY <1>0 DEF TypeOK
      <3> QED
        BY <3>1, <3>2
    <2> QED
      BY <1>0, <2>1, <2>2 DEF TypeOK, rows, history
  <1>5. SameRows
    BY <1>0, <1>3 DEF SameRows, rows, history
  <1>6. (NothingAhead /\ EdgesFit /\ KnownIsOld /\ LastStands)'
    BY <1>5, SameRowsKeep DEF ReplacementInv
  <1>7. LeftIsRest' /\ AloneIsExact'
    BY <1>3 DEF LeftIsRest, AloneIsExact, Replacing, At, Author
  <1> QED
    BY <1>4, <1>6, <1>7 DEF ReplacementInv

-----------------------------------------------------------------------------
(* Every step keeps it                                                     *)

LEMMA NextKeeps ==
    ASSUME ReplacementInv, [Next]_vars
    PROVE  ReplacementInv'
  <1>1. ASSUME NEW w \in Writer, NEW kind \in MayDo[w], Begin(w, kind)
        PROVE  ReplacementInv'
    BY <1>1, BeginKeeps
  <1>2. ASSUME NEW w \in Writer,
               List(w) \/ Create(w) \/ Tie(w) \/ Fail(w) \/ Undo(w) \/ Break(w)
        PROVE  ReplacementInv'
    BY <1>2, ListKeeps, CreateKeeps, TieKeeps, FailKeeps, UndoKeeps, BreakKeeps
  <1>3. ASSUME NEW w \in Writer, NEW s \in writer[w].left, Delete(w, s)
        PROVE  ReplacementInv'
    BY <1>3, DeleteKeeps
  <1>4. CASE StartRun \/ EndRun
    BY <1>4, RunsKeep
  <1>5. CASE Crash
    BY <1>5, CrashKeeps
  <1>6. CASE UNCHANGED vars
    <2>1. UNCHANGED <<steps, edges, writer, running, runs, faults, last, disturbed, robbed>>
      BY <1>6 DEF vars, rows, history
    <2>2. TypeOK'
      BY <2>1 DEF ReplacementInv, TypeOK
    <2>3. SameRows
      BY <2>1 DEF SameRows, rows
    <2>4. (NothingAhead /\ EdgesFit /\ KnownIsOld /\ LastStands)'
      BY <2>3, SameRowsKeep DEF ReplacementInv
    <2>5. (LeftIsRest /\ AloneIsExact)'
      BY <2>1 DEF ReplacementInv, LeftIsRest, AloneIsExact, Replacing, Does, Live, At
    <2> QED
      BY <2>2, <2>4, <2>5 DEF ReplacementInv
  <1> QED
    BY <1>1, <1>2, <1>3, <1>4, <1>5, <1>6 DEF Next

(* The strengthening of the invariants below holds in every reachable      *)
(* state, for any number of writers, graphs of any size and any faults.    *)
THEOREM ReplacementIsSound == Spec => []ReplacementInv
  <1>1. Init => ReplacementInv
    BY InitInv
  <1>2. ReplacementInv /\ [Next]_vars => ReplacementInv'
    BY NextKeeps
  <1> QED
    BY <1>1, <1>2, PTL DEF Spec

(* Of writers of a graph that overlap, the last to list or wipe it loses   *)
(* nothing it has written, rollbacks apart (replaceGraph deletes only what *)
(* it found).                                                              *)
THEOREM LastWriterStands == Spec => []LastStands
  <1>1. ReplacementInv => LastStands
    BY DEF ReplacementInv
  <1> QED
    BY <1>1, ReplacementIsSound, PTL

-----------------------------------------------------------------------------
(* How a replacement ends                                                  *)

EndsWell(w) ==
    /\ writer'[w].at = "done" =>
          /\ writer[w].known \cap steps' = {}
          /\ w \notin disturbed' => steps' = StepsOf(w) /\ edges' = EdgesOf(w)
    /\ writer'[w].at = "unchanged" =>
          /\ StepsOf(w) \cap steps' = {}
          /\ w \notin disturbed' => steps' = writer[w].known

(* Where the steps are those of w, so are the edges.                       *)
LEMMA OwnEdges ==
    ASSUME ReplacementInv', NEW w \in Author, steps' = StepsOf(w),
           writer'[w].tied = Size - 1, EdgesOf(w) \subseteq edges'
    PROVE  edges' = EdgesOf(w)
  <1> SUFFICES ASSUME NEW e \in edges' PROVE e \in EdgesOf(w)
    OBVIOUS
  <1>1. e[1] \in StepsOf(w) /\ e \in FirstEdges(e[1][1], writer'[e[1][1]].tied)
    BY DEF ReplacementInv, EdgesFit
  <1>2. e[1][1] = w
    BY <1>1, StepFacts DEF StepsOf
  <1> QED
    BY <1>1, <1>2 DEF EdgesOf

LEMMA BuiltEndsWell ==
    ASSUME ReplacementInv, ReplacementInv', NEW w \in Writer, Create(w) \/ Tie(w),
           Does(w, "replace")
    PROVE  EndsWell(w)
  <1> DEFINE p == IF Create(w) THEN [writer[w] EXCEPT !.made = writer[w].made + 1]
                  ELSE [writer[w] EXCEPT !.tied = @ + 1]
             q == Onwards(w, p)
  <1>0. w \in Author /\ TypeOK /\ writer[w].at = "building" /\ writer[w].kind = "replace"
    BY DEF Author, ReplacementInv, Create, Tie, Ties, At, Does
  <1>1. writer[w].made \in 0 .. Size /\ writer[w].tied \in 0 .. Size /\ writer[w].tied < Size
    BY <1>0, Fields DEF ReplacementInv, NothingAhead
  <1>2. /\ p \in Progress /\ p.at = "building" /\ p.kind = writer[w].kind
        /\ p.known = writer[w].known /\ p.left = writer[w].left
    <2>1. CASE Create(w)
      <3>1. writer[w].made + 1 \in 0 .. Size
        BY <2>1, <1>1 DEF Create
      <3> QED
        BY <2>1, <3>1, <1>0, Fields DEF Progress
    <2>2. CASE ~Create(w)
      <3>1. writer[w].tied + 1 \in 0 .. Size
        BY <1>1
      <3> QED
        BY <2>2, <3>1, <1>0, Fields DEF Progress
    <2> QED
      BY <2>1, <2>2
  <1>3. Goes(w, q) /\ Disturbs(w)
    BY DEF Create, Tie
  <1> HIDE DEF p
  <1>4. /\ q \in Progress /\ q.made = p.made /\ q.tied = p.tied
        /\ q.at \in {"building", "clearing", "done"}
        /\ q.at \in {"clearing", "done"} => p.made = Size /\ (p.tied < Size => p.tied = Size - 1)
        /\ q.at = "done" => writer[w].known = {}
    BY <1>0, <1>2, OnwardsFacts DEF ReplacementInv
  <1> HIDE DEF q
  <1>5. /\ writer'[w].at = q.at /\ writer'[w].made = p.made /\ writer'[w].tied = p.tied
    BY <1>0, <1>3, <1>4, Moves
  <1> SUFFICES ASSUME writer'[w].at = "done"
               PROVE  /\ writer[w].known = {}
                      /\ w \notin disturbed' => steps' = StepsOf(w) /\ edges' = EdgesOf(w)
    BY <1>4, <1>5 DEF EndsWell
  <1>6. writer'[w].made = Size /\ writer'[w].tied = Size - 1 /\ writer[w].known = {}
    BY <1>0, <1>4, <1>5 DEF ReplacementInv, NothingAhead
  <1> SUFFICES ASSUME w \notin disturbed' PROVE steps' = StepsOf(w) /\ edges' = EdgesOf(w)
    BY <1>6
  <1>7. /\ steps = FirstSteps(w, writer[w].made)
        /\ FirstEdges(w, writer[w].tied) \subseteq edges
    <2>1. w \in Replacing \ disturbed
      BY <1>0, <1>3 DEF Disturbs, Replacing, Does, Live, At, Over
    <2>2. steps = writer[w].known \cup FirstSteps(w, writer[w].made)
      BY <2>1, <1>0 DEF ReplacementInv, AloneIsExact, At
    <2>3. FirstEdges(w, writer[w].tied) \subseteq edges
      BY <2>1, <1>0 DEF ReplacementInv, AloneIsExact, At
    <2> QED
      BY <2>2, <2>3, <1>6
  <1>8. steps' = StepsOf(w) /\ EdgesOf(w) \subseteq edges'
    <2>1. CASE Create(w)
      <3> DEFINE n == writer[w].made + 1
      <3>1. p = [writer[w] EXCEPT !.made = n]
        BY <2>1 DEF p
      <3>2. p.made = n /\ p.tied = writer[w].tied
        BY <3>1, <1>0, Fields DEF Progress
      <3>3. n = Size /\ writer[w].tied = Size - 1
        BY <3>2, <1>5, <1>6
      <3>4. steps' = steps \cup {<<w, n>>} /\ edges' = edges /\ writer[w].made < Size
        BY <2>1 DEF Create
      <3>5. FirstSteps(w, n) = FirstSteps(w, writer[w].made) \cup {<<w, n>>}
        BY <3>4, <1>0, <1>1, NextStep
      <3> QED
        BY <3>3, <3>4, <3>5, <1>7 DEF StepsOf, EdgesOf
    <2>2. CASE Tie(w)
      <3> DEFINE n == writer[w].tied + 1
      <3>0. writer[w].made = Size
        BY <2>2 DEF Tie, Ties
      <3>1. ~Create(w)
        BY <3>0, <1>1 DEF Create
      <3>2. p = [writer[w] EXCEPT !.tied = n]
        BY <3>1 DEF p
      <3>3. p.tied = n
        BY <3>2, <1>0, Fields DEF Progress
      <3>4. n = Size - 1
        BY <3>3, <1>5, <1>6
      <3>5. /\ Edge(w) = <<<<w, n>>, <<w, n + 1>>>> /\ n + 1 = writer[w].tied + 2
            /\ steps' = steps /\ edges' = edges \cup {Edge(w)}
        BY <2>2, <1>1 DEF Tie, Edge
      <3>6. FirstEdges(w, n) = FirstEdges(w, writer[w].tied) \cup {Edge(w)}
        BY <3>5, <1>0, <1>1, NextEdge
      <3> QED
        BY <3>0, <3>4, <3>5, <3>6, <1>7 DEF StepsOf, EdgesOf
    <2> QED
      BY <2>1, <2>2
  <1> QED
    BY <1>0, <1>6, <1>8, OwnEdges

LEMMA DeletedEndsWell ==
    ASSUME ReplacementInv, ReplacementInv', NEW w \in Writer, NEW s \in writer[w].left,
           Delete(w, s), Does(w, "replace")
    PROVE  EndsWell(w)
  <1> DEFINE p == [writer[w] EXCEPT !.left = @ \ {s},
                        !.at = IF writer[w].left = {s} THEN Ending(w) ELSE @]
  <1>0. w \in Author /\ TypeOK /\ writer[w].at \in {"clearing", "removing"}
    BY DEF Author, ReplacementInv, Delete
  <1>1. /\ p \in Progress /\ p.tied = writer[w].tied
        /\ p.at = IF writer[w].left = {s} THEN Ending(w) ELSE writer[w].at
    BY <1>0, Fields DEF Progress, Phase, Ending
  <1>2. /\ Goes(w, p) /\ Disturbs(w) /\ steps' = steps \ {s}
    BY DEF Delete, Deletes
  <1> HIDE DEF p
  <1>3. writer'[w].at = p.at /\ writer'[w].tied = writer[w].tied
    BY <1>0, <1>1, <1>2, Moves
  <1>4. w \notin disturbed' => w \in Replacing \ disturbed
    BY <1>0, <1>2 DEF Disturbs, Replacing, Live, At, Over
  <1>5. CASE writer[w].left # {s}
    BY <1>0, <1>1, <1>3, <1>5 DEF EndsWell
  <1>6. CASE writer[w].left = {s} /\ writer[w].at = "clearing"
    <2>1. writer'[w].at = "done"
      BY <1>1, <1>3, <1>6 DEF Ending, At
    <2>2. writer[w].known \cap steps' = {} /\ s \notin StepsOf(w) /\ writer[w].tied = Size - 1
      BY <1>0, <1>2, <1>6 DEF ReplacementInv, LeftIsRest, KnownIsOld, At
    <2>3. ASSUME w \notin disturbed'
          PROVE  steps' = StepsOf(w) /\ edges' = EdgesOf(w)
      <3>1. steps = {s} \cup StepsOf(w) /\ EdgesOf(w) \subseteq edges
        BY <1>4, <1>6, <2>3 DEF ReplacementInv, AloneIsExact, At
      <3>2. steps' = StepsOf(w)
        BY <3>1, <2>2, <1>2
      <3>3. writer[w].tied \in 0 .. Size /\ writer[w].tied < Size
        BY <1>0, Fields DEF ReplacementInv, NothingAhead
      <3>4. \A e \in EdgesOf(w) : e[1] # s /\ e[2] # s
        BY <1>0, <2>2, <3>3, EdgeFacts DEF EdgesOf
      <3>5. EdgesOf(w) \subseteq edges'
        BY <3>1, <3>4 DEF Delete, Deletes
      <3> QED
        BY <3>2, <3>5, <1>0, <1>3, <2>2, OwnEdges
    <2> QED
      BY <2>1, <2>2, <2>3 DEF EndsWell
  <1>7. CASE writer[w].left = {s} /\ writer[w].at = "removing"
    <2>1. writer'[w].at = "unchanged"
      BY <1>1, <1>3, <1>7 DEF Ending, At
    <2>2. StepsOf(w) \cap steps' = {}
      BY <1>0, <1>2, <1>7 DEF ReplacementInv, LeftIsRest, At
    <2>3. ASSUME w \notin disturbed' PROVE steps' = writer[w].known
      <3>1. steps = writer[w].known \cup {s} /\ writer[w].known \cap {s} = {}
        BY <1>4, <1>7, <2>3 DEF ReplacementInv, AloneIsExact, At
      <3> QED
        BY <3>1, <1>2
    <2> QED
      BY <2>1, <2>2, <2>3 DEF EndsWell
  <1> QED
    BY <1>0, <1>5, <1>6, <1>7

LEMMA UndoneEndsWell ==
    ASSUME ReplacementInv, NEW w \in Writer, Undo(w), Does(w, "replace")
    PROVE  EndsWell(w)
  <1> DEFINE p == IF Doomed(w) = {} THEN [writer[w] EXCEPT !.at = "unchanged"]
                  ELSE [writer[w] EXCEPT !.at = "removing", !.left = Doomed(w)]
  <1>0. w \in Author /\ TypeOK /\ writer[w].at = "undoing"
    BY DEF Author, ReplacementInv, Undo, At
  <1>1. p \in Progress /\ p.at = IF Doomed(w) = {} THEN "unchanged" ELSE "removing"
    <2>1. CASE Doomed(w) = {}
      BY <2>1, <1>0, Fields DEF Progress, Phase
    <2>2. CASE Doomed(w) # {}
      <3>1. Doomed(w) \subseteq StepId
        BY <1>0 DEF Doomed, TypeOK
      <3> QED
        BY <2>2, <3>1, <1>0, Fields DEF Progress, Phase
    <2> QED
      BY <2>1, <2>2
  <1>2. Goes(w, p) /\ UNCHANGED <<rows, history>>
    BY DEF Undo
  <1> HIDE DEF p
  <1>3. writer'[w].at = IF Doomed(w) = {} THEN "unchanged" ELSE "removing"
    BY <1>0, <1>1, <1>2, Moves
  <1> SUFFICES ASSUME Doomed(w) = {}
               PROVE  /\ StepsOf(w) \cap steps' = {}
                      /\ w \notin disturbed' => steps' = writer[w].known
    BY <1>3 DEF EndsWell
  <1>4. steps \subseteq writer[w].known /\ StepsOf(w) \cap writer[w].known = {}
    BY <1>0 DEF Doomed, ReplacementInv, KnownIsOld
  <1>5. w \notin disturbed => steps = writer[w].known \cup FirstSteps(w, writer[w].made)
    BY <1>0 DEF ReplacementInv, AloneIsExact, Replacing, Live, At, Over
  <1> QED
    BY <1>2, <1>4, <1>5 DEF rows, history

(* The other steps of a writer end no replacement well, or badly.          *)
LEMMA OthersEndNothing ==
    ASSUME ReplacementInv, NEW w \in Writer, Live(w),
           \/ UNCHANGED writer
           \/ \E kind \in MayDo[w] : Begin(w, kind)
           \/ List(w) \/ Fail(w) \/ Break(w) \/ Crash
           \/ \E v \in Writer : v # w /\ \E p : Goes(v, p)
    PROVE  EndsWell(w)
  <1>0. w \in Author /\ TypeOK /\ writer[w].at \notin Over \cup {"idle"}
    BY DEF Author, ReplacementInv, Live
  <1>1. CASE UNCHANGED writer
    BY <1>0, <1>1 DEF EndsWell, Over
  <1>2. CASE \E kind \in MayDo[w] : Begin(w, kind)
    BY <1>0, <1>2 DEF Begin, At
  <1>3. CASE List(w)
    <2> DEFINE p == IF Does(w, "plan") THEN [writer[w] EXCEPT !.at = "building"]
                    ELSE [writer[w] EXCEPT !.at = "building", !.known = steps]
    <2>1. p \in Progress /\ p.at = "building"
      <3>1. CASE Does(w, "plan")
        BY <3>1, <1>0, Fields DEF Progress, Phase
      <3>2. CASE ~Does(w, "plan")
        <4>1. writer[w] \in Progress /\ steps \subseteq StepId
          BY <1>0, Fields DEF TypeOK
        <4> QED
          BY <3>2, <4>1 DEF Progress, Phase
      <3> QED
        BY <3>1, <3>2
    <2>2. Goes(w, p)
      BY <1>3 DEF List
    <2> HIDE DEF p
    <2> QED
      BY <1>0, <2>1, <2>2, Moves DEF EndsWell
  <1>4. CASE Fail(w) \/ Break(w)
    <2> DEFINE p == [writer[w] EXCEPT !.at = IF Fail(w) /\ Does(w, "replace") THEN "undoing" ELSE "broken"]
    <2>1. p \in Progress /\ p.at \in {"undoing", "broken"}
      BY <1>0, Fields DEF Progress, Phase
    <2>2. Goes(w, p)
      <3>1. CASE Fail(w)
        BY <3>1 DEF Fail
      <3>2. CASE Break(w) /\ ~Fail(w)
        BY <3>2 DEF Break
      <3> QED
        BY <3>1, <3>2, <1>4
    <2> HIDE DEF p
    <2> QED
      BY <1>0, <2>1, <2>2, Moves DEF EndsWell
  <1>5. CASE Crash
    <2> DEFINE p == [writer[w] EXCEPT !.at = "broken"]
    <2>1. writer'[w] = Settled(p)
      BY <1>0, <1>5 DEF Crash
    <2>2. p \in Progress /\ p.at = "broken"
      BY <1>0, Fields DEF Progress, Phase
    <2> HIDE DEF p
    <2>3. Settled(p).at = "broken"
      BY <2>2 DEF Settled, Progress
    <2> QED
      BY <2>1, <2>3 DEF EndsWell
  <1>6. CASE \E v \in Writer : v # w /\ \E p : Goes(v, p)
    <2>1. writer'[w] = writer[w]
      BY <1>0, <1>6 DEF Goes, TypeOK
    <2> QED
      BY <1>0, <2>1 DEF EndsWell, Over
  <1> QED
    BY <1>1, <1>2, <1>3, <1>4, <1>5, <1>6

(* "A failure part-way removes what was created": whatever fails, whoever  *)
(* else writes, a replacement that reports success leaves none of the old  *)
(* steps and one that reports that nothing was changed none of its own;    *)
(* when nobody else wrote meanwhile the graph is exactly the new or the    *)
(* old one.                                                                *)
THEOREM ReplacementsEndWell == Spec => ReplacedOrUnchanged
  <1>1. ASSUME ReplacementInv, ReplacementInv', [Next]_vars,
               NEW w \in Writer, Does(w, "replace"), Live(w)
        PROVE  EndsWell(w)
    <2> USE <1>1
    <2>1. ASSUME NEW v \in Writer, NEW kind \in MayDo[v], Begin(v, kind)
          PROVE  EndsWell(w)
      BY <2>1, OthersEndNothing DEF Begin
    <2>2. ASSUME NEW v \in Writer, v # w,
                 List(v) \/ Create(v) \/ Tie(v) \/ Fail(v) \/ Undo(v) \/ Break(v)
          PROVE  EndsWell(w)
      <3>1. \E p : Goes(v, p)
        BY <2>2 DEF List, Create, Tie, Fail, Undo, Break
      <3> QED
        BY <3>1, <2>2, OthersEndNothing
    <2>3. ASSUME NEW v \in Writer, v # w, NEW s \in writer[v].left, Delete(v, s)
          PROVE  EndsWell(w)
      BY <2>3, OthersEndNothing DEF Delete
    <2>4. ASSUME List(w) \/ Create(w) \/ Tie(w) \/ Fail(w) \/ Undo(w) \/ Break(w)
          PROVE  EndsWell(w)
      BY <2>4, BuiltEndsWell, UndoneEndsWell, OthersEndNothing
    <2>5. ASSUME NEW s \in writer[w].left, Delete(w, s)
          PROVE  EndsWell(w)
      BY <2>5, DeletedEndsWell
    <2>6. CASE StartRun \/ EndRun \/ UNCHANGED vars
      BY <2>6, OthersEndNothing DEF StartRun, EndRun, vars
    <2>7. CASE Crash
      BY <2>7, OthersEndNothing
    <2> QED
      BY <2>1, <2>2, <2>3, <2>4, <2>5, <2>6, <2>7 DEF Next
  <1>2. ReplacementInv /\ ReplacementInv' /\ [Next]_vars =>
            [\A w \in Writer : Does(w, "replace") /\ Live(w) =>
               /\ writer'[w].at = "done" =>
                     /\ writer[w].known \cap steps' = {}
                     /\ w \notin disturbed' => steps' = StepsOf(w) /\ edges' = EdgesOf(w)
               /\ writer'[w].at = "unchanged" =>
                     /\ StepsOf(w) \cap steps' = {}
                     /\ w \notin disturbed' => steps' = writer[w].known]_vars
    BY <1>1 DEF EndsWell
  <1> QED
    BY <1>2, ReplacementIsSound, PTL DEF Spec, ReplacedOrUnchanged
=============================================================================
