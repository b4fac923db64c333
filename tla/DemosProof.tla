------------------------------ MODULE DemosProof ------------------------------
(***************************************************************************)
(* Proofs about the demo executables.  What is said of the scripted ones   *)
(* holds of every program whose script is well made: it relates what the   *)
(* script promises at a step to what a run, with its failures, finds.      *)
(***************************************************************************)
EXTENDS Demos, FiniteSetTheorems, Arithmetic

\* What PingPongDemoProof.tla says of every set of devices.
Game == INSTANCE PingPongDemoProof

ScriptsWellMade == \A p \in DOMAIN Programs : App!WellMade(p)

-----------------------------------------------------------------------------
(* Scripts. *)

\* A thing is there before step i when a step made it and none since finalised it.
LEMMA MadeIs ==
  ASSUME NEW p, NEW i, NEW w
  PROVE  w \in App!Made(p, i) <=>
           \E k \in 1..(i - 1) :
             /\ Programs[p][k].does = "make" /\ Programs[p][k].what = w
             /\ \A l \in k..(i - 1) : ~(Programs[p][l].does = "fini" /\ Programs[p][l].what = w)
BY DEF App!Made

\* What one more step makes of it.
LEMMA MadeNext ==
  ASSUME NEW p, NEW i \in Nat \ {0}
  PROVE  /\ Programs[p][i].does = "make" =>
              App!Made(p, i + 1) = App!Made(p, i) \cup {Programs[p][i].what}
         /\ Programs[p][i].does = "fini" =>
              App!Made(p, i + 1) = App!Made(p, i) \ {Programs[p][i].what}
         /\ Programs[p][i].does \notin {"make", "fini"} => App!Made(p, i + 1) = App!Made(p, i)
<1> DEFINE s(k) == Programs[p][k]
           Unfinished(w, k, j) == \A l \in k..j : ~(s(l).does = "fini" /\ s(l).what = w)
<1>1. (i + 1) - 1 = i /\ i - 1 \in Nat /\ \A k \in 1..i : k \in 1..(i - 1) \/ k = i
  OBVIOUS
<1>2. \A k \in 1..(i - 1) : k \in 1..i /\ i \in k..i /\ \A l \in k..i : l \in k..(i - 1) \/ l = i
  OBVIOUS
<1>3. \A w : \A k \in 1..(i - 1) : Unfinished(w, k, i) <=>
         Unfinished(w, k, i - 1) /\ ~(s(i).does = "fini" /\ s(i).what = w)
  <2>1. \A k \in 1..(i - 1) : \A l \in k..(i - 1) : l \in k..i
    OBVIOUS
  <2> QED
    BY <1>2, <2>1
<1>4. i \in 1..i /\ \A l \in i..i : l = i
  OBVIOUS
<1> HIDE DEF s
<1>5. \A w : w \in App!Made(p, i + 1) <=>
         \/ w \in App!Made(p, i) /\ ~(s(i).does = "fini" /\ s(i).what = w)
         \/ s(i).does = "make" /\ s(i).what = w
  <2> SUFFICES ASSUME NEW w
               PROVE  w \in App!Made(p, i + 1) <=>
                        \/ w \in App!Made(p, i) /\ ~(s(i).does = "fini" /\ s(i).what = w)
                        \/ s(i).does = "make" /\ s(i).what = w
    OBVIOUS
  <2>1. w \in App!Made(p, i + 1) <=>
          \E k \in 1..i : s(k).does = "make" /\ s(k).what = w /\ Unfinished(w, k, i)
    BY <1>1, MadeIs DEF s
  <2>2. w \in App!Made(p, i) <=>
          \E k \in 1..(i - 1) : s(k).does = "make" /\ s(k).what = w /\ Unfinished(w, k, i - 1)
    BY <1>1, MadeIs DEF s
  <2>3. s(i).does = "make" => Unfinished(w, i, i)
    BY <1>4
  <2> HIDE DEF Unfinished
  <2> QED
    BY <1>1, <1>2, <1>3, <1>4, <2>1, <2>2, <2>3
<1>6. ("make" # "fini") /\ s(i) = Programs[p][i]
  BY DEF s
<1> QED
  BY <1>5, <1>6

-----------------------------------------------------------------------------
(* The scripted programs. *)

\* A run has come to step n of program p: what the script says is there is there,
\* or its absence went unnoticed, which only a careless program lets happen.
EntitiesInv(p, n) ==
  /\ App!Made(p, n) \subseteq live \cup missed
  /\ live \subseteq App!Made(p, n) \cup missed
  /\ p \notin CarelessPrograms => App!Made(p, n) \subseteq live

InExecutor(s, x) == [executor |-> x, handle |-> s.what, uses |-> s.uses]

\* The executors hold what has been added to them, except what was refused unnoticed.
ServedInv(p, n) ==
  /\ \A e \in served : \E j \in 1..(n - 1) :
       /\ Programs[p][j].does = "add"
       /\ e.executor \in Programs[p][j].onto
       /\ e = InExecutor(Programs[p][j], e.executor)
  /\ \A j \in 1..(n - 1) : Programs[p][j].does = "add" /\ Programs[p][j].what \notin missed =>
       \A x \in Programs[p][j].onto : InExecutor(Programs[p][j], x) \in served

\* How many steps of the script have been taken.
Reached == IF fate = "ended" THEN Len(Programs[program]) + 1 ELSE at

AppInv ==
  program \in DOMAIN Programs =>
    /\ at \in DOMAIN Programs[program]
    /\ fate \in {"running", "aborted", "stuck", "ended", "crashed"}
    /\ fate = "ended" => at = Len(Programs[program]) /\ App!Here.does # "loop"
    /\ fate \in {"running", "ended"} => EntitiesInv(program, Reached) /\ ServedInv(program, Reached)
    /\ misused \subseteq missed
    /\ misused # {} => program \in CarelessPrograms

\* Steps are numbered from 1.
LEMMA StepNumbers ==
  ASSUME ScriptsWellMade, NEW p \in DOMAIN Programs, NEW n \in DOMAIN Programs[p]
  PROVE  /\ n \in Nat \ {0} /\ Len(Programs[p]) \in Nat /\ n <= Len(Programs[p])
         /\ n # Len(Programs[p]) => n + 1 \in DOMAIN Programs[p]
         /\ App!StepWellMade(p, n, Programs[p][n])
<1>1. /\ Len(Programs[p]) \in Nat \ {0} /\ DOMAIN Programs[p] = 1..Len(Programs[p])
      /\ App!StepWellMade(p, n, Programs[p][n])
  BY DEF ScriptsWellMade, App!WellMade
<1> QED
  BY <1>1

\* What a step needs is there, unless its absence went unnoticed.
LEMMA StepFinds ==
  ASSUME ScriptsWellMade, NEW p \in DOMAIN Programs, NEW n \in DOMAIN Programs[p],
         EntitiesInv(p, n)
  PROVE  /\ Programs[p][n].needs \ live \subseteq missed
         /\ p \notin CarelessPrograms => Programs[p][n].needs \ live = {}
<1>1. Programs[p][n].needs \subseteq App!Made(p, n)
  BY StepNumbers DEF App!StepWellMade
<1> QED
  BY <1>1 DEF EntitiesInv

\* What a step that was taken, or failed and no one looked, does to the entities
\* and to what the executors hold.
EntitiesChange(s) ==
  \/ s.does = "make" /\ live' = live \cup {s.what} /\ missed' = missed
  \/ s.does = "fini" /\ live' = live \ {s.what} /\ missed' = missed
  \/ s.does \notin {"make", "fini"} /\ live' = live /\ missed' = missed
  \/ /\ s.check = "none" /\ missed' = missed \cup {s.what}
     /\ live' = live \/ (s.does = "fini" /\ live' = live \ {s.what})

ServedChange(s) ==
  \/ served' = served /\ (s.does # "add" \/ s.what \in missed')
  \/ s.does = "add" /\ served' = served \cup {InExecutor(s, x) : x \in s.onto}

\* The entities after such a step.
LEMMA EntitiesNext ==
  ASSUME ScriptsWellMade, NEW p \in DOMAIN Programs, NEW n \in DOMAIN Programs[p],
         EntitiesInv(p, n), EntitiesChange(Programs[p][n])
  PROVE  EntitiesInv(p, n + 1)'
<1> DEFINE s == Programs[p][n]
           old == App!Made(p, n)
           new == App!Made(p, n + 1)
<1>1. /\ s.does = "make" => new = old \cup {s.what}
      /\ s.does = "fini" => new = old \ {s.what}
      /\ s.does \notin {"make", "fini"} => new = old
  BY StepNumbers, MadeNext
<1>2. s.does = "make" /\ s.check = "none" => p \in CarelessPrograms
  BY StepNumbers DEF App!StepWellMade
<1>3. /\ old \subseteq live \cup missed /\ live \subseteq old \cup missed
      /\ p \notin CarelessPrograms => old \subseteq live
  BY DEF EntitiesInv
<1> HIDE DEF s, old, new
<1>4. /\ new \subseteq live' \cup missed' /\ live' \subseteq new \cup missed'
      /\ p \notin CarelessPrograms => new \subseteq live'
  <2>1. CASE s.does = "make" /\ live' = live \cup {s.what} /\ missed' = missed
    BY <1>1, <1>3, <2>1
  <2>2. CASE s.does = "fini" /\ live' = live \ {s.what} /\ missed' = missed
    BY <1>1, <1>3, <2>2
  <2>3. CASE s.does \notin {"make", "fini"} /\ live' = live /\ missed' = missed
    BY <1>1, <1>3, <2>3
  <2>4. CASE /\ s.check = "none" /\ missed' = missed \cup {s.what}
             /\ live' = live \/ (s.does = "fini" /\ live' = live \ {s.what})
    <3>1. CASE s.does = "make"
      BY <1>1, <1>2, <1>3, <2>4, <3>1
    <3>2. CASE s.does = "fini"
      BY <1>1, <1>3, <2>4, <3>2
    <3>3. CASE s.does \notin {"make", "fini"}
      BY <1>1, <1>3, <2>4, <3>3
    <3> QED
      BY <3>1, <3>2, <3>3
  <2> QED
    BY <2>1, <2>2, <2>3, <2>4 DEF s, EntitiesChange
<1> QED
  BY <1>4 DEF EntitiesInv, new

\* The executors after such a step.
LEMMA ServedNext ==
  ASSUME ScriptsWellMade, NEW p \in DOMAIN Programs, NEW n \in DOMAIN Programs[p],
         ServedInv(p, n), missed \subseteq missed', ServedChange(Programs[p][n])
  PROVE  ServedInv(p, n + 1)'
<1> DEFINE s(j) == Programs[p][j]
<1>1. /\ n \in 1..n /\ (n + 1) - 1 = n
      /\ \A j \in 1..(n - 1) : j \in 1..n
      /\ \A j \in 1..n : j \in 1..(n - 1) \/ j = n
  <2>1. n \in Nat \ {0}
    BY StepNumbers
  <2> QED
    BY <2>1
<1>2. /\ \A e \in served : \E j \in 1..(n - 1) :
           s(j).does = "add" /\ e.executor \in s(j).onto /\ e = InExecutor(s(j), e.executor)
      /\ \A j \in 1..(n - 1) : s(j).does = "add" /\ s(j).what \notin missed =>
           \A x \in s(j).onto : InExecutor(s(j), x) \in served
  BY DEF ServedInv
<1>3. /\ \A e \in served' : e \in served \/
           (s(n).does = "add" /\ \E x \in s(n).onto : e = InExecutor(s(n), x))
      /\ served \subseteq served'
      /\ s(n).does = "add" /\ s(n).what \notin missed' =>
           \A x \in s(n).onto : InExecutor(s(n), x) \in served'
  BY DEF ServedChange
<1>4. \A x : InExecutor(s(n), x).executor = x
  BY DEF InExecutor
<1> HIDE DEF s
<1>5. \A e \in served' : \E j \in 1..n :
           s(j).does = "add" /\ e.executor \in s(j).onto /\ e = InExecutor(s(j), e.executor)
  <2> SUFFICES ASSUME NEW e \in served'
               PROVE  \E j \in 1..n :
                        s(j).does = "add" /\ e.executor \in s(j).onto /\ e = InExecutor(s(j), e.executor)
    OBVIOUS
  <2>1. CASE e \in served
    BY <1>1, <1>2, <2>1
  <2>2. CASE e \notin served
    <3>1. s(n).does = "add" /\ e.executor \in s(n).onto /\ e = InExecutor(s(n), e.executor)
      BY <1>3, <1>4, <2>2
    <3> QED
      BY <1>1, <3>1
  <2> QED
    BY <2>1, <2>2
<1>6. \A j \in 1..n : s(j).does = "add" /\ s(j).what \notin missed' =>
           \A x \in s(j).onto : InExecutor(s(j), x) \in served'
  BY <1>1, <1>2, <1>3
<1> QED
  BY <1>1, <1>5, <1>6 DEF ServedInv, s

\* Going on is coming to the next step, or to the end after the last.
LEMMA GoesOn ==
  ASSUME ScriptsWellMade, AppInv, program \in DOMAIN Programs, fate = "running",
         App!GoOn, program' = program, App!Here.does # "loop"
  PROVE  /\ at \in DOMAIN Programs[program] /\ Reached = at
         /\ at' \in DOMAIN Programs[program] /\ Reached' = at + 1
         /\ fate' \in {"running", "ended"}
         /\ fate' = "ended" => at' = Len(Programs[program]) /\ App!Here'.does # "loop"
<1>1. at \in DOMAIN Programs[program]
  BY DEF AppInv
<1>2. at # Len(Programs[program]) => at + 1 \in DOMAIN Programs[program]
  BY <1>1, StepNumbers
<1> QED
  BY <1>1, <1>2 DEF App!GoOn, Reached, App!Here

\* The properties after a step of a run that goes on.
LEMMA StepTaken ==
  ASSUME ScriptsWellMade, AppInv, program \in DOMAIN Programs, fate = "running",
         program' = program, App!GoOn, App!Use(App!Here.needs), App!Here.does # "loop",
         EntitiesChange(App!Here), ServedChange(App!Here)
  PROVE  AppInv'
<1>1. PICK p, n : /\ p = program /\ n = at
                 /\ p \in DOMAIN Programs /\ n \in DOMAIN Programs[p]
  BY DEF AppInv
<1>2. App!Here = Programs[p][n]
  BY <1>1 DEF App!Here
<1>3. EntitiesInv(p, n) /\ ServedInv(p, n)
  BY <1>1 DEF AppInv, Reached
<1>4. missed \subseteq missed'
  BY DEF EntitiesChange
<1>5. EntitiesInv(p, n + 1)' /\ ServedInv(p, n + 1)'
  <2>1. EntitiesChange(Programs[p][n]) /\ ServedChange(Programs[p][n])
    BY <1>2 DEF EntitiesChange, ServedChange
  <2> QED
    BY <1>1, <1>3, <1>4, <2>1, EntitiesNext, ServedNext
<1>6. misused' \subseteq missed' /\ (misused' # {} => p \in CarelessPrograms)
  BY <1>1, <1>2, <1>3, <1>4, StepFinds DEF App!Use, AppInv
<1>7. /\ at' \in DOMAIN Programs[program] /\ Reached' = n + 1
      /\ fate' \in {"running", "ended"}
      /\ fate' = "ended" => at' = Len(Programs[program]) /\ App!Here'.does # "loop"
  BY <1>1, GoesOn
<1> QED
  BY <1>1, <1>5, <1>6, <1>7 DEF AppInv

\* And of one that stops, or only serves its callbacks.
LEMMA RunKept ==
  ASSUME ScriptsWellMade, AppInv, program \in DOMAIN Programs, fate = "running",
         program' = program, at' = at,
         \/ fate' \in {"aborted", "stuck", "crashed"}
         \/ fate' = "running" /\ UNCHANGED <<live, missed, served>>,
         missed' = missed,
         misused' \subseteq missed /\ (misused' # {} => program \in CarelessPrograms)
  PROVE  AppInv'
<1>1. CASE fate' \in {"aborted", "stuck", "crashed"}
  BY <1>1 DEF AppInv
<1>2. CASE fate' = "running" /\ UNCHANGED <<live, missed, served>>
  <2>1. Reached' = Reached /\ EntitiesInv(program, Reached) /\ ServedInv(program, Reached)
    BY <1>2 DEF Reached, AppInv
  <2>2. EntitiesInv(program, Reached)' /\ ServedInv(program, Reached)'
    BY <1>2, <2>1 DEF EntitiesInv, ServedInv, App!Made
  <2> QED
    BY <1>2, <2>2 DEF AppInv
<1> QED
  BY <1>1, <1>2

\* What a callback uses is there whenever its executor runs.
LEMMA ServeKeeps == ASSUME ScriptsWellMade, AppInv, App!Serve PROVE AppInv'
<1>1. /\ program \in DOMAIN Programs /\ fate = "running" /\ App!Here.does \in {"spin", "loop"}
      /\ UNCHANGED <<program, at, live, missed, served, fate>>
  BY DEF App!Serve, App!Running
<1>2. PICK p, n : /\ p = program /\ n = at
                 /\ p \in DOMAIN Programs /\ n \in DOMAIN Programs[p]
  BY <1>1 DEF AppInv
<1> DEFINE s(j) == Programs[p][j]
<1>3. App!Here = s(n)
  BY <1>2 DEF App!Here
<1>4. EntitiesInv(p, n) /\ ServedInv(p, n)
  BY <1>1, <1>2 DEF AppInv, Reached
<1>5. App!StepWellMade(p, n, s(n))
  BY <1>2, StepNumbers
<1>6. PICK due \in {{}} \cup {e.uses \cup {e.handle} :
                                e \in {t \in served : t.executor \in s(n).onto}} :
         App!Use(s(n).needs \cup due)
  BY <1>3 DEF App!Serve
<1>7. due \subseteq App!Made(p, n)
  <2>1. CASE due = {}
    BY <2>1
  <2>2. CASE due # {}
    <3>1. PICK e \in served : e.executor \in s(n).onto /\ due = e.uses \cup {e.handle}
      BY <1>6, <2>2
    <3>2. PICK j \in 1..(n - 1) : /\ s(j).does = "add" /\ e.executor \in s(j).onto
                                  /\ e = InExecutor(s(j), e.executor)
      BY <1>4 DEF ServedInv
    <3>3. e.uses = s(j).uses /\ e.handle = s(j).what
      BY <3>2 DEF InExecutor
    <3>4. s(j).uses \cup {s(j).what} \subseteq App!Made(p, n)
      BY <1>1, <1>3, <1>5, <3>1, <3>2 DEF App!StepWellMade
    <3> QED
      BY <3>1, <3>3, <3>4
  <2> QED
    BY <2>1, <2>2
<1>8. s(n).needs \subseteq App!Made(p, n)
  BY <1>5 DEF App!StepWellMade
<1>9. misused' \subseteq missed /\ (misused' # {} => program \in CarelessPrograms)
  BY <1>1, <1>2, <1>4, <1>6, <1>7, <1>8 DEF App!Use, EntitiesInv, AppInv
<1> QED
  BY <1>1, <1>9, RunKept

\* A call that fails ends the run, or goes unnoticed.
LEMMA FailKeeps == ASSUME ScriptsWellMade, AppInv, App!Fail PROVE AppInv'
<1>1. /\ program \in DOMAIN Programs /\ fate = "running"
      /\ App!Here.does \in {"make", "call", "add", "fini"}
      /\ App!Use(App!Here.needs) /\ program' = program /\ served' = served
      /\ live' = live \/ (App!Here.does = "fini" /\ live' = live \ {App!Here.what})
  BY DEF App!Fail, App!Running
<1>2. CASE App!Here.check = "none" /\ missed' = missed \cup {App!Here.what} /\ App!GoOn
  <2>1. EntitiesChange(App!Here) /\ ServedChange(App!Here)
    BY <1>1, <1>2 DEF EntitiesChange, ServedChange
  <2> QED
    BY <1>1, <1>2, <2>1, StepTaken
<1>3. CASE fate' \in {"aborted", "stuck"} /\ UNCHANGED <<at, missed>>
  <2>1. PICK p, n : /\ p = program /\ n = at
                 /\ p \in DOMAIN Programs /\ n \in DOMAIN Programs[p]
    BY <1>1 DEF AppInv
  <2>2. App!Here = Programs[p][n] /\ EntitiesInv(p, n)
    BY <1>1, <2>1 DEF App!Here, AppInv, Reached
  <2>3. misused' \subseteq missed /\ (misused' # {} => program \in CarelessPrograms)
    BY <1>1, <2>1, <2>2, StepFinds DEF App!Use, AppInv
  <2> QED
    BY <1>1, <1>3, <2>3, RunKept
<1> QED
  BY <1>2, <1>3 DEF App!Fail

\* Every step of a scripted program keeps what is known of it.
LEMMA AppKeeps == ASSUME ScriptsWellMade, AppInv, App!Next PROVE AppInv'
<1>1. CASE App!Make
  <2>1. EntitiesChange(App!Here) /\ ServedChange(App!Here)
    BY <1>1 DEF App!Make, App!Running, EntitiesChange, ServedChange
  <2> QED
    BY <1>1, <2>1, StepTaken DEF App!Make, App!Running
<1>2. CASE App!Call \/ App!StopSpinning
  <2>1. EntitiesChange(App!Here) /\ ServedChange(App!Here)
    BY <1>2 DEF App!Call, App!StopSpinning, App!Running, EntitiesChange, ServedChange
  <2> QED
    BY <1>2, <2>1, StepTaken DEF App!Call, App!StopSpinning, App!Running
<1>3. CASE App!Add
  <2>1. served' = served \cup {InExecutor(App!Here, x) : x \in App!Here.onto}
    BY <1>3 DEF App!Add, InExecutor
  <2>2. EntitiesChange(App!Here) /\ ServedChange(App!Here)
    BY <1>3, <2>1 DEF App!Add, App!Running, EntitiesChange, ServedChange
  <2> QED
    BY <1>3, <2>2, StepTaken DEF App!Add, App!Running
<1>4. CASE App!Finalise
  <2>1. EntitiesChange(App!Here) /\ ServedChange(App!Here)
    BY <1>4 DEF App!Finalise, App!Running, EntitiesChange, ServedChange
  <2> QED
    BY <1>4, <2>1, StepTaken DEF App!Finalise, App!Running
<1>5. CASE App!Crash
  BY <1>5, RunKept DEF App!Crash, App!Running, AppInv
<1> QED
  BY <1>1, <1>2, <1>3, <1>4, <1>5, ServeKeeps, FailKeeps DEF App!Next

\* Of what a script names.
ThingsInv ==
  /\ live \subseteq App!Things /\ missed \subseteq App!Things
  /\ program \notin DOMAIN Programs => fate = "running" /\ misused = {}

ScriptInv == AppInv /\ ThingsInv

\* At the start nothing has been made.
LEMMA NothingMadeYet == \A p : App!Made(p, 1) = {}
BY DEF App!Made

\* What is known of a scripted program holds when it starts.
LEMMA ScriptInit == ScriptsWellMade /\ Init => ScriptInv
<1> SUFFICES ASSUME ScriptsWellMade, Init PROVE ScriptInv
  OBVIOUS
<1>1. /\ at = 1 /\ live = {} /\ missed = {} /\ misused = {} /\ served = {} /\ fate = "running"
  BY DEF Init
<1>2. program \in DOMAIN Programs => 1 \in DOMAIN Programs[program]
  BY DEF ScriptsWellMade, App!WellMade
<1>3. EntitiesInv(program, 1) /\ ServedInv(program, 1)
  BY <1>1, NothingMadeYet DEF EntitiesInv, ServedInv
<1> QED
  BY <1>1, <1>2, <1>3 DEF ScriptInv, AppInv, ThingsInv, Reached

\* What a step names is a thing of a script.
LEMMA HereIsThing ==
  ASSUME AppInv, program \in DOMAIN Programs
  PROVE  App!Here.what \in App!Things
<1>1. at \in DOMAIN Programs[program]
  BY DEF AppInv
<1>2. App!Here \in App!ToSet(Programs[program])
  BY <1>1 DEF App!Here, App!ToSet
<1> QED
  BY <1>2 DEF App!Things

\* Every step of a demo keeps it.
LEMMA ScriptKept == ScriptsWellMade /\ ScriptInv /\ [Next]_vars => ScriptInv'
<1> SUFFICES ASSUME ScriptsWellMade, ScriptInv, [Next]_vars PROVE ScriptInv'
  OBVIOUS
<1>1. CASE App!Next
  <2>1. AppInv'
    BY <1>1, AppKeeps DEF ScriptInv
  <2>2. program \in DOMAIN Programs /\ program' = program
    BY <1>1 DEF App!Next, App!Make, App!Call, App!Add, App!Serve, App!StopSpinning,
                App!Finalise, App!Fail, App!Crash, App!Running
  <2>3. live' \subseteq live \cup {App!Here.what} /\ missed' \subseteq missed \cup {App!Here.what}
    BY <1>1 DEF App!Next, App!Make, App!Call, App!Add, App!Serve, App!StopSpinning,
                App!Finalise, App!Fail, App!Crash
  <2>4. ThingsInv'
    BY <2>2, <2>3, HereIsThing DEF ScriptInv, ThingsInv
  <2> QED
    BY <2>1, <2>4 DEF ScriptInv
<1>2. CASE UNCHANGED ofApp
  <2>1. /\ UNCHANGED <<program, at, live, missed, misused, served, fate>>
        /\ Reached' = Reached /\ App!Here' = App!Here
    BY <1>2 DEF ofApp, Reached, App!Here
  <2>2. \A p, n : EntitiesInv(p, n)' = EntitiesInv(p, n) /\ ServedInv(p, n)' = ServedInv(p, n)
    BY <2>1 DEF EntitiesInv, ServedInv
  <2> QED
    BY <2>1, <2>2 DEF ScriptInv, AppInv, ThingsInv
<1> QED
  BY <1>1, <1>2 DEF Next, vars

\* At any time of a run of any demo.
LEMMA ScriptAlways == ASSUME ScriptsWellMade PROVE Spec => []ScriptInv
<1>1. Init => ScriptInv
  BY ScriptInit
<1>2. ScriptInv /\ [Next]_vars => ScriptInv'
  BY ScriptKept
<1> QED
  BY <1>1, <1>2, PTL DEF Spec

\* Whatever fails, a program uses nothing before it exists or after it is gone,
\* unless its absence went unnoticed, and that only the careless programs let
\* happen (UsesWhatExists).
THEOREM AlwaysUsesWhatExists == ASSUME ScriptsWellMade PROVE Spec => []UsesWhatExists
<1>1. ScriptInv => UsesWhatExists
  BY DEF ScriptInv, AppInv, ThingsInv, UsesWhatExists, App!UsesWhatExists
<1> QED
  BY <1>1, ScriptAlways, PTL

\* A script that comes to its end leaves nothing on a node, except what failed to
\* go unnoticed (NothingLeft).
THEOREM NeverLeavesAnything == ASSUME ScriptsWellMade PROVE Spec => []NothingLeft
<1>1. ScriptInv => NothingLeft
  <2> SUFFICES ASSUME ScriptInv, fate = "ended"
               PROVE  live \subseteq App!LeftToExit \cup missed
    BY DEF NothingLeft, App!NothingLeft
  <2>1. /\ program \in DOMAIN Programs /\ at = Len(Programs[program]) /\ App!Here.does # "loop"
        /\ EntitiesInv(program, Len(Programs[program]) + 1)
    BY DEF ScriptInv, AppInv, ThingsInv, Reached
  <2>2. App!Made(program, Len(Programs[program]) + 1) \subseteq App!LeftToExit
    BY <2>1 DEF ScriptsWellMade, App!WellMade, App!Here
  <2> QED
    BY <2>1, <2>2 DEF EntitiesInv
<1> QED
  BY <1>1, ScriptAlways, PTL

\* What an executor holds has been added to it by an earlier step, and what has been
\* added and not refused is in it.
LEMMA HandlesAdded ==
  ASSUME NEW p, NEW n, NEW x, ServedInv(p, n)
  PROVE  /\ App!HandlesIn(x) \subseteq App!Added(p, n, x)
         /\ App!Added(p, n, x) \subseteq missed \cup App!HandlesIn(x)
<1>1. ASSUME NEW h \in App!HandlesIn(x) PROVE h \in App!Added(p, n, x)
  <2>1. PICK e \in served : e.executor = x /\ e.handle = h
    BY <1>1 DEF App!HandlesIn
  <2>2. PICK j \in 1..(n - 1) : /\ Programs[p][j].does = "add" /\ x \in Programs[p][j].onto
                                /\ e = InExecutor(Programs[p][j], x)
    BY <2>1 DEF ServedInv
  <2>3. h = Programs[p][j].what
    BY <2>1, <2>2 DEF InExecutor
  <2> QED
    BY <2>2, <2>3 DEF App!Added
<1>2. ASSUME NEW h \in App!Added(p, n, x), h \notin missed PROVE h \in App!HandlesIn(x)
  <2>1. PICK j \in 1..(n - 1) : /\ Programs[p][j].does = "add" /\ x \in Programs[p][j].onto
                                /\ h = Programs[p][j].what
    BY <1>2 DEF App!Added
  <2>2. InExecutor(Programs[p][j], x) \in served
    BY <1>2, <2>1 DEF ServedInv
  <2>3. InExecutor(Programs[p][j], x).executor = x /\ InExecutor(Programs[p][j], x).handle = h
    BY <2>1 DEF InExecutor
  <2> QED
    BY <2>2, <2>3 DEF App!HandlesIn
<1> QED
  BY <1>1, <1>2

\* As many handles as are added before a step can be counted.
LEMMA AddedFinite ==
  ASSUME NEW p, NEW n \in Nat \ {0}, NEW x
  PROVE  IsFiniteSet(App!Added(p, n, x))
<1> DEFINE steps == {k \in 1..(n - 1) : Programs[p][k].does = "add" /\ x \in Programs[p][k].onto}
           f == [j \in steps |-> Programs[p][j].what]
<1>1. IsFiniteSet(1..(n - 1))
  BY FS_Interval
<1>2. IsFiniteSet(steps)
  BY <1>1, FS_Subset
<1>3. App!Added(p, n, x) = {Programs[p][j].what : j \in steps}
  BY DEF App!Added
<1>4. f \in Surjection(steps, App!Added(p, n, x))
  BY <1>3 DEF Surjection
<1> QED
  BY <1>2, <1>4, FS_Surjection

\* The instance counts as FiniteSets does.
LEMMA AppCounts == ASSUME NEW S PROVE App!Cardinality(S) = Cardinality(S)
BY DEF App!Cardinality, Cardinality

\* Executors have room for what is added to them, and hold all that has a callback
\* when the program spins (ExecutorsFit).
THEOREM ExecutorsAlwaysFit == ASSUME ScriptsWellMade PROVE Spec => []ExecutorsFit
<1>1. ScriptInv => ExecutorsFit
  <2> SUFFICES ASSUME ScriptInv, program \in DOMAIN Programs, fate = "running"
               PROVE  /\ App!Here.does = "add" =>
                           \A x \in App!Here.onto : App!Cardinality(App!HandlesIn(x)) < App!RoomOf(x)
                      /\ App!Here.does \in {"spin", "loop"} =>
                           live \cap App!Handles
                             \subseteq missed \cup UNION {App!HandlesIn(x) : x \in App!Here.onto}
    BY DEF ExecutorsFit, App!ExecutorsFit
  <2>1. /\ at \in DOMAIN Programs[program]
        /\ EntitiesInv(program, at) /\ ServedInv(program, at)
    BY DEF ScriptInv, AppInv, Reached
  <2>2. at \in Nat \ {0} /\ App!StepWellMade(program, at, App!Here)
    BY <2>1, StepNumbers DEF App!Here
  <2>3. ASSUME App!Here.does = "add", NEW x \in App!Here.onto
        PROVE  App!Cardinality(App!HandlesIn(x)) < App!RoomOf(x)
    <3> DEFINE added == App!Added(program, at, x)
               held == App!HandlesIn(x)
    <3>1. App!Cardinality(added) < App!RoomOf(x) /\ App!RoomOf(x) \in Nat
      BY <2>2, <2>3 DEF App!StepWellMade, App!RoomOf
    <3>2. held \subseteq added /\ IsFiniteSet(added)
      BY <2>1, <2>2, HandlesAdded, AddedFinite
    <3> HIDE DEF held, added
    <3>3. Cardinality(held) <= Cardinality(added)
          /\ Cardinality(held) \in Nat /\ Cardinality(added) \in Nat
      BY <3>2, FS_Subset, FS_CardinalityType
    <3>4. App!Cardinality(added) = Cardinality(added) /\ App!Cardinality(held) = Cardinality(held)
      BY AppCounts
    <3>5. Cardinality(held) < App!RoomOf(x)
      BY <3>1, <3>3, <3>4
    <3> QED
      BY <3>4, <3>5 DEF held
  <2>4. ASSUME App!Here.does \in {"spin", "loop"}, NEW h \in live \cap App!Handles, h \notin missed
        PROVE  h \in UNION {App!HandlesIn(x) : x \in App!Here.onto}
    <3>1. h \in App!Made(program, at)
      BY <2>1, <2>4 DEF EntitiesInv
    <3>2. PICK x \in App!Here.onto : h \in App!Added(program, at, x)
      BY <2>2, <2>4, <3>1 DEF App!StepWellMade
    <3>3. h \in App!HandlesIn(x)
      BY <2>1, <2>4, <3>2, HandlesAdded
    <3> QED
      BY <3>3
  <2> QED
    BY <2>3, <2>4
<1> QED
  BY <1>1, ScriptAlways, PTL

-----------------------------------------------------------------------------
(* The threads. *)

\* PUBLISHER_NUMBER of the program is positive.
LEMMA SomePublisher == PublisherNumber \in Nat \ {0}
BY DemosAssumption

Ended(i) == thread[i] \in {"none", "done"}

\* What main knows of its threads at each place, as long as it has not fled.
ThreadsInv ==
    /\ main = "setup" => \A i \in Multi!Threads : thread[i] = "none"
    /\ main = "publisher" => Ended(index)
    /\ main \in {"join", "publisher"} => \A i \in Multi!Threads : i < index => Ended(i)
    /\ main \in {"node", "returned", "exited"} => \A i \in Multi!Threads : Ended(i)

\* What it has not yet taken down.
PublishersInv ==
    /\ main \in {"start", "timeout", "spin", "subscription", "join", "publisher", "node"} =>
          {"node", "support"} \subseteq exists
    /\ main \in {"start", "timeout", "spin", "subscription"} => publisher = Multi!Threads
    /\ main \in {"timeout", "spin", "subscription"} => index = 0
    /\ main \in {"join", "publisher"} => \A i \in Multi!Threads : i >= index => i \in publisher

MultiInv ==
    /\ Multi!ThreadTypeOK
    /\ early => main \in {"returned", "exited"}
    /\ ~early => ThreadsInv /\ PublishersInv

\* Threads are numbered from 0.
LEMMA ThreadNumbers ==
    /\ 0 \in Multi!Threads /\ Multi!Threads \subseteq Nat
    /\ \A i \in Multi!Threads : i + 1 < PublisherNumber => i + 1 \in Multi!Threads
    /\ \A i \in Multi!Threads : ~(i + 1 < PublisherNumber) => \A j \in Multi!Threads : j <= i
BY SomePublisher DEF Multi!Threads

\* The invariant holds when the process starts.
LEMMA InitInv == ASSUME Multi!Init PROVE MultiInv
<1>1. Multi!ThreadTypeOK
  BY ThreadNumbers DEF Multi!Init, Multi!ThreadTypeOK
<1>2. ~early /\ ThreadsInv /\ PublishersInv
  BY ThreadNumbers DEF Multi!Init, ThreadsInv, PublishersInv
<1> QED
  BY <1>1, <1>2 DEF MultiInv

\* While main is still making entities nobody publishes.
LEMMA SetupKeeps == ASSUME MultiInv, Multi!Setup PROVE MultiInv'
BY SomePublisher DEF Multi!Setup, MultiInv, Multi!ThreadTypeOK, ThreadsInv, PublishersInv, Ended, Multi!Threads

\* A signal leaves no thread behind.
LEMMA KilledKeeps ==
    ASSUME MultiInv, Multi!Killed, UNCHANGED <<index, exit_flag, exists, publisher, early>>
    PROVE  MultiInv'
<1>1. Multi!ThreadTypeOK'
  BY DEF MultiInv, Multi!ThreadTypeOK, Multi!Killed
<1>2. ThreadsInv'
  BY <1>1 DEF ThreadsInv, Ended, Multi!Killed
<1> QED
  BY <1>1, <1>2 DEF MultiInv, PublishersInv, Multi!Killed

\* A new thread finds all the publishers, the node and support.
LEMMA StartThreadKeeps == ASSUME MultiInv, Multi!StartThread PROVE MultiInv'
<1>1. CASE Multi!Killed /\ UNCHANGED index
  BY <1>1, KilledKeeps DEF Multi!StartThread
<1>2. CASE ~(Multi!Killed /\ UNCHANGED index)
  <2>1. main = "start" /\ main' \in {"start", "timeout"} /\ (main' = "timeout" => index' = 0)
        /\ index' \in Multi!Threads /\ UNCHANGED <<exit_flag, exists, publisher, early>>
    BY <1>2, ThreadNumbers DEF Multi!StartThread, MultiInv, Multi!ThreadTypeOK
  <2>2. thread' \in [Multi!Threads -> {"none", "memory", "test", "publish", "sleep", "done"}]
    BY <1>2 DEF Multi!StartThread, MultiInv, Multi!ThreadTypeOK
  <2>3. Multi!ThreadTypeOK'
    BY <2>1, <2>2 DEF MultiInv, Multi!ThreadTypeOK
  <2> QED
    BY <2>1, <2>3 DEF MultiInv, ThreadsInv, PublishersInv
<1> QED
  BY <1>1, <1>2 DEF Multi!StartThread

\* Fleeing is early unless all threads have ended; nothing is promised after it.
LEMMA FledKeeps == ASSUME MultiInv, Multi!Return PROVE MultiInv'
<1> DEFINE Some == \E i \in Multi!Threads : thread[i] \notin {"none", "done"}
<1>1. main' = "returned" /\ early' = Some /\ UNCHANGED <<index, thread, exit_flag, publisher>>
      /\ exists' \subseteq exists
  BY DEF Multi!Return
<1>2. Multi!ThreadTypeOK'
  BY <1>1 DEF MultiInv, Multi!ThreadTypeOK
<1>3. ~Some => \A i \in Multi!Threads : Ended(i)
  BY DEF Ended
<1>4. ~early' => ThreadsInv' /\ PublishersInv'
  BY <1>1, <1>3 DEF ThreadsInv, PublishersInv, Ended
<1> QED
  BY <1>1, <1>2, <1>4 DEF MultiInv

\* Between the start of the threads and the joins main takes down only what no
\* thread uses, or flees.
LEMMA SpinKeeps ==
    ASSUME MultiInv, Multi!SetTimeout \/ Multi!SpinEnds \/ Multi!SubscriptionFini
    PROVE  MultiInv'
<1>1. CASE Multi!SetTimeout
  <2>1. CASE ~Multi!Return
    <3>1. main = "timeout" /\ main' = "spin"
          /\ UNCHANGED <<index, thread, exit_flag, exists, publisher, early>>
      BY <1>1, <2>1 DEF Multi!SetTimeout
    <3>2. Multi!ThreadTypeOK'
      BY <3>1 DEF MultiInv, Multi!ThreadTypeOK
    <3>3. ~early' => ThreadsInv' /\ PublishersInv'
      BY <3>1 DEF MultiInv, ThreadsInv, PublishersInv
    <3> QED
      BY <3>1, <3>2, <3>3 DEF MultiInv
  <2> QED
    BY <2>1, FledKeeps
<1>2. CASE Multi!SpinEnds
  BY <1>2 DEF Multi!SpinEnds, MultiInv, Multi!ThreadTypeOK, ThreadsInv, PublishersInv, Ended
<1>3. CASE Multi!SubscriptionFini
  <2>1. CASE ~Multi!Return
    <3>1. main = "subscription" /\ main' = "join" /\ exists' = exists \ {"subscriber"}
          /\ UNCHANGED <<index, thread, exit_flag, publisher, early>>
      BY <1>3, <2>1 DEF Multi!SubscriptionFini
    <3>2. Multi!ThreadTypeOK'
      BY <3>1 DEF MultiInv, Multi!ThreadTypeOK
    <3>3. ~early' => ThreadsInv' /\ PublishersInv'
      BY <3>1, ThreadNumbers DEF MultiInv, ThreadsInv, PublishersInv
    <3> QED
      BY <3>1, <3>2, <3>3 DEF MultiInv
  <2> QED
    BY <2>1, FledKeeps
<1> QED
  BY <1>1, <1>2, <1>3

\* A join leaves main with a thread that has ended.
LEMMA JoinKeeps == ASSUME MultiInv, Multi!Join PROVE MultiInv'
<1>1. CASE Multi!Killed
  BY <1>1, KilledKeeps DEF Multi!Join
<1>2. CASE ~Multi!Killed
  <2>1. main = "join" /\ main' = "publisher" /\ Ended(index)
        /\ UNCHANGED <<index, thread, exit_flag, exists, publisher, early>>
    BY <1>2 DEF Multi!Join, Ended
  <2> QED
    BY <2>1 DEF MultiInv, Multi!ThreadTypeOK, ThreadsInv, PublishersInv, Ended
<1> QED
  BY <1>1, <1>2

\* The publisher taken down is that of the thread joined before.
LEMMA PublisherFiniKeeps == ASSUME MultiInv, Multi!PublisherFini PROVE MultiInv'
<1>1. main = "publisher" /\ ~early /\ ThreadsInv /\ PublishersInv /\ Multi!ThreadTypeOK /\ Ended(index)
  BY DEF Multi!PublisherFini, MultiInv, ThreadsInv
<1>2. CASE Multi!Return
  BY <1>2, FledKeeps
<1>3. CASE ~Multi!Return
  <2>1. publisher' = publisher \ {index} /\ UNCHANGED <<thread, exit_flag, exists, early>>
    BY <1>3 DEF Multi!PublisherFini
  <2>2. \/ index + 1 < PublisherNumber /\ index' = index + 1 /\ main' = "join"
        \/ ~(index + 1 < PublisherNumber) /\ index' = 0 /\ main' = "node"
    BY <1>3 DEF Multi!PublisherFini
  <2>3. Multi!ThreadTypeOK'
    BY <1>1, <2>1, <2>2, ThreadNumbers DEF Multi!ThreadTypeOK
  <2>4. CASE main' = "join"
    <3>1. \A i \in Multi!Threads : i < index' => i < index \/ i = index
      BY <1>1, <2>2, <2>4, ThreadNumbers DEF Multi!ThreadTypeOK
    <3>2. ThreadsInv'
      BY <1>1, <2>1, <2>4, <3>1 DEF ThreadsInv, Ended
    <3>3. PublishersInv'
      BY <1>1, <2>1, <2>2, <2>4, ThreadNumbers DEF PublishersInv, Multi!ThreadTypeOK
    <3> QED
      BY <1>1, <2>1, <2>3, <3>2, <3>3 DEF MultiInv
  <2>5. CASE main' = "node"
    <3>1. \A i \in Multi!Threads : i < index \/ i = index
      BY <1>1, <2>2, <2>5, ThreadNumbers DEF Multi!ThreadTypeOK
    <3>2. ThreadsInv'
      BY <1>1, <2>1, <2>5, <3>1 DEF ThreadsInv, Ended
    <3>3. PublishersInv'
      BY <1>1, <2>1, <2>5 DEF PublishersInv
    <3> QED
      BY <1>1, <2>1, <2>3, <3>2, <3>3 DEF MultiInv
  <2> QED
    BY <2>2, <2>4, <2>5
<1> QED
  BY <1>2, <1>3

\* The node goes, and the process exits, after all the threads.
LEMMA EndKeeps == ASSUME MultiInv, Multi!NodeFini \/ Multi!ProcessExit PROVE MultiInv'
<1>1. CASE Multi!NodeFini
  BY <1>1 DEF Multi!NodeFini, MultiInv, Multi!ThreadTypeOK, ThreadsInv, PublishersInv, Ended
<1>2. CASE Multi!ProcessExit
  BY <1>2, KilledKeeps DEF Multi!ProcessExit
<1> QED
  BY <1>1, <1>2

\* A thread that has ended takes no step, so none disturbs what main knows.
LEMMA ThreadKeeps ==
    ASSUME MultiInv, NEW i \in Multi!Threads, Multi!ThreadStep(i)
    PROVE  MultiInv'
<1>1. PICK to \in {"none", "memory", "test", "publish", "sleep", "done"} :
         /\ thread' = [thread EXCEPT ![i] = to]
         /\ thread[i] \notin {"none", "done"}
         /\ UNCHANGED <<main, index, exit_flag, exists, publisher, early>>
  BY DEF Multi!ThreadStep, Multi!CreateMessage, Multi!TestFlag, Multi!Publish, Multi!Wake, Multi!Goes
<1>2. Multi!ThreadTypeOK'
  BY <1>1 DEF MultiInv, Multi!ThreadTypeOK
<1>3. \A j \in Multi!Threads : Ended(j) => Ended(j)' /\ thread'[j] = thread[j]
  BY <1>1 DEF Ended, MultiInv, Multi!ThreadTypeOK
<1>4. ~early => main # "setup"
  BY <1>1 DEF MultiInv, ThreadsInv
<1>5. ~early => ThreadsInv' /\ PublishersInv'
  BY <1>1, <1>3, <1>4 DEF MultiInv, Multi!ThreadTypeOK, ThreadsInv, PublishersInv, Ended
<1> QED
  BY <1>1, <1>2, <1>5 DEF MultiInv

\* Every step of the program, or of its surroundings, preserves the invariant.
LEMMA NextInv == ASSUME MultiInv, [Multi!Next]_Multi!threadVars PROVE MultiInv'
<1>1. CASE Multi!MainStep
  BY <1>1, SetupKeeps, StartThreadKeeps, SpinKeeps, JoinKeeps, PublisherFiniKeeps, EndKeeps
     DEF Multi!MainStep
<1>2. CASE Multi!SpinEnds
  BY <1>2, SpinKeeps
<1>3. CASE \E i \in Multi!Threads : Multi!ThreadStep(i)
  BY <1>3, ThreadKeeps
<1>4. CASE UNCHANGED Multi!threadVars
  BY <1>4 DEF Multi!threadVars, MultiInv, Multi!ThreadTypeOK, ThreadsInv, PublishersInv, Ended
<1> QED
  BY <1>1, <1>2, <1>3, <1>4 DEF Multi!Next

\* That of the process that starts.
LEMMA ThreadsStart == Init => MultiInv
BY InitInv DEF Init

\* Main, its threads and signals keep it.
LEMMA ThreadsKeep == MultiInv /\ (Multi!Next \/ UNCHANGED ofMulti) => MultiInv'
<1>1. Multi!Next \/ UNCHANGED ofMulti => [Multi!Next]_Multi!threadVars
  BY DEF ofMulti, Multi!threadVars
<1> QED
  BY <1>1, NextInv

\* A thread that publishes has not ended, so main is not past it.
LEMMA PublishingSafe == MultiInv => Multi!PublishesOnWhatExists
BY SomePublisher DEF MultiInv, Multi!ThreadTypeOK, ThreadsInv, PublishersInv, Ended,
   Multi!PublishesOnWhatExists, Multi!Threads

\* A thread publishes only with its publisher, the node and support in existence, until
\* main flees (PublishesOnWhatExists).
THEOREM AlwaysPublishesOnWhatExists == Spec => []PublishesOnWhatExists
<1>1. Init => MultiInv
  BY ThreadsStart
<1>2. MultiInv /\ [Next]_vars => MultiInv'
  BY ThreadsKeep DEF Next, vars
<1>3. MultiInv => PublishesOnWhatExists
  BY PublishingSafe DEF PublishesOnWhatExists
<1> QED
  BY <1>1, <1>2, <1>3, PTL DEF Spec

-----------------------------------------------------------------------------
(* The parameters. *)

\* The same powers of two for all, each twice the one below.
LEMMA Words ==
  /\ Parameter!Shifted = Shifted
  /\ Shifted[Width - 1] \in Nat \ {0} /\ Shifted[Width] = 2 * Shifted[Width - 1]
<1>1. Width - 1 \in Nat /\ (Width - 1) + 1 = Width
  BY DemosAssumption
<1>2. Parameter!Shifted = Shifted
  BY DEF Parameter!Shifted, Shifted
<1> QED
  BY <1>1, <1>2, ShiftedIs

\* Two's complement: what it gives fits, and what fits is left alone.
LEMMA SignedRange ==
  ASSUME NEW n \in Int
  PROVE  /\ Parameter!Signed(n) \in Int /\ Parameter!Signed(n) < Shifted[Width - 1]
         /\ n \in 0..(Shifted[Width - 1] - 1) => Parameter!Signed(n) = n
<1> DEFINE m == Shifted[Width - 1]
<1>1. m \in Nat \ {0} /\ Shifted[Width] = 2 * m
  BY Words
<1> HIDE DEF m
<1>2. n % (2 * m) \in 0..(2 * m - 1)
  BY <1>1
<1>3. n \in 0..(m - 1) => n % (2 * m) = n
  BY <1>1
<1> QED
  BY <1>1, <1>2, <1>3, Words DEF Parameter!Signed, m

\* The rates whose nanoseconds fit.
Fitting == 0..((Shifted[Width - 1] - 1) \div NsPerMs)

\* Of a rate that fits, RCL_MS_TO_NS gives the nanoseconds.
LEMMA FittingRates ==
  ASSUME NEW ms \in Fitting
  PROVE  Parameter!MsToNs(ms) = ms * NsPerMs /\ ms * NsPerMs \in 0..(Shifted[Width - 1] - 1)
<1> DEFINE m == Shifted[Width - 1]
           q == (m - 1) \div NsPerMs
<1>1. m \in Nat \ {0} /\ NsPerMs \in Nat \ {0}
  BY Words, DemosAssumption
<1> HIDE DEF m
<1>2. q \in Nat /\ q * NsPerMs <= m - 1
  BY <1>1
<1> HIDE DEF q
<1>3. ms \in 0..q
  BY DEF Fitting, q, m
<1>4. ms * NsPerMs \in Nat /\ ms * NsPerMs <= q * NsPerMs
  BY <1>1, <1>2, <1>3
<1>5. ms * NsPerMs \in 0..(m - 1)
  BY <1>1, <1>2, <1>4
<1> QED
  BY <1>5, SignedRange DEF Parameter!MsToNs, m

\* What the program does agrees with what has been stored in its parameters.
ParamInv ==
  /\ Parameter!ParameterTypeOK
  /\ "publish_toogle" \in stored => publish = toggle
  /\ "publish_rate_ms" \in stored /\ rate \in Fitting => period = rate * NsPerMs

\* Exchanging the period leaves it in range; of a rate that fits it becomes that rate.
LEMMA PeriodKept ==
  ASSUME NEW ms \in Int, period \in 0..(Shifted[Width - 1] - 1), Parameter!Exchange(Parameter!MsToNs(ms))
  PROVE  /\ period' \in 0..(Shifted[Width - 1] - 1)
         /\ ms \in Fitting => period' = ms * NsPerMs
<1>1. NsPerMs \in Nat /\ Shifted[Width - 1] \in Nat
  BY Words, DemosAssumption
<1> DEFINE m == Shifted[Width - 1]
           ns == Parameter!MsToNs(ms)
<1>2. m \in Nat /\ ns \in Int /\ ns < m
  BY <1>1, SignedRange DEF Parameter!MsToNs
<1>3. ms \in Fitting => ns = ms * NsPerMs /\ ns \in 0..(m - 1)
  BY FittingRates
<1>4. period' = (IF ns < 0 THEN period ELSE ns) /\ period \in 0..(m - 1)
  BY DEF Parameter!Exchange
<1> HIDE DEF m, ns
<1>5. period' \in 0..(m - 1)
  BY <1>2, <1>4
<1>6. ms \in Fitting => period' = ms * NsPerMs
  BY <1>3, <1>4
<1> QED
  BY <1>5, <1>6 DEF m

\* The timer starts with the period of the initial rate.
LEMMA ParamStarts == Init => ParamInv
<1> SUFFICES ASSUME Init PROVE ParamInv
  OBVIOUS
<1>1. InitialRate \in Fitting
  BY DemosAssumption DEF Fitting
<1>2. Parameter!MsToNs(InitialRate) \in 0..(Shifted[Width - 1] - 1)
  BY <1>1, FittingRates
<1>3. /\ phase = 1 /\ declared = {} /\ stored = {} /\ toggle = FALSE /\ rate = 0 /\ publish = TRUE
      /\ period = Parameter!MsToNs(InitialRate) /\ sent = 0
  BY DEF Init, Parameter!Init
<1>4. /\ phase \in 1..5 /\ sent \in {0, 1} /\ rate \in AskedRates \cup {0, InitialRate}
      /\ declared \subseteq {"publish_toogle", "publish_rate_ms"} /\ stored \subseteq declared
  BY <1>3
<1>5. toggle \in BOOLEAN /\ publish \in BOOLEAN
  BY <1>3, Zenon
<1>6. period \in 0..(Shifted[Width - 1] - 1)
  BY <1>2, <1>3
<1>7. Parameter!ParameterTypeOK
  BY <1>4, <1>5, <1>6, Words DEF Parameter!ParameterTypeOK
<1> QED
  BY <1>3, <1>7 DEF ParamInv

\* A rate that is stored is the period of the timer too, if it fits.
LEMMA RateSet ==
  ASSUME ParamInv, NEW ms \in AskedRates \cup {InitialRate}, Parameter!SetRate(ms),
         UNCHANGED <<declared, sent>>, phase' = 5
  PROVE  ParamInv'
<1>1. ms \in Int /\ InitialRate \in Int
  BY DemosAssumption DEF AskedRates
<1>2. /\ period' \in 0..(Shifted[Width - 1] - 1)
      /\ ms \in Fitting => period' = ms * NsPerMs
      /\ rate' = ms /\ UNCHANGED <<toggle, publish>>
      /\ "publish_rate_ms" \in declared /\ stored' = stored \cup {"publish_rate_ms"}
  BY <1>1, PeriodKept, Words DEF ParamInv, Parameter!ParameterTypeOK, Parameter!SetRate, Parameter!RateChanged
<1>3. Parameter!ParameterTypeOK'
  BY <1>2, Words DEF ParamInv, Parameter!ParameterTypeOK
<1>4. "publish_toogle" \in stored' => publish' = toggle'
  BY <1>2 DEF ParamInv
<1>5. rate' \in Fitting => period' = rate' * NsPerMs
  BY <1>2
<1> QED
  BY <1>3, <1>4, <1>5 DEF ParamInv, Fitting

\* The four calls of main, each of which may fail unnoticed.
LEMMA ParamSetUp == ParamInv /\ Parameter!SetUp => ParamInv'
<1> SUFFICES ASSUME ParamInv, Parameter!SetUp PROVE ParamInv'
  OBVIOUS
<1>1. phase \in 1..4 /\ phase' = phase + 1 /\ UNCHANGED sent
  BY DEF Parameter!SetUp, ParamInv, Parameter!ParameterTypeOK
<1>2. \/ phase = 1 /\ Parameter!AddParameter("publish_toogle")
      \/ phase = 2 /\ Parameter!AddParameter("publish_rate_ms")
      \/ phase = 3 /\ Parameter!SetToggle(TRUE) /\ UNCHANGED declared
      \/ phase = 4 /\ Parameter!SetRate(InitialRate) /\ UNCHANGED declared
      \/ Parameter!Refused /\ UNCHANGED declared
  BY Zenon DEF Parameter!SetUp
<1>3. ASSUME NEW name \in {"publish_toogle", "publish_rate_ms"}, Parameter!AddParameter(name)
      PROVE  ParamInv'
  <2>1. /\ UNCHANGED <<stored, toggle, rate, publish, period, sent>> /\ phase' \in 1..5
        /\ declared \subseteq declared' /\ declared' \subseteq {"publish_toogle", "publish_rate_ms"}
    BY <1>1, <1>3 DEF Parameter!AddParameter, ParamInv, Parameter!ParameterTypeOK
  <2> QED
    BY <2>1 DEF ParamInv, Parameter!ParameterTypeOK
<1>5. CASE phase = 3 /\ Parameter!SetToggle(TRUE) /\ UNCHANGED declared
  <2>1. /\ publish' = TRUE /\ toggle' = TRUE
        /\ "publish_toogle" \in declared /\ stored' = stored \cup {"publish_toogle"}
        /\ UNCHANGED <<declared, rate, period, sent>> /\ phase' = 4
    BY <1>1, <1>5 DEF Parameter!SetToggle, Parameter!ToggleChanged
  <2> QED
    BY <2>1 DEF ParamInv, Parameter!ParameterTypeOK
<1>6. CASE phase = 4 /\ Parameter!SetRate(InitialRate) /\ UNCHANGED declared
  BY <1>1, <1>6, RateSet
<1>7. CASE Parameter!Refused /\ UNCHANGED declared
  BY <1>1, <1>7 DEF Parameter!Refused, ParamInv, Parameter!ParameterTypeOK
<1> QED
  BY <1>2, <1>3, <1>5, <1>6, <1>7

\* Requests change a parameter and what depends on it together, or neither.
LEMMA ParamKeeps == ParamInv /\ (Parameter!Next \/ UNCHANGED ofParameter) => ParamInv'
<1> SUFFICES ASSUME ParamInv, Parameter!Next \/ UNCHANGED ofParameter PROVE ParamInv'
  OBVIOUS
<1>1. CASE Parameter!SetUp
  BY <1>1, ParamSetUp
<1>2. ASSUME NEW on \in BOOLEAN, Parameter!SetToggle(on), phase = 5,
             UNCHANGED <<phase, declared, sent>>
      PROVE  ParamInv'
  BY <1>2 DEF Parameter!SetToggle, Parameter!ToggleChanged, ParamInv, Parameter!ParameterTypeOK
<1>3. ASSUME NEW ms \in AskedRates, Parameter!SetRate(ms), phase = 5,
             UNCHANGED <<phase, declared, sent>>
      PROVE  ParamInv'
  BY <1>3, RateSet
<1>4. CASE UNCHANGED <<phase, declared, stored, toggle, rate, publish, period>> /\ sent' \in {0, 1}
  BY <1>4 DEF ParamInv, Parameter!ParameterTypeOK
<1>5. Parameter!TimerFires \/ UNCHANGED ofParameter =>
        UNCHANGED <<phase, declared, stored, toggle, rate, publish, period>> /\ sent' \in {0, 1}
  BY DEF Parameter!TimerFires, ofParameter, ParamInv, Parameter!ParameterTypeOK
<1>6. CASE Parameter!Request
  BY <1>2, <1>3, <1>4, <1>6 DEF Parameter!Request, Parameter!Refused, ParamInv, Parameter!ParameterTypeOK
<1> QED
  BY <1>1, <1>4, <1>5, <1>6 DEF Parameter!Next

\* The flag and the period are what the parameters say that have been given a value, of
\* every rate that fits (ParametersObeyed).
THEOREM ParametersAlwaysObeyed == Spec => []ParametersObeyed
<1>1. Init => ParamInv
  BY ParamStarts
<1>2. ParamInv /\ [Next]_vars => ParamInv'
  BY ParamKeeps DEF Next, vars
<1>3. ParamInv => ParametersObeyed
  BY Words DEF ParamInv, ParametersObeyed, Parameter!ParametersObeyed, Fitting
<1> QED
  BY <1>1, <1>2, <1>3, PTL DEF Spec

-----------------------------------------------------------------------------
(* The picture of the graph. *)

\* Between two rounds, and of what a round has shown already, everything agrees with
\* the graph unless it has changed since the round began.
GraphInv ==
  /\ Graph!GraphTypeOK
  /\ ~triggered =>
       /\ drawing \in {"setup", "wait", "services", "nodes", "publishers"} => shown["topics"] = graph
       /\ drawing \in {"setup", "wait", "nodes", "publishers"} => shown["services"] = graph
       /\ drawing \in {"setup", "wait", "publishers"} => shown["nodes"] = graph

\* The picture of no node is that of the empty graph; another is yet to be drawn.
LEMMA GraphStarts == Init => GraphInv
BY DemosAssumption DEF Init, Graph!Init, GraphInv, Graph!GraphTypeOK

\* A change sets the guard condition, and so promises another round.
LEMMA GraphKeeps == GraphInv /\ (Graph!Next \/ UNCHANGED ofGraph) => GraphInv'
<1> SUFFICES ASSUME GraphInv, Graph!Next \/ UNCHANGED ofGraph PROVE GraphInv'
  OBVIOUS
<1> USE DEF GraphInv, Graph!GraphTypeOK
<1>1. CASE Graph!GraphChanges
  BY <1>1, DemosAssumption DEF Graph!GraphChanges
<1>2. CASE Graph!SetUp \/ Graph!Wait \/ Graph!WaitFails \/ Graph!NextRound \/ Graph!QueryFails
  BY <1>2 DEF Graph!SetUp, Graph!Wait, Graph!WaitFails, Graph!NextRound, Graph!QueryFails, Graph!GiveUp
<1>3. CASE Graph!ShowTopics \/ Graph!ShowServices \/ Graph!ListNodes
  BY <1>3 DEF Graph!ShowTopics, Graph!ShowServices, Graph!ListNodes, Graph!Shows
<1>4. CASE Graph!ShowNode
  BY <1>4 DEF Graph!ShowNode, Graph!GiveUp
<1>5. CASE UNCHANGED ofGraph
  BY <1>5 DEF ofGraph
<1> QED
  BY <1>1, <1>2, <1>3, <1>4, <1>5 DEF Graph!Next, Graph!Draw

\* A picture with three parts that agree is up to date.
LEMMA GraphUpToDate ==
  ASSUME Graph!GraphTypeOK,
         shown["topics"] = graph, shown["services"] = graph, shown["nodes"] = graph
  PROVE  Graph!UpToDate
BY DEF Graph!GraphTypeOK, Graph!UpToDate

\* Whatever changes while a round is drawn is in the picture, or another round comes
\* (NothingMissed).
THEOREM NothingEverMissed == Spec => []NothingMissed
<1>1. Init => GraphInv
  BY GraphStarts
<1>2. GraphInv /\ [Next]_vars => GraphInv'
  BY GraphKeeps DEF Next, vars
<1>3. GraphInv => NothingMissed
  BY GraphUpToDate DEF GraphInv, NothingMissed, Graph!NothingMissed
<1> QED
  BY <1>1, <1>2, <1>3, PTL DEF Spec

-----------------------------------------------------------------------------
(* The agent. *)

\* The types, what the program believes of the agent, and that an attempt is left.
PingInv ==
  /\ Ping!PingTypeOK
  /\ SaysUpOnlyIfHeard
  /\ ping = "basic" => attempts > 0

\* Nobody has answered at first.
LEMMA PingStarts == Init => PingInv
<1> SUFFICES ASSUME Init PROVE PingInv
  OBVIOUS
<1>1. BasicAttempts \in Nat \ {0} /\ MaxStarts \in Nat \ {0}
  BY DemosAssumption
<1>2. /\ ping \in {"usage", "basic", "interactive"} /\ attempts = BasicAttempts
      /\ heard = FALSE /\ code = "none"
      /\ agent \in {0, 1} /\ starts = agent /\ session = 0
  BY DEF Init, Ping!Init
<1>3. agent \in 0..starts /\ starts \in 0..MaxStarts /\ session \in 0..starts
  BY <1>1, <1>2
<1>4. attempts \in 0..BasicAttempts /\ attempts > 0
  BY <1>1, <1>2
<1>5. Ping!PingTypeOK
  BY <1>2, <1>3, <1>4 DEF Ping!PingTypeOK
<1>6. SaysUpOnlyIfHeard
  BY <1>2 DEF SaysUpOnlyIfHeard, Ping!SaysUpOnlyIfHeard
<1> QED
  BY <1>4, <1>5, <1>6 DEF PingInv

\* Every step of the program or of the agent keeps it.
LEMMA PingKeeps == PingInv /\ (Ping!Next \/ UNCHANGED ofPing) => PingInv'
<1> SUFFICES ASSUME PingInv, Ping!Next \/ UNCHANGED ofPing PROVE PingInv'
  OBVIOUS
<1> USE DEF PingInv, Ping!PingTypeOK, SaysUpOnlyIfHeard, Ping!SaysUpOnlyIfHeard
<1>1. CASE Ping!AgentStops \/ Ping!AgentStarts
  BY <1>1, DemosAssumption DEF Ping!AgentStops, Ping!AgentStarts
<1>2. CASE Ping!Usage
  BY <1>2 DEF Ping!Usage, Ping!Exit
<1>3. CASE Ping!GetsAnswer
  BY <1>3 DEF Ping!GetsAnswer, Ping!Answered
<1>4. CASE Ping!TimerFires
  BY <1>4 DEF Ping!TimerFires, Ping!Exit, Ping!Answered, Ping!Silence
<1>5. CASE Ping!SpinEnds
  <2>1. 0 \in 0..starts
    OBVIOUS
  <2> QED
    BY <1>5, <2>1 DEF Ping!SpinEnds, Ping!Exit
<1>6. CASE Ping!BasicPing
  <2>1. attempts \in 0..BasicAttempts /\ attempts > 0 /\ BasicAttempts \in Nat
    BY <1>6, DemosAssumption DEF Ping!BasicPing
  <2>2. attempts - 1 \in 0..BasicAttempts /\ (attempts > 1 => attempts - 1 > 0)
    BY <2>1
  <2>3. /\ attempts' \in 0..BasicAttempts /\ UNCHANGED <<agent, starts, session>>
        /\ \/ ping' = "exited" /\ code' = "0" /\ heard' = TRUE
           \/ ping' = "exited" /\ code' = "1" /\ heard' = heard
           \/ ping' = ping /\ code' = code /\ heard' = heard /\ attempts' > 0
    BY <1>6, <2>1, <2>2 DEF Ping!BasicPing, Ping!Exit, Ping!Answered, Ping!Silence
  <2>4. ping = "basic" /\ Ping!PingTypeOK'
    BY <1>6, <2>3 DEF Ping!BasicPing
  <2>5. SaysUpOnlyIfHeard' /\ (ping' = "basic" => attempts' > 0)
    BY <2>3, <2>4
  <2> QED
    BY <2>4, <2>5
<1>7. CASE Ping!SetUps
  BY <1>7 DEF Ping!SetUps, Ping!SetUp, Ping!Exit
<1>8. CASE UNCHANGED ofPing
  BY <1>8 DEF ofPing
<1> QED
  BY <1>1, <1>2, <1>3, <1>4, <1>5, <1>6, <1>7, <1>8 DEF Ping!Next

\* The program says that the agent is up only when one has answered
\* (SaysUpOnlyIfHeard).
THEOREM OnlyHeardIsUp == Spec => []SaysUpOnlyIfHeard
<1>1. Init => PingInv
  BY PingStarts
<1>2. PingInv /\ [Next]_vars => PingInv'
  BY PingKeeps DEF Next, vars
<1>3. PingInv => SaysUpOnlyIfHeard
  BY DEF PingInv
<1> QED
  BY <1>1, <1>2, <1>3, PTL DEF Spec

-----------------------------------------------------------------------------
(* The custom transport. *)

\* Bytes come over a connected socket only, and are used up at once.
TransportInv ==
  /\ Transport!TransportTypeOK
  /\ library \notin {"decide", "session"} => received = "nothing"
  /\ received # "nothing" => fd = "connected" /\ answer
  /\ library = "session" => received # "nothing"
  /\ library \in {"open", "write", "read", "decide"} => left > 0

\* No session is asked for at first.
LEMMA TransportStarts == Init => TransportInv
<1>1. Attempts \in Nat \ {0}
  BY DemosAssumption
<1>2. Attempts \in 0..Attempts /\ Attempts > 0
  BY <1>1
<1> QED
  BY <1>2 DEF Init, Transport!Init, TransportInv, Transport!TransportTypeOK

\* Every call of the library keeps it.
LEMMA TransportKeeps == TransportInv /\ (Transport!Next \/ UNCHANGED ofTransport) => TransportInv'
<1> SUFFICES ASSUME TransportInv, Transport!Next \/ UNCHANGED ofTransport PROVE TransportInv'
  OBVIOUS
<1> USE DEF TransportInv, Transport!TransportTypeOK
<1>1. CASE Transport!Open
  BY <1>1 DEF Transport!Open, Transport!Reported
<1>2. CASE Transport!Write
  BY <1>2 DEF Transport!Write
<1>3. CASE Transport!Read
  BY <1>3 DEF Transport!Read, Transport!Recv, Transport!TimedOut
<1>4. CASE Transport!Decide
  BY <1>4, DemosAssumption DEF Transport!Decide
<1>5. CASE Transport!Close
  BY <1>5 DEF Transport!Close
<1>6. CASE UNCHANGED ofTransport
  BY <1>6 DEF ofTransport
<1> QED
  BY <1>1, <1>2, <1>3, <1>4, <1>5, <1>6 DEF Transport!Next

\* A session is made over a connected socket, to an agent that answered
\* (SessionNeedsConnection).
THEOREM SessionsAlwaysNeedConnection == Spec => []SessionNeedsConnection
<1>1. Init => TransportInv
  BY TransportStarts
<1>2. TransportInv /\ [Next]_vars => TransportInv'
  BY TransportKeeps DEF Next, vars
<1>3. TransportInv => SessionNeedsConnection
  BY DEF TransportInv, SessionNeedsConnection, Transport!SessionNeedsConnection
<1> QED
  BY <1>1, <1>2, <1>3, PTL DEF Spec

-----------------------------------------------------------------------------
(* The devices that play ping pong. *)

\* The instances count as FiniteSets does.
LEMMA GameCounts ==
  ASSUME NEW S
  PROVE  /\ PingPong!Cardinality(S) = Cardinality(S) /\ Game!Cardinality(S) = Cardinality(S)
         /\ Game!IsFiniteSet(S) <=> IsFiniteSet(S)
BY DEF PingPong!Cardinality, Game!Cardinality, Cardinality, Game!IsFiniteSet, IsFiniteSet

\* The two names of one program.
LEMMA GameSame ==
  /\ PingPong!Init <=> Game!Init
  /\ PingPong!TypeOK <=> Game!TypeOK
  /\ PingPong!PongsAddUp <=> Game!PongsAddUp
  /\ PingPong!Next <=> Game!Next
  /\ UNCHANGED ofPingPong <=> UNCHANGED Game!vars
  /\ \A d, p : PingPong!Answers(d, p) <=> Game!Answers(d, p)
<1>1. ASSUME NEW d PROVE PingPong!PingTimer(d) <=> Game!PingTimer(d)
  BY GameCounts DEF PingPong!PingTimer, Game!PingTimer
<1>2. ASSUME NEW d
      PROVE  /\ PingPong!PingReceived(d) <=> Game!PingReceived(d)
             /\ PingPong!PongReceived(d) <=> Game!PongReceived(d)
  BY DEF PingPong!PingReceived, PingPong!PongReceived, PingPong!IsMine, PingPong!FrameId,
         Game!PingReceived, Game!PongReceived, Game!IsMine, Game!FrameId
<1>3. PingPong!Next <=> Game!Next
  BY <1>1, <1>2 DEF PingPong!Next, Game!Next
<1>4. PingPong!PongsAddUp <=> Game!PongsAddUp
  <2>1. ASSUME NEW S PROVE PingPong!Cardinality(S) = Game!Cardinality(S)
    BY GameCounts
  <2>2. ASSUME NEW d PROVE PingPong!OtherBoards(d) = Game!OtherBoards(d)
    BY DEF PingPong!OtherBoards, Game!OtherBoards
  <2> QED
    BY <2>1, <2>2, Zenon DEF PingPong!PongsAddUp, Game!PongsAddUp
<1>5. /\ PingPong!Init <=> Game!Init
      /\ PingPong!TypeOK <=> Game!TypeOK
      /\ UNCHANGED ofPingPong <=> UNCHANGED Game!vars
      /\ \A d, p : PingPong!Answers(d, p) <=> Game!Answers(d, p)
  BY DEF PingPong!Init, PingPong!TypeOK, PingPong!Ping, PingPong!Answers,
         Game!Init, Game!TypeOK, Game!Ping, Game!Answers, Game!vars, ofPingPong
<1> QED
  BY <1>3, <1>4, <1>5

\* Of messages, what the devices of a demo know of them.
GameInv == Game!TypeOK /\ Game!MessagesInv

\* It is known at the start, when there are none,
LEMMA GameStarts == Init => GameInv
BY GameSame, Game!NothingSent DEF Init, GameInv

\* and kept.
LEMMA GameKeeps == GameInv /\ (PingPong!Next \/ UNCHANGED ofPingPong) => GameInv'
BY GameSame, Game!TypesKeptByStep, Game!MessagesKept DEF GameInv

\* Every ping of a board of another kind is answered (PongsOtherBoards).
THEOREM DemoPongsOthers == Spec => PongsOtherBoards
<1>1. GameInv /\ [Next]_vars =>
        [\A m \in pings \ pings' :
           board[m.to] # board[m.ping.from] => PingPong!Answers(m.to, m.ping)]_(PingPong!vars)
  <2> SUFFICES ASSUME GameInv, [Next]_vars, ~UNCHANGED PingPong!vars
               PROVE  \A m \in pings \ pings' :
                        board[m.to] # board[m.ping.from] => PingPong!Answers(m.to, m.ping)
    OBVIOUS
  <2>1. PingPong!Next
    BY DEF Next, vars, ofPingPong, PingPong!vars
  <2> QED
    BY <2>1, GameSame, Game!PongsOthersByStep DEF GameInv
<1>2. GameInv /\ [Next]_vars => GameInv'
  BY GameKeeps DEF Next, vars
<1> QED
  BY <1>1, <1>2, GameStarts, PTL DEF Spec, PongsOtherBoards, PingPong!PongsOtherBoards

\* And every such board is accounted for (PongsAddUp).
THEOREM DemoPongsAddUp == ASSUME IsFiniteSet(Devices) PROVE Spec => []PongsAddUp
<1>1. Init => Game!IInv
  BY GameSame, Game!NothingToAddUp DEF Init
<1>2. Game!IInv /\ [Next]_vars => Game!IInv'
  <2> SUFFICES ASSUME Game!IInv, [Next]_vars PROVE Game!IInv'
    OBVIOUS
  <2>1. PingPong!Next \/ UNCHANGED ofPingPong
    BY DEF Next, vars
  <2> QED
    BY <2>1, GameSame, GameCounts, Game!SumKept
<1>3. Game!IInv => PongsAddUp
  BY GameSame, Game!SumsAddUp DEF PongsAddUp
<1> QED
  BY <1>1, <1>2, <1>3, PTL DEF Spec

-----------------------------------------------------------------------------
(* All of them. *)

\* What is known of every demo.
DemosInv == ScriptInv /\ TransportInv /\ PingInv /\ GraphInv /\ ParamInv /\ MultiInv /\ GameInv

\* Every variable keeps its type, and what is followed is a well-made script (TypeOK).
THEOREM DemosTypesKept == ASSUME ScriptsWellMade PROVE Spec => []TypeOK
<1>1. Init => DemosInv
  BY ScriptInit, TransportStarts, PingStarts, GraphStarts, ParamStarts, ThreadsStart, GameStarts
     DEF DemosInv
<1>2. DemosInv /\ [Next]_vars => DemosInv'
  BY ScriptKept, TransportKeeps, PingKeeps, GraphKeeps, ParamKeeps, ThreadsKeep, GameKeeps
     DEF DemosInv, Next, vars
<1>3. DemosInv => TypeOK
  <2> SUFFICES ASSUME DemosInv PROVE TypeOK
    OBVIOUS
  <2>1. App!AppTypeOK
    BY DEF DemosInv, ScriptInv, AppInv, ThingsInv, App!AppTypeOK
  <2>2. Multi!ThreadTypeOK
    BY DEF DemosInv, MultiInv
  <2>3. Parameter!ParameterTypeOK /\ Graph!GraphTypeOK /\ Ping!PingTypeOK
        /\ Transport!TransportTypeOK /\ PingPong!TypeOK
    BY GameSame DEF DemosInv, ParamInv, GraphInv, PingInv, TransportInv, GameInv
  <2> QED
    BY <2>1, <2>2, <2>3 DEF TypeOK, ScriptsWellMade
<1> QED
  BY <1>1, <1>2, <1>3, PTL DEF Spec
=============================================================================
