------------------------- MODULE RuntimeLocksProofs -------------------------
(***************************************************************************)
(* Proofs about RuntimeLocks, for any threads, objects, blocks and         *)
(* sections, and for every copy of the code in every place of a program.   *)
(*                                                                         *)
(* A copy is data: first it is said which step stands where in which       *)
(* function (CopiesAre, the ...Steps), then for each named step where a    *)
(* thread may be when it takes it (Runs, Inside), and where it goes from   *)
(* there.  The invariants (RuntimeLocksInvariants) speak of places in      *)
(* functions only, so that one proof per step serves all copies.  What is  *)
(* said of both monitor.c and critical.c comes last but for the list of    *)
(* critical.c (ListInv), which rests on SectionInv alone.                  *)
(***************************************************************************)
EXTENDS RuntimeLocksInvariants, FunctionTheorems, FiniteSetTheorems, SequenceTheorems,
        WellFoundedInduction, TLAPS

-----------------------------------------------------------------------------
(* The code of monitor.c                                                   *)

LEMMA CopiesAre ==
    ASSUME NEW b \in DOMAIN OM!MonitorCode
    PROVE  /\ b \in ShippedNames \cup ProposedNames
           /\ DOMAIN OM!ShippedCopies = ShippedNames
           /\ OM!MonitorCode[b] = CopyOf(b)
<1>1. /\ DOMAIN OM!ShippedCopies = ShippedNames
      /\ OM!ShippedCopies["DmdWin32"] = OM!DmdWin32
      /\ OM!ShippedCopies["DmdPosix"] = OM!DmdPosix
      /\ OM!ShippedCopies["GdcWin32"] = OM!GdcWin32
      /\ OM!ShippedCopies["GdcPosix"] = OM!GdcPosix
      /\ OM!ShippedCopies["GdcAlreadyRecursive"] = OM!GdcAlreadyRecursive
      /\ OM!ShippedCopies["LdcWin32"] = OM!LdcWin32
      /\ OM!ShippedCopies["LdcPosix"] = OM!LdcPosix
  BY DEF OM!ShippedCopies, ShippedNames
<1>2. /\ DOMAIN OM!ProposedCopies = ProposedNames
      /\ OM!ProposedCopies["ProposedDmdWin32"] = OM!ProposedDmdWin32
      /\ OM!ProposedCopies["ProposedDmdPosix"] = OM!ProposedDmdPosix
      /\ OM!ProposedCopies["ProposedGdcWin32"] = OM!ProposedGdcWin32
      /\ OM!ProposedCopies["ProposedGdcPosix"] = OM!ProposedGdcPosix
      /\ OM!ProposedCopies["ProposedGdcAlreadyRecursive"] = OM!ProposedGdcAlreadyRecursive
  BY DEF OM!ProposedCopies, ProposedNames
<1>3. /\ OM!DmdWin32 = CopyOf("DmdWin32")
      /\ OM!DmdPosix = CopyOf("DmdPosix")
      /\ OM!GdcWin32 = CopyOf("GdcWin32")
      /\ OM!GdcPosix = CopyOf("GdcPosix")
      /\ OM!GdcAlreadyRecursive = CopyOf("GdcAlreadyRecursive")
      /\ OM!LdcWin32 = CopyOf("LdcWin32")
      /\ OM!LdcPosix = CopyOf("LdcPosix")
  BY DEF OM!DmdWin32, OM!DmdPosix, OM!GdcWin32, OM!GdcPosix, OM!LdcWin32, OM!LdcPosix,
         OM!GdcAlreadyRecursive, CopyOf, Ctor, Dtor, InitStep, ShippedNames, AttrBuilds, KeepBuilds
<1>4. /\ OM!ProposedDmdWin32 = CopyOf("ProposedDmdWin32")
      /\ OM!ProposedDmdPosix = CopyOf("ProposedDmdPosix")
      /\ OM!ProposedGdcWin32 = CopyOf("ProposedGdcWin32")
      /\ OM!ProposedGdcPosix = CopyOf("ProposedGdcPosix")
      /\ OM!ProposedGdcAlreadyRecursive = CopyOf("ProposedGdcAlreadyRecursive")
  BY DEF OM!ProposedDmdWin32, OM!ProposedDmdPosix, OM!ProposedGdcWin32, OM!ProposedGdcPosix,
         OM!ProposedGdcAlreadyRecursive, CopyOf, Ctor, Dtor, InitStep, ShippedNames, AttrBuilds, KeepBuilds
<1>5. /\ b \in ShippedNames \cup ProposedNames
      /\ OM!MonitorCode[b] = IF b \in ShippedNames THEN OM!ShippedCopies[b]
                             ELSE OM!ProposedCopies[b]
  BY <1>1, <1>2 DEF OM!MonitorCode
<1>6. b \in ShippedNames => OM!ShippedCopies[b] = CopyOf(b)
  BY <1>1, <1>3 DEF ShippedNames
<1>7. b \in ProposedNames => OM!ProposedCopies[b] = CopyOf(b)
  BY <1>2, <1>4 DEF ProposedNames
<1>8. b \in ProposedNames => b \notin ShippedNames
  BY DEF ShippedNames, ProposedNames
<1> QED  BY <1>1, <1>5, <1>6, <1>7, <1>8

-----------------------------------------------------------------------------
(* The steps of its functions                                              *)

LEMMA CreateSteps ==
    ASSUME NEW i, NEW c, c = OM!Create(i)
    PROVE  /\ Len(c) = 9
           /\ Entry(c, 1, "lock critsec", 0)
           /\ Entry(c, 2, "no monitor", 4)
           /\ Entry(c, 3, "calloc", 0)
           /\ Entry(c, 4, i, 0)
           /\ Entry(c, 5, "set monitor", 0)
           /\ Entry(c, 6, "forget cs", 0)
           /\ Entry(c, 7, "unlock critsec", 0)
           /\ Entry(c, 8, "cs", 1)
           /\ Entry(c, 9, "free cs", 0)
BY DEF OM!Create, OM!Do, OM!If, Entry

LEMMA GetSteps ==
    ASSUME NEW i, NEW c, c = OM!CreateFirst(i)
    PROVE  /\ Len(c) = 10
           /\ Entry(c, 1, "no monitor", 9)
           /\ Entry(c, 2, "calloc", 0)
           /\ Entry(c, 3, "lock critsec", 0)
           /\ Entry(c, 4, "no monitor", 3)
           /\ Entry(c, 5, "set monitor", 0)
           /\ Entry(c, 6, i, 0)
           /\ Entry(c, 7, "forget cs", 0)
           /\ Entry(c, 8, "unlock critsec", 0)
           /\ Entry(c, 9, "cs", 1)
           /\ Entry(c, 10, "free cs", 0)
BY DEF OM!CreateFirst, OM!Do, OM!If, Entry

LEMMA EnterSteps ==
    ASSUME NEW i, NEW c, c = OM!ProposedEnter(i)
    PROVE  /\ Len(c) = 11
           /\ Entry(c, 1, "no monitor", 9)
           /\ Entry(c, 2, "calloc", 0)
           /\ Entry(c, 3, "lock critsec", 0)
           /\ Entry(c, 4, "no monitor", 3)
           /\ Entry(c, 5, "set monitor", 0)
           /\ Entry(c, 6, i, 0)
           /\ Entry(c, 7, "forget cs", 0)
           /\ Entry(c, 8, "unlock critsec", 0)
           /\ Entry(c, 9, "cs", 1)
           /\ Entry(c, 10, "free cs", 0)
           /\ Entry(c, 11, "lock mutex", 0)
BY DEF OM!ProposedEnter, OM!Do, OM!If, Entry

LEMMA ShippedIs == \A c, d, i : LooksShipped(OM!Shipped(c, d, i), c, d, i)
BY DEF LooksShipped, OM!Shipped, OM!Do, Entry

LEMMA ProposedIs == \A c, d, i : LooksProposed(OM!Proposed(c, d, i), c, d, i)
BY DEF LooksProposed, OM!Proposed, OM!Do, OM!If, Entry

LEMMA BodyIs ==
    ASSUME NEW t, build \in DOMAIN OM!MonitorCode, OM!Is(fn[t]), NEW c, c = OM!Body(t)
    PROVE  /\ build \in ShippedNames =>
                 fn[t] \in {"staticctor", "staticdtor", "create", "destroy", "lock", "unlock"}
           /\ build \notin ShippedNames =>
                 fn[t] \in {"staticctor", "staticdtor", "enter", "exit", "get", "release"}
           /\ fn[t] = "staticctor" => c = Ctor(build)
           /\ fn[t] = "staticdtor" => c = Dtor(build)
           /\ fn[t] = "create" => c = OM!Create(InitStep(build))
           /\ fn[t] = "enter" => c = OM!ProposedEnter(InitStep(build))
           /\ fn[t] = "get" => c = OM!CreateFirst(InitStep(build))
           /\ fn[t] = "lock" => Len(c) = 1 /\ Entry(c, 1, "lock mutex", 0)
           /\ fn[t] \in {"unlock", "exit"} => Len(c) = 1 /\ Entry(c, 1, "unlock mutex", 0)
           /\ fn[t] = "destroy" => /\ Len(c) = 3
                                   /\ Entry(c, 1, "delete mutex", 0)
                                   /\ Entry(c, 2, "free monitor", 0)
                                   /\ Entry(c, 3, "clear monitor", 0)
           /\ fn[t] = "release" => /\ Len(c) = 4
                                   /\ Entry(c, 1, "monitor", 3)
                                   /\ Entry(c, 2, "delete mutex", 0)
                                   /\ Entry(c, 3, "free monitor", 0)
                                   /\ Entry(c, 4, "clear monitor", 0)
<1>1. PICK code : code = OM!MonitorCode[build]
  OBVIOUS
<1>2. code = CopyOf(build) /\ fn[t] \in DOMAIN code /\ c = code[fn[t]]
  BY <1>1, CopiesAre DEF OM!Is, OM!Body
<1>3. CASE build \in ShippedNames
  <2>1. code = OM!Shipped(Ctor(build), Dtor(build), OM!Create(InitStep(build)))
    BY <1>2, <1>3 DEF CopyOf
  <2>2. LooksShipped(code, Ctor(build), Dtor(build), OM!Create(InitStep(build)))
    BY <2>1, ShippedIs, Zenon
  <2>3. fn[t] \in {"staticctor", "staticdtor", "create", "destroy", "lock", "unlock"}
    BY <1>2, <2>2 DEF LooksShipped
  <2> QED  BY <1>2, <1>3, <2>2, <2>3 DEF LooksShipped
<1>4. CASE build \notin ShippedNames
  <2>1. code = OM!Proposed(Ctor(build), Dtor(build), InitStep(build))
    BY <1>2, <1>4 DEF CopyOf
  <2>2. LooksProposed(code, Ctor(build), Dtor(build), InitStep(build))
    BY <2>1, ProposedIs, Zenon
  <2>3. fn[t] \in {"staticctor", "staticdtor", "enter", "exit", "get", "release"}
    BY <1>2, <2>2 DEF LooksProposed
  <2> QED  BY <1>2, <1>4, <2>2, <2>3 DEF LooksProposed
<1> QED  BY <1>3, <1>4

LEMMA EntryRuns ==
    ASSUME NEW t, NEW n, NEW what, NEW skip, at[t] = n, Entry(OM!Body(t), n, what, skip)
    PROVE  Runs(t, what, skip)
BY DEF Runs, Entry, OM!Step

LEMMA CreateRuns ==
    ASSUME NEW t, build \in DOMAIN OM!MonitorCode, InCode(t), fn[t] = "create"
    PROVE  /\ at[t] \in 1 .. 9 /\ Len(OM!Body(t)) = 9 /\ build \in ShippedNames
           /\ at[t] = 1 => Runs(t, "lock critsec", 0)
           /\ at[t] = 2 => Runs(t, "no monitor", 4)
           /\ at[t] = 3 => Runs(t, "calloc", 0)
           /\ at[t] = 4 => Runs(t, InitStep(build), 0)
           /\ at[t] = 5 => Runs(t, "set monitor", 0)
           /\ at[t] = 6 => Runs(t, "forget cs", 0)
           /\ at[t] = 7 => Runs(t, "unlock critsec", 0)
           /\ at[t] = 8 => Runs(t, "cs", 1)
           /\ at[t] = 9 => Runs(t, "free cs", 0)
<1>1. OM!Body(t) = OM!Create(InitStep(build)) /\ build \in ShippedNames
  BY BodyIs DEF InCode
<1> QED  BY <1>1, CreateSteps, EntryRuns DEF InCode

LEMMA EnterRuns ==
    ASSUME NEW t, build \in DOMAIN OM!MonitorCode, InCode(t), fn[t] \in {"enter", "get"}
    PROVE  /\ Len(OM!Body(t)) = EnterLength(fn[t]) /\ at[t] \in 1 .. EnterLength(fn[t])
           /\ build \notin ShippedNames
           /\ at[t] = 1 => Runs(t, "no monitor", 9)
           /\ at[t] = 2 => Runs(t, "calloc", 0)
           /\ at[t] = 3 => Runs(t, "lock critsec", 0)
           /\ at[t] = 4 => Runs(t, "no monitor", 3)
           /\ at[t] = 5 => Runs(t, "set monitor", 0)
           /\ at[t] = 6 => Runs(t, InitStep(build), 0)
           /\ at[t] = 7 => Runs(t, "forget cs", 0)
           /\ at[t] = 8 => Runs(t, "unlock critsec", 0)
           /\ at[t] = 9 => Runs(t, "cs", 1)
           /\ at[t] = 10 => Runs(t, "free cs", 0)
           /\ at[t] = 11 => Runs(t, "lock mutex", 0)
<1>1. CASE fn[t] = "enter"
  <2>1. OM!Body(t) = OM!ProposedEnter(InitStep(build)) /\ build \notin ShippedNames
    BY <1>1, BodyIs DEF InCode
  <2> QED  BY <1>1, <2>1, EnterSteps, EntryRuns DEF InCode, EnterLength
<1>2. CASE fn[t] = "get"
  <2>1. OM!Body(t) = OM!CreateFirst(InitStep(build)) /\ build \notin ShippedNames
    BY <1>2, BodyIs DEF InCode
  <2>2. /\ at[t] \in 1 .. 10 /\ Len(OM!Body(t)) = 10
        /\ at[t] = 1 => Runs(t, "no monitor", 9)
        /\ at[t] = 2 => Runs(t, "calloc", 0)
        /\ at[t] = 3 => Runs(t, "lock critsec", 0)
        /\ at[t] = 4 => Runs(t, "no monitor", 3)
        /\ at[t] = 5 => Runs(t, "set monitor", 0)
        /\ at[t] = 6 => Runs(t, InitStep(build), 0)
        /\ at[t] = 7 => Runs(t, "forget cs", 0)
        /\ at[t] = 8 => Runs(t, "unlock critsec", 0)
        /\ at[t] = 9 => Runs(t, "cs", 1)
        /\ at[t] = 10 => Runs(t, "free cs", 0)
    BY <2>1, GetSteps, EntryRuns DEF InCode
  <2>3. at[t] # 11
    <3>1. at[t] \in 1 .. 10
      BY <2>2, Zenon
    <3> QED  BY <3>1
  <2>4. EnterLength(fn[t]) = 10
    BY <1>2 DEF EnterLength
  <2> QED  BY <2>1, <2>2, <2>3, <2>4
<1> QED  BY <1>1, <1>2

LEMMA CtorSteps ==
    ASSUME NEW b, NEW c, c = Ctor(b)
    PROVE  /\ b \in AttrBuilds => /\ Len(c) = 5
                                  /\ Entry(c, 1, "not inited", 4)
                                  /\ Entry(c, 2, "init attr", 0)
                                  /\ Entry(c, 3, "set type of attr", 0)
                                  /\ Entry(c, 4, "init critsec", 0)
                                  /\ Entry(c, 5, "set inited", 0)
           /\ b \notin AttrBuilds => /\ Len(c) = 3
                                     /\ Entry(c, 1, "not inited", 2)
                                     /\ Entry(c, 2, "init critsec", 0)
                                     /\ Entry(c, 3, "set inited", 0)
BY DEF Ctor, OM!StaticCtorAttr, OM!StaticCtor, OM!Do, OM!If, Entry

LEMMA DtorSteps ==
    ASSUME NEW b, NEW c, c = Dtor(b)
    PROVE  /\ b \in AttrBuilds => /\ Len(c) = 4
                                  /\ Entry(c, 1, "inited", 3)
                                  /\ Entry(c, 2, "clear inited", 0)
                                  /\ Entry(c, 3, "delete critsec", 0)
                                  /\ Entry(c, 4, "delete attr", 0)
           /\ b \in KeepBuilds \ AttrBuilds => /\ Len(c) = 2
                                               /\ Entry(c, 1, "inited", 1)
                                               /\ Entry(c, 2, "clear inited", 0)
           /\ b \notin KeepBuilds \cup AttrBuilds => /\ Len(c) = 3
                                                     /\ Entry(c, 1, "inited", 2)
                                                     /\ Entry(c, 2, "clear inited", 0)
                                                     /\ Entry(c, 3, "delete critsec", 0)
BY DEF Dtor, OM!StaticDtorAttr, OM!StaticDtor, OM!Do, OM!If, Entry

LEMMA CtorRuns ==
    ASSUME NEW t, build \in DOMAIN OM!MonitorCode, InCode(t), fn[t] = "staticctor"
    PROVE  IF build \in AttrBuilds
           THEN /\ at[t] \in 1 .. 5 /\ Len(OM!Body(t)) = 5
                /\ at[t] = 1 => Runs(t, "not inited", 4)
                /\ at[t] = 2 => Runs(t, "init attr", 0)
                /\ at[t] = 3 => Runs(t, "set type of attr", 0)
                /\ at[t] = 4 => Runs(t, "init critsec", 0)
                /\ at[t] = 5 => Runs(t, "set inited", 0)
           ELSE /\ at[t] \in 1 .. 3 /\ Len(OM!Body(t)) = 3
                /\ at[t] = 1 => Runs(t, "not inited", 2)
                /\ at[t] = 2 => Runs(t, "init critsec", 0)
                /\ at[t] = 3 => Runs(t, "set inited", 0)
<1>1. OM!Body(t) = Ctor(build)
  BY BodyIs DEF InCode
<1>2. CASE build \in AttrBuilds
  BY <1>1, <1>2, CtorSteps, EntryRuns DEF InCode
<1>3. CASE build \notin AttrBuilds
  BY <1>1, <1>3, CtorSteps, EntryRuns DEF InCode
<1> QED  BY <1>2, <1>3

LEMMA DtorRuns ==
    ASSUME NEW t, build \in DOMAIN OM!MonitorCode, InCode(t), fn[t] = "staticdtor"
    PROVE  /\ build \in AttrBuilds => /\ at[t] \in 1 .. 4 /\ Len(OM!Body(t)) = 4
                                      /\ at[t] = 1 => Runs(t, "inited", 3)
                                      /\ at[t] = 2 => Runs(t, "clear inited", 0)
                                      /\ at[t] = 3 => Runs(t, "delete critsec", 0)
                                      /\ at[t] = 4 => Runs(t, "delete attr", 0)
           /\ build \in KeepBuilds \ AttrBuilds =>
                                      /\ at[t] \in 1 .. 2 /\ Len(OM!Body(t)) = 2
                                      /\ at[t] = 1 => Runs(t, "inited", 1)
                                      /\ at[t] = 2 => Runs(t, "clear inited", 0)
           /\ build \notin KeepBuilds \cup AttrBuilds =>
                                      /\ at[t] \in 1 .. 3 /\ Len(OM!Body(t)) = 3
                                      /\ at[t] = 1 => Runs(t, "inited", 2)
                                      /\ at[t] = 2 => Runs(t, "clear inited", 0)
                                      /\ at[t] = 3 => Runs(t, "delete critsec", 0)
<1>1. OM!Body(t) = Dtor(build)
  BY BodyIs DEF InCode
<1>2. CASE build \in AttrBuilds
  BY <1>1, <1>2, DtorSteps, EntryRuns DEF InCode
<1>3. CASE build \in KeepBuilds \ AttrBuilds
  BY <1>1, <1>3, DtorSteps, EntryRuns DEF InCode
<1>4. CASE build \notin KeepBuilds \cup AttrBuilds
  BY <1>1, <1>4, DtorSteps, EntryRuns DEF InCode
<1> QED  BY <1>2, <1>3, <1>4

LEMMA OtherRuns ==
    ASSUME NEW t, build \in DOMAIN OM!MonitorCode, InCode(t)
    PROVE  /\ fn[t] \in {"lock", "destroy"} => build \in ShippedNames
           /\ fn[t] = "lock" => at[t] = 1 /\ Len(OM!Body(t)) = 1 /\ Runs(t, "lock mutex", 0)
           /\ fn[t] \in {"unlock", "exit"} => at[t] = 1 /\ Len(OM!Body(t)) = 1 /\ Runs(t, "unlock mutex", 0)
           /\ fn[t] = "destroy" => /\ at[t] \in 1 .. 3 /\ Len(OM!Body(t)) = 3
                                   /\ at[t] = 1 => Runs(t, "delete mutex", 0)
                                   /\ at[t] = 2 => Runs(t, "free monitor", 0)
                                   /\ at[t] = 3 => Runs(t, "clear monitor", 0)
           /\ fn[t] = "release" => /\ at[t] \in 1 .. 4 /\ Len(OM!Body(t)) = 4
                                   /\ at[t] = 1 => Runs(t, "monitor", 3)
                                   /\ at[t] = 2 => Runs(t, "delete mutex", 0)
                                   /\ at[t] = 3 => Runs(t, "free monitor", 0)
                                   /\ at[t] = 4 => Runs(t, "clear monitor", 0)
<1> DEFINE c == OM!Body(t)
<1>1. /\ fn[t] \in {"lock", "destroy"} => build \in ShippedNames
      /\ fn[t] = "lock" => Len(c) = 1 /\ Entry(c, 1, "lock mutex", 0)
      /\ fn[t] \in {"unlock", "exit"} => Len(c) = 1 /\ Entry(c, 1, "unlock mutex", 0)
      /\ fn[t] = "destroy" => /\ Len(c) = 3
                              /\ Entry(c, 1, "delete mutex", 0)
                              /\ Entry(c, 2, "free monitor", 0)
                              /\ Entry(c, 3, "clear monitor", 0)
      /\ fn[t] = "release" => /\ Len(c) = 4
                              /\ Entry(c, 1, "monitor", 3)
                              /\ Entry(c, 2, "delete mutex", 0)
                              /\ Entry(c, 3, "free monitor", 0)
                              /\ Entry(c, 4, "clear monitor", 0)
  BY BodyIs DEF InCode
<1>2. at[t] \in 1 .. Len(c)
  BY DEF InCode
<1>3. \A n, what, skip : at[t] = n /\ Entry(c, n, what, skip) => Runs(t, what, skip)
  BY EntryRuns
<1> HIDE DEF c
<1>4. fn[t] = "lock" => at[t] = 1 /\ Len(c) = 1 /\ Runs(t, "lock mutex", 0)
  <2> SUFFICES ASSUME fn[t] = "lock" PROVE at[t] = 1 /\ Len(c) = 1 /\ Runs(t, "lock mutex", 0)
    OBVIOUS
  <2>1. Len(c) = 1 /\ Entry(c, 1, "lock mutex", 0)
    BY <1>1, Zenon
  <2>2. at[t] = 1 /\ Len(c) = 1
    <3>1. Len(c) = 1
      BY <2>1
    <3> QED  BY <1>2, <3>1
  <2> QED  BY <1>3, <2>1, <2>2, Zenon
<1>5. fn[t] \in {"unlock", "exit"} => at[t] = 1 /\ Len(c) = 1 /\ Runs(t, "unlock mutex", 0)
  <2> SUFFICES ASSUME fn[t] \in {"unlock", "exit"}
               PROVE  at[t] = 1 /\ Len(c) = 1 /\ Runs(t, "unlock mutex", 0)
    OBVIOUS
  <2>1. Len(c) = 1 /\ Entry(c, 1, "unlock mutex", 0)
    BY <1>1, Zenon
  <2>2. at[t] = 1 /\ Len(c) = 1
    <3>1. Len(c) = 1
      BY <2>1
    <3> QED  BY <1>2, <3>1
  <2> QED  BY <1>3, <2>1, <2>2, Zenon
<1>6. fn[t] = "destroy" => /\ at[t] \in 1 .. 3 /\ Len(c) = 3
                           /\ at[t] = 1 => Runs(t, "delete mutex", 0)
                           /\ at[t] = 2 => Runs(t, "free monitor", 0)
                           /\ at[t] = 3 => Runs(t, "clear monitor", 0)
  BY <1>1, <1>2, <1>3
<1>7. fn[t] = "release" => /\ at[t] \in 1 .. 4 /\ Len(c) = 4
                           /\ at[t] = 1 => Runs(t, "monitor", 3)
                           /\ at[t] = 2 => Runs(t, "delete mutex", 0)
                           /\ at[t] = 3 => Runs(t, "free monitor", 0)
                           /\ at[t] = 4 => Runs(t, "clear monitor", 0)
  BY <1>1, <1>2, <1>3
<1> QED  BY <1>1, <1>4, <1>5, <1>6, <1>7, Zenon DEF c

-----------------------------------------------------------------------------
(* Where a thread goes                                                     *)

LEMMA GoesIs ==
    ASSUME CallTypes, NEW t \in Threads, NEW to, OM!Goes(t, to)
    PROVE  /\ to <= Len(OM!Body(t)) => GoesTo(t, to)
           /\ ~(to <= Len(OM!Body(t))) /\ fn[t] = "create" => GoesOn(t)
           /\ ~(to <= Len(OM!Body(t))) /\ fn[t] # "create" => Returns(t)
BY DEF CallTypes, OM!Goes, GoesTo, Returns, GoesOn, Moves

\* One step: what it does and where it goes is told by its name.
LEMMA StepIs ==
    ASSUME NEW t, at[t] \in Nat, OM!CallStep(t), NEW d, d = OM!Step(t).do
    PROVE  /\ ~undefined
           /\ Onward(t) \/ Past(t)
           /\ d = "inited" => Nothing /\ IF inited THEN Onward(t) ELSE Past(t)
           /\ d = "not inited" => Nothing /\ IF inited THEN Past(t) ELSE Onward(t)
           /\ d = "no monitor" => Nothing /\ IF monitor[obj[t]] = null THEN Onward(t) ELSE Past(t)
           /\ d = "monitor" => Nothing /\ IF monitor[obj[t]] = null THEN Past(t) ELSE Onward(t)
           /\ d = "cs" => Nothing /\ IF cs[t] = null THEN Past(t) ELSE Onward(t)
           /\ d \in {"init mutex", "init mutex of attr"} => Onward(t) /\ (d = InitStep(build) => MakesMutex(t))
           /\ d = "lock mutex" => Onward(t) /\ (Locks(t) \/ LocksRaw(t))
           /\ d = "init attr" => Onward(t) /\ MakesAttr
           /\ d = "set type of attr" => Onward(t) /\ SetsType
           /\ d = "delete attr" => Onward(t) /\ MakesAttr
           /\ d = "init critsec" => Onward(t) /\ MakesCritsec
           /\ d = "delete critsec" => Onward(t) /\ DeletesCritsec
           /\ d = "set inited" => Onward(t) /\ SetsInited
           /\ d = "clear inited" => Onward(t) /\ ClearsInited
           /\ d = "lock critsec" => Onward(t) /\ TakesCritsec(t)
           /\ d = "unlock critsec" => Onward(t) /\ LeavesCritsec
           /\ d = "calloc" => Onward(t) /\ Allocates(t)
           /\ d = "set monitor" => Onward(t) /\ SetsMonitor(t)
           /\ d = "forget cs" => Onward(t) /\ Forgets(t)
           /\ d = "free cs" => Onward(t) /\ FreesCs(t)
           /\ d = "delete mutex" => Onward(t) /\ DeletesMutex(t)
           /\ d = "free monitor" => Onward(t) /\ FreesMonitor(t)
           /\ d = "clear monitor" => Onward(t) /\ ClearsMonitor(t)
           /\ d = "unlock mutex" => Onward(t) /\ Unlocks(t)
<1>0. OM!CallStep(t) => ~undefined
  BY DEF OM!CallStep, OM!Test, OM!Tests, OM!Does, OM!InitAttr, OM!SetAttrType, OM!DeleteAttr, OM!InitCritsec, OM!DeleteCritsec, OM!SetInited, OM!ClearInited, OM!LockCritsec, OM!UnlockCritsec, OM!Calloc, OM!SetMonitor, OM!ForgetCs, OM!FreeCs, OM!DeleteMutex, OM!FreeMonitor, OM!ClearMonitor, OM!UnlockMutex, OM!InitMutex, OM!LockMutex, OM!LockRawMutex
<1>1. ASSUME OM!Tests(t, "inited", inited)
      PROVE  d = "inited" /\ Nothing /\ IF inited THEN Onward(t) ELSE Past(t)
  <2>1. /\ OM!AtStep(t, "inited")
        /\ OM!Goes(t, at[t] + 1 + IF inited THEN 0 ELSE OM!Step(t).skip)
        /\ UNCHANGED <<cs, OM!globals, OM!memory, OM!locks, undefined>>
    BY <1>1 DEF OM!Tests
  <2>2. d = "inited" /\ Nothing
    BY <2>1 DEF OM!AtStep, Nothing, OM!globals, OM!memory, OM!locks
  <2>3. inited => at[t] + 1 + (IF inited THEN 0 ELSE OM!Step(t).skip) = at[t] + 1
    OBVIOUS
  <2>4. ~(inited) => at[t] + 1 + (IF inited THEN 0 ELSE OM!Step(t).skip)
                      = at[t] + 1 + OM!Step(t).skip
    BY Zenon
  <2> QED  BY <2>1, <2>2, <2>3, <2>4, Zenon DEF Onward, Past
<1>2. ASSUME OM!Tests(t, "not inited", ~inited)
      PROVE  d = "not inited" /\ Nothing /\ IF ~inited THEN Onward(t) ELSE Past(t)
  <2>1. /\ OM!AtStep(t, "not inited")
        /\ OM!Goes(t, at[t] + 1 + IF ~inited THEN 0 ELSE OM!Step(t).skip)
        /\ UNCHANGED <<cs, OM!globals, OM!memory, OM!locks, undefined>>
    BY <1>2 DEF OM!Tests
  <2>2. d = "not inited" /\ Nothing
    BY <2>1 DEF OM!AtStep, Nothing, OM!globals, OM!memory, OM!locks
  <2>3. ~inited => at[t] + 1 + (IF ~inited THEN 0 ELSE OM!Step(t).skip) = at[t] + 1
    OBVIOUS
  <2>4. ~(~inited) => at[t] + 1 + (IF ~inited THEN 0 ELSE OM!Step(t).skip)
                      = at[t] + 1 + OM!Step(t).skip
    BY Zenon
  <2> QED  BY <2>1, <2>2, <2>3, <2>4, Zenon DEF Onward, Past
<1>3. ASSUME OM!Tests(t, "no monitor", monitor[obj[t]] = null)
      PROVE  d = "no monitor" /\ Nothing /\ IF monitor[obj[t]] = null THEN Onward(t) ELSE Past(t)
  <2>1. /\ OM!AtStep(t, "no monitor")
        /\ OM!Goes(t, at[t] + 1 + IF monitor[obj[t]] = null THEN 0 ELSE OM!Step(t).skip)
        /\ UNCHANGED <<cs, OM!globals, OM!memory, OM!locks, undefined>>
    BY <1>3 DEF OM!Tests
  <2>2. d = "no monitor" /\ Nothing
    BY <2>1 DEF OM!AtStep, Nothing, OM!globals, OM!memory, OM!locks
  <2>3. monitor[obj[t]] = null => at[t] + 1 + (IF monitor[obj[t]] = null THEN 0 ELSE OM!Step(t).skip) = at[t] + 1
    OBVIOUS
  <2>4. ~(monitor[obj[t]] = null) => at[t] + 1 + (IF monitor[obj[t]] = null THEN 0 ELSE OM!Step(t).skip)
                      = at[t] + 1 + OM!Step(t).skip
    BY Zenon
  <2> QED  BY <2>1, <2>2, <2>3, <2>4, Zenon DEF Onward, Past
<1>4. ASSUME OM!Tests(t, "monitor", monitor[obj[t]] # null)
      PROVE  d = "monitor" /\ Nothing /\ IF monitor[obj[t]] # null THEN Onward(t) ELSE Past(t)
  <2>1. /\ OM!AtStep(t, "monitor")
        /\ OM!Goes(t, at[t] + 1 + IF monitor[obj[t]] # null THEN 0 ELSE OM!Step(t).skip)
        /\ UNCHANGED <<cs, OM!globals, OM!memory, OM!locks, undefined>>
    BY <1>4 DEF OM!Tests
  <2>2. d = "monitor" /\ Nothing
    BY <2>1 DEF OM!AtStep, Nothing, OM!globals, OM!memory, OM!locks
  <2>3. monitor[obj[t]] # null => at[t] + 1 + (IF monitor[obj[t]] # null THEN 0 ELSE OM!Step(t).skip) = at[t] + 1
    OBVIOUS
  <2>4. ~(monitor[obj[t]] # null) => at[t] + 1 + (IF monitor[obj[t]] # null THEN 0 ELSE OM!Step(t).skip)
                      = at[t] + 1 + OM!Step(t).skip
    BY Zenon
  <2> QED  BY <2>1, <2>2, <2>3, <2>4, Zenon DEF Onward, Past
<1>5. ASSUME OM!Tests(t, "cs", cs[t] # null)
      PROVE  d = "cs" /\ Nothing /\ IF cs[t] # null THEN Onward(t) ELSE Past(t)
  <2>1. /\ OM!AtStep(t, "cs")
        /\ OM!Goes(t, at[t] + 1 + IF cs[t] # null THEN 0 ELSE OM!Step(t).skip)
        /\ UNCHANGED <<cs, OM!globals, OM!memory, OM!locks, undefined>>
    BY <1>5 DEF OM!Tests
  <2>2. d = "cs" /\ Nothing
    BY <2>1 DEF OM!AtStep, Nothing, OM!globals, OM!memory, OM!locks
  <2>3. cs[t] # null => at[t] + 1 + (IF cs[t] # null THEN 0 ELSE OM!Step(t).skip) = at[t] + 1
    OBVIOUS
  <2>4. ~(cs[t] # null) => at[t] + 1 + (IF cs[t] # null THEN 0 ELSE OM!Step(t).skip)
                      = at[t] + 1 + OM!Step(t).skip
    BY Zenon
  <2> QED  BY <2>1, <2>2, <2>3, <2>4, Zenon DEF Onward, Past
<1>6. OM!InitAttr(t) => d = "init attr" /\ Onward(t) /\ MakesAttr
  BY DEF OM!InitAttr, OM!Does, OM!AtStep, Onward, MakesAttr, OM!globals, OM!memory, OM!locks
<1>7. OM!SetAttrType(t) => d = "set type of attr" /\ Onward(t) /\ SetsType
  BY DEF OM!SetAttrType, OM!Does, OM!AtStep, Onward, SetsType, OM!globals, OM!memory, OM!locks
<1>8. OM!DeleteAttr(t) => d = "delete attr" /\ Onward(t) /\ MakesAttr
  BY DEF OM!DeleteAttr, OM!Does, OM!AtStep, Onward, MakesAttr, OM!globals, OM!memory, OM!locks
<1>9. OM!InitCritsec(t) => d = "init critsec" /\ Onward(t) /\ MakesCritsec
  BY DEF OM!InitCritsec, OM!Does, OM!AtStep, Onward, MakesCritsec, OM!globals, OM!memory, OM!locks
<1>10. OM!DeleteCritsec(t) => d = "delete critsec" /\ Onward(t) /\ DeletesCritsec
  BY DEF OM!DeleteCritsec, OM!Does, OM!AtStep, Onward, DeletesCritsec, OM!globals, OM!memory, OM!locks
<1>11. OM!SetInited(t) => d = "set inited" /\ Onward(t) /\ SetsInited
  BY DEF OM!SetInited, OM!Does, OM!AtStep, Onward, SetsInited, OM!globals, OM!memory, OM!locks
<1>12. OM!ClearInited(t) => d = "clear inited" /\ Onward(t) /\ ClearsInited
  BY DEF OM!ClearInited, OM!Does, OM!AtStep, Onward, ClearsInited, OM!globals, OM!memory, OM!locks
<1>13. OM!LockCritsec(t) => d = "lock critsec" /\ Onward(t) /\ TakesCritsec(t)
  BY DEF OM!LockCritsec, OM!Does, OM!AtStep, Onward, TakesCritsec, OM!globals, OM!memory, OM!locks
<1>14. OM!UnlockCritsec(t) => d = "unlock critsec" /\ Onward(t) /\ LeavesCritsec
  BY DEF OM!UnlockCritsec, OM!Does, OM!AtStep, Onward, LeavesCritsec, OM!globals, OM!memory, OM!locks
<1>15. OM!Calloc(t) => d = "calloc" /\ Onward(t) /\ Allocates(t)
  BY DEF OM!Calloc, OM!Does, OM!AtStep, Onward, Allocates, OM!globals, OM!memory, OM!locks
<1>16. OM!SetMonitor(t) => d = "set monitor" /\ Onward(t) /\ SetsMonitor(t)
  BY DEF OM!SetMonitor, OM!Does, OM!AtStep, Onward, SetsMonitor, OM!globals, OM!memory, OM!locks
<1>17. OM!ForgetCs(t) => d = "forget cs" /\ Onward(t) /\ Forgets(t)
  BY DEF OM!ForgetCs, OM!Does, OM!AtStep, Onward, Forgets, OM!globals, OM!memory, OM!locks
<1>18. OM!FreeCs(t) => d = "free cs" /\ Onward(t) /\ FreesCs(t)
  BY DEF OM!FreeCs, OM!Does, OM!AtStep, Onward, FreesCs, OM!globals, OM!memory, OM!locks
<1>19. OM!DeleteMutex(t) => d = "delete mutex" /\ Onward(t) /\ DeletesMutex(t)
  BY DEF OM!DeleteMutex, OM!Does, OM!AtStep, Onward, DeletesMutex, OM!globals, OM!memory, OM!locks
<1>20. OM!FreeMonitor(t) => d = "free monitor" /\ Onward(t) /\ FreesMonitor(t)
  BY DEF OM!FreeMonitor, OM!Does, OM!AtStep, Onward, FreesMonitor, OM!globals, OM!memory, OM!locks
<1>21. OM!ClearMonitor(t) => d = "clear monitor" /\ Onward(t) /\ ClearsMonitor(t)
  BY DEF OM!ClearMonitor, OM!Does, OM!AtStep, Onward, ClearsMonitor, OM!globals, OM!memory, OM!locks
<1>22. OM!UnlockMutex(t) => d = "unlock mutex" /\ Onward(t) /\ Unlocks(t)
  BY DEF OM!UnlockMutex, OM!Does, OM!AtStep, Onward, Unlocks, OM!globals, OM!memory, OM!locks
<1>23. OM!InitMutex(t) => /\ d \in {"init mutex", "init mutex of attr"} /\ Onward(t)
                         /\ (d = InitStep(build) => MakesMutex(t))
  BY DEF OM!InitMutex, OM!Does, OM!AtStep, Onward, MakesMutex, InitStep, OM!globals, OM!memory, OM!locks
<1>24. OM!LockMutex(t) => d = "lock mutex" /\ Onward(t) /\ Locks(t)
  BY DEF OM!LockMutex, OM!IsMutex, OM!Does, OM!AtStep, Onward, Locks, OM!globals, OM!memory, OM!locks
<1>25. OM!LockRawMutex(t) => d = "lock mutex" /\ Onward(t) /\ LocksRaw(t)
  BY DEF OM!LockRawMutex, OM!IsMutex, OM!Does, OM!AtStep, Onward, LocksRaw, OM!globals, OM!memory, OM!locks
<1> QED
  BY <1>0, <1>1, <1>2, <1>3, <1>4, <1>5, <1>6, <1>7, <1>8, <1>9, <1>10, <1>11, <1>12, <1>13, <1>14, <1>15, <1>16, <1>17, <1>18, <1>19, <1>20, <1>21, <1>22, <1>23, <1>24, <1>25 DEF OM!CallStep, OM!Test

LEMMA CreateStep ==
    ASSUME CallTypes, NEW t \in Threads, fn[t] = "create", OM!CallStep(t)
    PROVE  /\ ~undefined /\ build \in ShippedNames
           /\ \/ at[t] = 1 /\ TakesCritsec(t) /\ GoesTo(t, 2)
              \/ at[t] = 2 /\ monitor[obj[t]] = null /\ GoesTo(t, 3) /\ Nothing
              \/ at[t] = 2 /\ monitor[obj[t]] # null /\ GoesTo(t, 7) /\ Nothing
              \/ at[t] = 3 /\ Allocates(t) /\ GoesTo(t, 4)
              \/ at[t] = 4 /\ MakesMutex(t) /\ GoesTo(t, 5)
              \/ at[t] = 5 /\ SetsMonitor(t) /\ GoesTo(t, 6)
              \/ at[t] = 6 /\ Forgets(t) /\ GoesTo(t, 7)
              \/ at[t] = 7 /\ LeavesCritsec /\ GoesTo(t, 8)
              \/ at[t] = 8 /\ cs[t] # null /\ GoesTo(t, 9) /\ Nothing
              \/ at[t] = 8 /\ cs[t] = null /\ GoesOn(t) /\ Nothing
              \/ at[t] = 9 /\ FreesCs(t) /\ GoesOn(t)
<1>1. build \in DOMAIN OM!MonitorCode /\ InCode(t) /\ at[t] \in Nat
  BY DEF CallTypes
<1>2. Len(OM!Body(t)) = 9 /\ at[t] \in 1 .. 9 /\ build \in ShippedNames
  BY <1>1, CreateRuns
<1>3. /\ Onward(t) /\ at[t] + 1 <= 9 => GoesTo(t, at[t] + 1)
      /\ Onward(t) /\ ~(at[t] + 1 <= 9) => GoesOn(t)
      /\ Past(t) /\ at[t] + 1 + OM!Step(t).skip <= 9 => GoesTo(t, at[t] + 1 + OM!Step(t).skip)
      /\ Past(t) /\ ~(at[t] + 1 + OM!Step(t).skip <= 9) => GoesOn(t)
  BY <1>2, GoesIs DEF Onward, Past
<1>4. ~undefined
  BY <1>1, StepIs
<1>5. CASE at[t] = 1
  <2>1. OM!Step(t).do = "lock critsec" /\ OM!Step(t).skip = 0
    BY <1>1, <1>2, <1>5, CreateRuns DEF Runs
  <2>2. TakesCritsec(t) /\ Onward(t)
    BY <1>1, <2>1, StepIs
  <2>3. Onward(t) => GoesTo(t, 2)
    BY <1>3, <1>5
  <2> QED  BY <1>5, <1>2, <1>4, <2>2, <2>3, Zenon
<1>6. CASE at[t] = 2
  <2>1. OM!Step(t).do = "no monitor" /\ OM!Step(t).skip = 4
    BY <1>1, <1>2, <1>6, CreateRuns DEF Runs
  <2>2. Nothing /\ IF monitor[obj[t]] = null THEN Onward(t) ELSE Past(t)
    BY <1>1, <2>1, StepIs
  <2>3. Onward(t) => GoesTo(t, 3)
    BY <1>3, <1>6
  <2>4. at[t] + 1 + OM!Step(t).skip = 7
    <3>1. at[t] + 1 + OM!Step(t).skip = 2 + 1 + 4
      BY <1>6, <2>1, Zenon
    <3> QED  BY <3>1
  <2>5. Past(t) => GoesTo(t, 7)
    BY <1>3, <2>4
  <2> QED  BY <1>6, <1>2, <1>4, <2>2, <2>3, <2>5, Zenon
<1>7. CASE at[t] = 3
  <2>1. OM!Step(t).do = "calloc" /\ OM!Step(t).skip = 0
    BY <1>1, <1>2, <1>7, CreateRuns DEF Runs
  <2>2. Allocates(t) /\ Onward(t)
    BY <1>1, <2>1, StepIs
  <2>3. Onward(t) => GoesTo(t, 4)
    BY <1>3, <1>7
  <2> QED  BY <1>7, <1>2, <1>4, <2>2, <2>3, Zenon
<1>8. CASE at[t] = 4
  <2>1. OM!Step(t).do = InitStep(build) /\ OM!Step(t).skip = 0
    BY <1>1, <1>2, <1>8, CreateRuns DEF Runs
  <2>2. MakesMutex(t) /\ Onward(t)
    BY <1>1, <2>1, StepIs DEF InitStep
  <2>3. Onward(t) => GoesTo(t, 5)
    BY <1>3, <1>8
  <2> QED  BY <1>8, <1>2, <1>4, <2>2, <2>3, Zenon
<1>9. CASE at[t] = 5
  <2>1. OM!Step(t).do = "set monitor" /\ OM!Step(t).skip = 0
    BY <1>1, <1>2, <1>9, CreateRuns DEF Runs
  <2>2. SetsMonitor(t) /\ Onward(t)
    BY <1>1, <2>1, StepIs
  <2>3. Onward(t) => GoesTo(t, 6)
    BY <1>3, <1>9
  <2> QED  BY <1>9, <1>2, <1>4, <2>2, <2>3, Zenon
<1>10. CASE at[t] = 6
  <2>1. OM!Step(t).do = "forget cs" /\ OM!Step(t).skip = 0
    BY <1>1, <1>2, <1>10, CreateRuns DEF Runs
  <2>2. Forgets(t) /\ Onward(t)
    BY <1>1, <2>1, StepIs
  <2>3. Onward(t) => GoesTo(t, 7)
    BY <1>3, <1>10
  <2> QED  BY <1>10, <1>2, <1>4, <2>2, <2>3, Zenon
<1>11. CASE at[t] = 7
  <2>1. OM!Step(t).do = "unlock critsec" /\ OM!Step(t).skip = 0
    BY <1>1, <1>2, <1>11, CreateRuns DEF Runs
  <2>2. LeavesCritsec /\ Onward(t)
    BY <1>1, <2>1, StepIs
  <2>3. Onward(t) => GoesTo(t, 8)
    BY <1>3, <1>11
  <2> QED  BY <1>11, <1>2, <1>4, <2>2, <2>3, Zenon
<1>12. CASE at[t] = 8
  <2>1. OM!Step(t).do = "cs" /\ OM!Step(t).skip = 1
    BY <1>1, <1>2, <1>12, CreateRuns DEF Runs
  <2>2. Nothing /\ IF cs[t] # null THEN Onward(t) ELSE Past(t)
    BY <1>1, <2>1, StepIs
  <2>3. Onward(t) => GoesTo(t, 9)
    BY <1>3, <1>12
  <2>4. at[t] + 1 + OM!Step(t).skip = 10
    <3>1. at[t] + 1 + OM!Step(t).skip = 8 + 1 + 1
      BY <1>12, <2>1, Zenon
    <3> QED  BY <3>1
  <2>5. Past(t) => GoesOn(t)
    BY <1>3, <2>4
  <2> QED  BY <1>12, <1>2, <1>4, <2>2, <2>3, <2>5, Zenon
<1>13. CASE at[t] = 9
  <2>1. OM!Step(t).do = "free cs" /\ OM!Step(t).skip = 0
    BY <1>1, <1>2, <1>13, CreateRuns DEF Runs
  <2>2. FreesCs(t) /\ Onward(t)
    BY <1>1, <2>1, StepIs
  <2>3. Onward(t) => GoesOn(t)
    BY <1>3, <1>13
  <2> QED  BY <1>13, <1>2, <1>4, <2>2, <2>3, Zenon
<1>14. at[t] = 1 \/ at[t] = 2 \/ at[t] = 3 \/ at[t] = 4 \/ at[t] = 5 \/ at[t] = 6 \/ at[t] = 7 \/ at[t] = 8 \/ at[t] = 9
  BY <1>2
<1> QED
  BY <1>5, <1>6, <1>7, <1>8, <1>9, <1>10, <1>11, <1>12, <1>13, <1>14, Zenon

LEMMA EnterStep ==
    ASSUME CallTypes, NEW t \in Threads, fn[t] = "enter", OM!CallStep(t)
    PROVE  /\ ~undefined /\ build \notin ShippedNames
           /\ \/ at[t] = 1 /\ monitor[obj[t]] = null /\ GoesTo(t, 2) /\ Nothing
              \/ at[t] = 1 /\ monitor[obj[t]] # null /\ GoesTo(t, 11) /\ Nothing
              \/ at[t] = 2 /\ Allocates(t) /\ GoesTo(t, 3)
              \/ at[t] = 3 /\ TakesCritsec(t) /\ GoesTo(t, 4)
              \/ at[t] = 4 /\ monitor[obj[t]] = null /\ GoesTo(t, 5) /\ Nothing
              \/ at[t] = 4 /\ monitor[obj[t]] # null /\ GoesTo(t, 8) /\ Nothing
              \/ at[t] = 5 /\ SetsMonitor(t) /\ GoesTo(t, 6)
              \/ at[t] = 6 /\ MakesMutex(t) /\ GoesTo(t, 7)
              \/ at[t] = 7 /\ Forgets(t) /\ GoesTo(t, 8)
              \/ at[t] = 8 /\ LeavesCritsec /\ GoesTo(t, 9)
              \/ at[t] = 9 /\ cs[t] # null /\ GoesTo(t, 10) /\ Nothing
              \/ at[t] = 9 /\ cs[t] = null /\ GoesTo(t, 11) /\ Nothing
              \/ at[t] = 10 /\ FreesCs(t) /\ GoesTo(t, 11)
              \/ at[t] = 11 /\ Locks(t) /\ Returns(t)
              \/ at[t] = 11 /\ LocksRaw(t) /\ Returns(t)
<1>1. build \in DOMAIN OM!MonitorCode /\ InCode(t) /\ at[t] \in Nat
  BY DEF CallTypes
<1>2. Len(OM!Body(t)) = 11 /\ at[t] \in 1 .. 11 /\ build \notin ShippedNames
  BY <1>1, EnterRuns DEF EnterLength
<1>3. /\ Onward(t) /\ at[t] + 1 <= 11 => GoesTo(t, at[t] + 1)
      /\ Onward(t) /\ ~(at[t] + 1 <= 11) => Returns(t)
      /\ Past(t) /\ at[t] + 1 + OM!Step(t).skip <= 11 => GoesTo(t, at[t] + 1 + OM!Step(t).skip)
      /\ Past(t) /\ ~(at[t] + 1 + OM!Step(t).skip <= 11) => Returns(t)
  BY <1>2, GoesIs DEF Onward, Past
<1>4. ~undefined
  BY <1>1, StepIs
<1>5. CASE at[t] = 1
  <2>1. OM!Step(t).do = "no monitor" /\ OM!Step(t).skip = 9
    BY <1>1, <1>2, <1>5, EnterRuns DEF Runs
  <2>2. Nothing /\ IF monitor[obj[t]] = null THEN Onward(t) ELSE Past(t)
    BY <1>1, <2>1, StepIs
  <2>3. Onward(t) => GoesTo(t, 2)
    BY <1>3, <1>5
  <2>4. at[t] + 1 + OM!Step(t).skip = 11
    <3>1. at[t] + 1 + OM!Step(t).skip = 1 + 1 + 9
      BY <1>5, <2>1, Zenon
    <3> QED  BY <3>1
  <2>5. Past(t) => GoesTo(t, 11)
    BY <1>3, <2>4
  <2> QED  BY <1>5, <1>2, <1>4, <2>2, <2>3, <2>5, Zenon
<1>6. CASE at[t] = 2
  <2>1. OM!Step(t).do = "calloc" /\ OM!Step(t).skip = 0
    BY <1>1, <1>2, <1>6, EnterRuns DEF Runs
  <2>2. Allocates(t) /\ Onward(t)
    BY <1>1, <2>1, StepIs
  <2>3. Onward(t) => GoesTo(t, 3)
    BY <1>3, <1>6
  <2> QED  BY <1>6, <1>2, <1>4, <2>2, <2>3, Zenon
<1>7. CASE at[t] = 3
  <2>1. OM!Step(t).do = "lock critsec" /\ OM!Step(t).skip = 0
    BY <1>1, <1>2, <1>7, EnterRuns DEF Runs
  <2>2. TakesCritsec(t) /\ Onward(t)
    BY <1>1, <2>1, StepIs
  <2>3. Onward(t) => GoesTo(t, 4)
    BY <1>3, <1>7
  <2> QED  BY <1>7, <1>2, <1>4, <2>2, <2>3, Zenon
<1>8. CASE at[t] = 4
  <2>1. OM!Step(t).do = "no monitor" /\ OM!Step(t).skip = 3
    BY <1>1, <1>2, <1>8, EnterRuns DEF Runs
  <2>2. Nothing /\ IF monitor[obj[t]] = null THEN Onward(t) ELSE Past(t)
    BY <1>1, <2>1, StepIs
  <2>3. Onward(t) => GoesTo(t, 5)
    BY <1>3, <1>8
  <2>4. at[t] + 1 + OM!Step(t).skip = 8
    <3>1. at[t] + 1 + OM!Step(t).skip = 4 + 1 + 3
      BY <1>8, <2>1, Zenon
    <3> QED  BY <3>1
  <2>5. Past(t) => GoesTo(t, 8)
    BY <1>3, <2>4
  <2> QED  BY <1>8, <1>2, <1>4, <2>2, <2>3, <2>5, Zenon
<1>9. CASE at[t] = 5
  <2>1. OM!Step(t).do = "set monitor" /\ OM!Step(t).skip = 0
    BY <1>1, <1>2, <1>9, EnterRuns DEF Runs
  <2>2. SetsMonitor(t) /\ Onward(t)
    BY <1>1, <2>1, StepIs
  <2>3. Onward(t) => GoesTo(t, 6)
    BY <1>3, <1>9
  <2> QED  BY <1>9, <1>2, <1>4, <2>2, <2>3, Zenon
<1>10. CASE at[t] = 6
  <2>1. OM!Step(t).do = InitStep(build) /\ OM!Step(t).skip = 0
    BY <1>1, <1>2, <1>10, EnterRuns DEF Runs
  <2>2. MakesMutex(t) /\ Onward(t)
    BY <1>1, <2>1, StepIs DEF InitStep
  <2>3. Onward(t) => GoesTo(t, 7)
    BY <1>3, <1>10
  <2> QED  BY <1>10, <1>2, <1>4, <2>2, <2>3, Zenon
<1>11. CASE at[t] = 7
  <2>1. OM!Step(t).do = "forget cs" /\ OM!Step(t).skip = 0
    BY <1>1, <1>2, <1>11, EnterRuns DEF Runs
  <2>2. Forgets(t) /\ Onward(t)
    BY <1>1, <2>1, StepIs
  <2>3. Onward(t) => GoesTo(t, 8)
    BY <1>3, <1>11
  <2> QED  BY <1>11, <1>2, <1>4, <2>2, <2>3, Zenon
<1>12. CASE at[t] = 8
  <2>1. OM!Step(t).do = "unlock critsec" /\ OM!Step(t).skip = 0
    BY <1>1, <1>2, <1>12, EnterRuns DEF Runs
  <2>2. LeavesCritsec /\ Onward(t)
    BY <1>1, <2>1, StepIs
  <2>3. Onward(t) => GoesTo(t, 9)
    BY <1>3, <1>12
  <2> QED  BY <1>12, <1>2, <1>4, <2>2, <2>3, Zenon
<1>13. CASE at[t] = 9
  <2>1. OM!Step(t).do = "cs" /\ OM!Step(t).skip = 1
    BY <1>1, <1>2, <1>13, EnterRuns DEF Runs
  <2>2. Nothing /\ IF cs[t] # null THEN Onward(t) ELSE Past(t)
    BY <1>1, <2>1, StepIs
  <2>3. Onward(t) => GoesTo(t, 10)
    BY <1>3, <1>13
  <2>4. at[t] + 1 + OM!Step(t).skip = 11
    <3>1. at[t] + 1 + OM!Step(t).skip = 9 + 1 + 1
      BY <1>13, <2>1, Zenon
    <3> QED  BY <3>1
  <2>5. Past(t) => GoesTo(t, 11)
    BY <1>3, <2>4
  <2> QED  BY <1>13, <1>2, <1>4, <2>2, <2>3, <2>5, Zenon
<1>14. CASE at[t] = 10
  <2>1. OM!Step(t).do = "free cs" /\ OM!Step(t).skip = 0
    BY <1>1, <1>2, <1>14, EnterRuns DEF Runs
  <2>2. FreesCs(t) /\ Onward(t)
    BY <1>1, <2>1, StepIs
  <2>3. Onward(t) => GoesTo(t, 11)
    BY <1>3, <1>14
  <2> QED  BY <1>14, <1>2, <1>4, <2>2, <2>3, Zenon
<1>15. CASE at[t] = 11
  <2>1. OM!Step(t).do = "lock mutex" /\ OM!Step(t).skip = 0
    BY <1>1, <1>2, <1>15, EnterRuns DEF Runs
  <2>2. (Locks(t) \/ LocksRaw(t)) /\ Onward(t)
    BY <1>1, <2>1, StepIs
  <2>3. Onward(t) => Returns(t)
    BY <1>3, <1>15
  <2> QED  BY <1>15, <1>2, <1>4, <2>2, <2>3, Zenon
<1>16. at[t] = 1 \/ at[t] = 2 \/ at[t] = 3 \/ at[t] = 4 \/ at[t] = 5 \/ at[t] = 6 \/ at[t] = 7 \/ at[t] = 8 \/ at[t] = 9 \/ at[t] = 10 \/ at[t] = 11
  BY <1>2
<1> QED
  BY <1>5, <1>6, <1>7, <1>8, <1>9, <1>10, <1>11, <1>12, <1>13, <1>14, <1>15, <1>16, Zenon

LEMMA GetStep ==
    ASSUME CallTypes, NEW t \in Threads, fn[t] = "get", OM!CallStep(t)
    PROVE  /\ ~undefined /\ build \notin ShippedNames
           /\ \/ at[t] = 1 /\ monitor[obj[t]] = null /\ GoesTo(t, 2) /\ Nothing
              \/ at[t] = 1 /\ monitor[obj[t]] # null /\ Returns(t) /\ Nothing
              \/ at[t] = 2 /\ Allocates(t) /\ GoesTo(t, 3)
              \/ at[t] = 3 /\ TakesCritsec(t) /\ GoesTo(t, 4)
              \/ at[t] = 4 /\ monitor[obj[t]] = null /\ GoesTo(t, 5) /\ Nothing
              \/ at[t] = 4 /\ monitor[obj[t]] # null /\ GoesTo(t, 8) /\ Nothing
              \/ at[t] = 5 /\ SetsMonitor(t) /\ GoesTo(t, 6)
              \/ at[t] = 6 /\ MakesMutex(t) /\ GoesTo(t, 7)
              \/ at[t] = 7 /\ Forgets(t) /\ GoesTo(t, 8)
              \/ at[t] = 8 /\ LeavesCritsec /\ GoesTo(t, 9)
              \/ at[t] = 9 /\ cs[t] # null /\ GoesTo(t, 10) /\ Nothing
              \/ at[t] = 9 /\ cs[t] = null /\ Returns(t) /\ Nothing
              \/ at[t] = 10 /\ FreesCs(t) /\ Returns(t)
<1>1. build \in DOMAIN OM!MonitorCode /\ InCode(t) /\ at[t] \in Nat
  BY DEF CallTypes
<1>2. Len(OM!Body(t)) = 10 /\ at[t] \in 1 .. 10 /\ build \notin ShippedNames
  BY <1>1, EnterRuns DEF EnterLength
<1>3. /\ Onward(t) /\ at[t] + 1 <= 10 => GoesTo(t, at[t] + 1)
      /\ Onward(t) /\ ~(at[t] + 1 <= 10) => Returns(t)
      /\ Past(t) /\ at[t] + 1 + OM!Step(t).skip <= 10 => GoesTo(t, at[t] + 1 + OM!Step(t).skip)
      /\ Past(t) /\ ~(at[t] + 1 + OM!Step(t).skip <= 10) => Returns(t)
  BY <1>2, GoesIs DEF Onward, Past
<1>4. ~undefined
  BY <1>1, StepIs
<1>5. CASE at[t] = 1
  <2>1. OM!Step(t).do = "no monitor" /\ OM!Step(t).skip = 9
    BY <1>1, <1>2, <1>5, EnterRuns DEF Runs
  <2>2. Nothing /\ IF monitor[obj[t]] = null THEN Onward(t) ELSE Past(t)
    BY <1>1, <2>1, StepIs
  <2>3. Onward(t) => GoesTo(t, 2)
    BY <1>3, <1>5
  <2>4. at[t] + 1 + OM!Step(t).skip = 11
    <3>1. at[t] + 1 + OM!Step(t).skip = 1 + 1 + 9
      BY <1>5, <2>1, Zenon
    <3> QED  BY <3>1
  <2>5. Past(t) => Returns(t)
    BY <1>3, <2>4
  <2> QED  BY <1>5, <1>2, <1>4, <2>2, <2>3, <2>5, Zenon
<1>6. CASE at[t] = 2
  <2>1. OM!Step(t).do = "calloc" /\ OM!Step(t).skip = 0
    BY <1>1, <1>2, <1>6, EnterRuns DEF Runs
  <2>2. Allocates(t) /\ Onward(t)
    BY <1>1, <2>1, StepIs
  <2>3. Onward(t) => GoesTo(t, 3)
    BY <1>3, <1>6
  <2> QED  BY <1>6, <1>2, <1>4, <2>2, <2>3, Zenon
<1>7. CASE at[t] = 3
  <2>1. OM!Step(t).do = "lock critsec" /\ OM!Step(t).skip = 0
    BY <1>1, <1>2, <1>7, EnterRuns DEF Runs
  <2>2. TakesCritsec(t) /\ Onward(t)
    BY <1>1, <2>1, StepIs
  <2>3. Onward(t) => GoesTo(t, 4)
    BY <1>3, <1>7
  <2> QED  BY <1>7, <1>2, <1>4, <2>2, <2>3, Zenon
<1>8. CASE at[t] = 4
  <2>1. OM!Step(t).do = "no monitor" /\ OM!Step(t).skip = 3
    BY <1>1, <1>2, <1>8, EnterRuns DEF Runs
  <2>2. Nothing /\ IF monitor[obj[t]] = null THEN Onward(t) ELSE Past(t)
    BY <1>1, <2>1, StepIs
  <2>3. Onward(t) => GoesTo(t, 5)
    BY <1>3, <1>8
  <2>4. at[t] + 1 + OM!Step(t).skip = 8
    <3>1. at[t] + 1 + OM!Step(t).skip = 4 + 1 + 3
      BY <1>8, <2>1, Zenon
    <3> QED  BY <3>1
  <2>5. Past(t) => GoesTo(t, 8)
    BY <1>3, <2>4
  <2> QED  BY <1>8, <1>2, <1>4, <2>2, <2>3, <2>5, Zenon
<1>9. CASE at[t] = 5
  <2>1. OM!Step(t).do = "set monitor" /\ OM!Step(t).skip = 0
    BY <1>1, <1>2, <1>9, EnterRuns DEF Runs
  <2>2. SetsMonitor(t) /\ Onward(t)
    BY <1>1, <2>1, StepIs
  <2>3. Onward(t) => GoesTo(t, 6)
    BY <1>3, <1>9
  <2> QED  BY <1>9, <1>2, <1>4, <2>2, <2>3, Zenon
<1>10. CASE at[t] = 6
  <2>1. OM!Step(t).do = InitStep(build) /\ OM!Step(t).skip = 0
    BY <1>1, <1>2, <1>10, EnterRuns DEF Runs
  <2>2. MakesMutex(t) /\ Onward(t)
    BY <1>1, <2>1, StepIs DEF InitStep
  <2>3. Onward(t) => GoesTo(t, 7)
    BY <1>3, <1>10
  <2> QED  BY <1>10, <1>2, <1>4, <2>2, <2>3, Zenon
<1>11. CASE at[t] = 7
  <2>1. OM!Step(t).do = "forget cs" /\ OM!Step(t).skip = 0
    BY <1>1, <1>2, <1>11, EnterRuns DEF Runs
  <2>2. Forgets(t) /\ Onward(t)
    BY <1>1, <2>1, StepIs
  <2>3. Onward(t) => GoesTo(t, 8)
    BY <1>3, <1>11
  <2> QED  BY <1>11, <1>2, <1>4, <2>2, <2>3, Zenon
<1>12. CASE at[t] = 8
  <2>1. OM!Step(t).do = "unlock critsec" /\ OM!Step(t).skip = 0
    BY <1>1, <1>2, <1>12, EnterRuns DEF Runs
  <2>2. LeavesCritsec /\ Onward(t)
    BY <1>1, <2>1, StepIs
  <2>3. Onward(t) => GoesTo(t, 9)
    BY <1>3, <1>12
  <2> QED  BY <1>12, <1>2, <1>4, <2>2, <2>3, Zenon
<1>13. CASE at[t] = 9
  <2>1. OM!Step(t).do = "cs" /\ OM!Step(t).skip = 1
    BY <1>1, <1>2, <1>13, EnterRuns DEF Runs
  <2>2. Nothing /\ IF cs[t] # null THEN Onward(t) ELSE Past(t)
    BY <1>1, <2>1, StepIs
  <2>3. Onward(t) => GoesTo(t, 10)
    BY <1>3, <1>13
  <2>4. at[t] + 1 + OM!Step(t).skip = 11
    <3>1. at[t] + 1 + OM!Step(t).skip = 9 + 1 + 1
      BY <1>13, <2>1, Zenon
    <3> QED  BY <3>1
  <2>5. Past(t) => Returns(t)
    BY <1>3, <2>4
  <2> QED  BY <1>13, <1>2, <1>4, <2>2, <2>3, <2>5, Zenon
<1>14. CASE at[t] = 10
  <2>1. OM!Step(t).do = "free cs" /\ OM!Step(t).skip = 0
    BY <1>1, <1>2, <1>14, EnterRuns DEF Runs
  <2>2. FreesCs(t) /\ Onward(t)
    BY <1>1, <2>1, StepIs
  <2>3. Onward(t) => Returns(t)
    BY <1>3, <1>14
  <2> QED  BY <1>14, <1>2, <1>4, <2>2, <2>3, Zenon
<1>15. at[t] = 1 \/ at[t] = 2 \/ at[t] = 3 \/ at[t] = 4 \/ at[t] = 5 \/ at[t] = 6 \/ at[t] = 7 \/ at[t] = 8 \/ at[t] = 9 \/ at[t] = 10
  BY <1>2
<1> QED
  BY <1>5, <1>6, <1>7, <1>8, <1>9, <1>10, <1>11, <1>12, <1>13, <1>14, <1>15, Zenon

LEMMA CtorAttrStep ==
    ASSUME CallTypes, NEW t \in Threads, fn[t] = "staticctor", build \in AttrBuilds, OM!CallStep(t)
    PROVE  /\ ~undefined
           /\ \/ at[t] = 1 /\ ~inited /\ GoesTo(t, 2) /\ Nothing
              \/ at[t] = 1 /\ inited /\ Returns(t) /\ Nothing
              \/ at[t] = 2 /\ MakesAttr /\ GoesTo(t, 3)
              \/ at[t] = 3 /\ SetsType /\ GoesTo(t, 4)
              \/ at[t] = 4 /\ MakesCritsec /\ GoesTo(t, 5)
              \/ at[t] = 5 /\ SetsInited /\ Returns(t)
<1>1. build \in DOMAIN OM!MonitorCode /\ InCode(t) /\ at[t] \in Nat
  BY DEF CallTypes
<1>2. Len(OM!Body(t)) = 5 /\ at[t] \in 1 .. 5
  BY <1>1, CtorRuns
<1>3. /\ Onward(t) /\ at[t] + 1 <= 5 => GoesTo(t, at[t] + 1)
      /\ Onward(t) /\ ~(at[t] + 1 <= 5) => Returns(t)
      /\ Past(t) /\ at[t] + 1 + OM!Step(t).skip <= 5 => GoesTo(t, at[t] + 1 + OM!Step(t).skip)
      /\ Past(t) /\ ~(at[t] + 1 + OM!Step(t).skip <= 5) => Returns(t)
  BY <1>2, GoesIs DEF Onward, Past
<1>4. ~undefined
  BY <1>1, StepIs
<1>5. CASE at[t] = 1
  <2>1. OM!Step(t).do = "not inited" /\ OM!Step(t).skip = 4
    BY <1>1, <1>2, <1>5, CtorRuns DEF Runs
  <2>2. Nothing /\ IF ~inited THEN Onward(t) ELSE Past(t)
    BY <1>1, <2>1, StepIs
  <2>3. Onward(t) => GoesTo(t, 2)
    BY <1>3, <1>5
  <2>4. at[t] + 1 + OM!Step(t).skip = 6
    <3>1. at[t] + 1 + OM!Step(t).skip = 1 + 1 + 4
      BY <1>5, <2>1, Zenon
    <3> QED  BY <3>1
  <2>5. Past(t) => Returns(t)
    BY <1>3, <2>4
  <2> QED  BY <1>5, <1>2, <1>4, <2>2, <2>3, <2>5, Zenon
<1>6. CASE at[t] = 2
  <2>1. OM!Step(t).do = "init attr" /\ OM!Step(t).skip = 0
    BY <1>1, <1>2, <1>6, CtorRuns DEF Runs
  <2>2. MakesAttr /\ Onward(t)
    BY <1>1, <2>1, StepIs
  <2>3. Onward(t) => GoesTo(t, 3)
    BY <1>3, <1>6
  <2> QED  BY <1>6, <1>2, <1>4, <2>2, <2>3, Zenon
<1>7. CASE at[t] = 3
  <2>1. OM!Step(t).do = "set type of attr" /\ OM!Step(t).skip = 0
    BY <1>1, <1>2, <1>7, CtorRuns DEF Runs
  <2>2. SetsType /\ Onward(t)
    BY <1>1, <2>1, StepIs
  <2>3. Onward(t) => GoesTo(t, 4)
    BY <1>3, <1>7
  <2> QED  BY <1>7, <1>2, <1>4, <2>2, <2>3, Zenon
<1>8. CASE at[t] = 4
  <2>1. OM!Step(t).do = "init critsec" /\ OM!Step(t).skip = 0
    BY <1>1, <1>2, <1>8, CtorRuns DEF Runs
  <2>2. MakesCritsec /\ Onward(t)
    BY <1>1, <2>1, StepIs
  <2>3. Onward(t) => GoesTo(t, 5)
    BY <1>3, <1>8
  <2> QED  BY <1>8, <1>2, <1>4, <2>2, <2>3, Zenon
<1>9. CASE at[t] = 5
  <2>1. OM!Step(t).do = "set inited" /\ OM!Step(t).skip = 0
    BY <1>1, <1>2, <1>9, CtorRuns DEF Runs
  <2>2. SetsInited /\ Onward(t)
    BY <1>1, <2>1, StepIs
  <2>3. Onward(t) => Returns(t)
    BY <1>3, <1>9
  <2> QED  BY <1>9, <1>2, <1>4, <2>2, <2>3, Zenon
<1>10. at[t] = 1 \/ at[t] = 2 \/ at[t] = 3 \/ at[t] = 4 \/ at[t] = 5
  BY <1>2
<1> QED
  BY <1>5, <1>6, <1>7, <1>8, <1>9, <1>10, Zenon

LEMMA CtorPlainStep ==
    ASSUME CallTypes, NEW t \in Threads, fn[t] = "staticctor", build \notin AttrBuilds, OM!CallStep(t)
    PROVE  /\ ~undefined
           /\ \/ at[t] = 1 /\ ~inited /\ GoesTo(t, 2) /\ Nothing
              \/ at[t] = 1 /\ inited /\ Returns(t) /\ Nothing
              \/ at[t] = 2 /\ MakesCritsec /\ GoesTo(t, 3)
              \/ at[t] = 3 /\ SetsInited /\ Returns(t)
<1>1. build \in DOMAIN OM!MonitorCode /\ InCode(t) /\ at[t] \in Nat
  BY DEF CallTypes
<1>2. Len(OM!Body(t)) = 3 /\ at[t] \in 1 .. 3
  BY <1>1, CtorRuns
<1>3. /\ Onward(t) /\ at[t] + 1 <= 3 => GoesTo(t, at[t] + 1)
      /\ Onward(t) /\ ~(at[t] + 1 <= 3) => Returns(t)
      /\ Past(t) /\ at[t] + 1 + OM!Step(t).skip <= 3 => GoesTo(t, at[t] + 1 + OM!Step(t).skip)
      /\ Past(t) /\ ~(at[t] + 1 + OM!Step(t).skip <= 3) => Returns(t)
  BY <1>2, GoesIs DEF Onward, Past
<1>4. ~undefined
  BY <1>1, StepIs
<1>5. CASE at[t] = 1
  <2>1. OM!Step(t).do = "not inited" /\ OM!Step(t).skip = 2
    BY <1>1, <1>2, <1>5, CtorRuns DEF Runs
  <2>2. Nothing /\ IF ~inited THEN Onward(t) ELSE Past(t)
    BY <1>1, <2>1, StepIs
  <2>3. Onward(t) => GoesTo(t, 2)
    BY <1>3, <1>5
  <2>4. at[t] + 1 + OM!Step(t).skip = 4
    <3>1. at[t] + 1 + OM!Step(t).skip = 1 + 1 + 2
      BY <1>5, <2>1, Zenon
    <3> QED  BY <3>1
  <2>5. Past(t) => Returns(t)
    BY <1>3, <2>4
  <2> QED  BY <1>5, <1>2, <1>4, <2>2, <2>3, <2>5, Zenon
<1>6. CASE at[t] = 2
  <2>1. OM!Step(t).do = "init critsec" /\ OM!Step(t).skip = 0
    BY <1>1, <1>2, <1>6, CtorRuns DEF Runs
  <2>2. MakesCritsec /\ Onward(t)
    BY <1>1, <2>1, StepIs
  <2>3. Onward(t) => GoesTo(t, 3)
    BY <1>3, <1>6
  <2> QED  BY <1>6, <1>2, <1>4, <2>2, <2>3, Zenon
<1>7. CASE at[t] = 3
  <2>1. OM!Step(t).do = "set inited" /\ OM!Step(t).skip = 0
    BY <1>1, <1>2, <1>7, CtorRuns DEF Runs
  <2>2. SetsInited /\ Onward(t)
    BY <1>1, <2>1, StepIs
  <2>3. Onward(t) => Returns(t)
    BY <1>3, <1>7
  <2> QED  BY <1>7, <1>2, <1>4, <2>2, <2>3, Zenon
<1>8. at[t] = 1 \/ at[t] = 2 \/ at[t] = 3
  BY <1>2
<1> QED
  BY <1>5, <1>6, <1>7, <1>8, Zenon

LEMMA DtorAttrStep ==
    ASSUME CallTypes, NEW t \in Threads, fn[t] = "staticdtor", build \in AttrBuilds, OM!CallStep(t)
    PROVE  /\ ~undefined
           /\ \/ at[t] = 1 /\ inited /\ GoesTo(t, 2) /\ Nothing
              \/ at[t] = 1 /\ ~inited /\ Returns(t) /\ Nothing
              \/ at[t] = 2 /\ ClearsInited /\ GoesTo(t, 3)
              \/ at[t] = 3 /\ DeletesCritsec /\ GoesTo(t, 4)
              \/ at[t] = 4 /\ MakesAttr /\ Returns(t)
<1>1. build \in DOMAIN OM!MonitorCode /\ InCode(t) /\ at[t] \in Nat
  BY DEF CallTypes
<1>2. Len(OM!Body(t)) = 4 /\ at[t] \in 1 .. 4
  BY <1>1, DtorRuns
<1>3. /\ Onward(t) /\ at[t] + 1 <= 4 => GoesTo(t, at[t] + 1)
      /\ Onward(t) /\ ~(at[t] + 1 <= 4) => Returns(t)
      /\ Past(t) /\ at[t] + 1 + OM!Step(t).skip <= 4 => GoesTo(t, at[t] + 1 + OM!Step(t).skip)
      /\ Past(t) /\ ~(at[t] + 1 + OM!Step(t).skip <= 4) => Returns(t)
  BY <1>2, GoesIs DEF Onward, Past
<1>4. ~undefined
  BY <1>1, StepIs
<1>5. CASE at[t] = 1
  <2>1. OM!Step(t).do = "inited" /\ OM!Step(t).skip = 3
    BY <1>1, <1>2, <1>5, DtorRuns DEF Runs
  <2>2. Nothing /\ IF inited THEN Onward(t) ELSE Past(t)
    BY <1>1, <2>1, StepIs
  <2>3. Onward(t) => GoesTo(t, 2)
    BY <1>3, <1>5
  <2>4. at[t] + 1 + OM!Step(t).skip = 5
    <3>1. at[t] + 1 + OM!Step(t).skip = 1 + 1 + 3
      BY <1>5, <2>1, Zenon
    <3> QED  BY <3>1
  <2>5. Past(t) => Returns(t)
    BY <1>3, <2>4
  <2> QED  BY <1>5, <1>2, <1>4, <2>2, <2>3, <2>5, Zenon
<1>6. CASE at[t] = 2
  <2>1. OM!Step(t).do = "clear inited" /\ OM!Step(t).skip = 0
    BY <1>1, <1>2, <1>6, DtorRuns DEF Runs
  <2>2. ClearsInited /\ Onward(t)
    BY <1>1, <2>1, StepIs
  <2>3. Onward(t) => GoesTo(t, 3)
    BY <1>3, <1>6
  <2> QED  BY <1>6, <1>2, <1>4, <2>2, <2>3, Zenon
<1>7. CASE at[t] = 3
  <2>1. OM!Step(t).do = "delete critsec" /\ OM!Step(t).skip = 0
    BY <1>1, <1>2, <1>7, DtorRuns DEF Runs
  <2>2. DeletesCritsec /\ Onward(t)
    BY <1>1, <2>1, StepIs
  <2>3. Onward(t) => GoesTo(t, 4)
    BY <1>3, <1>7
  <2> QED  BY <1>7, <1>2, <1>4, <2>2, <2>3, Zenon
<1>8. CASE at[t] = 4
  <2>1. OM!Step(t).do = "delete attr" /\ OM!Step(t).skip = 0
    BY <1>1, <1>2, <1>8, DtorRuns DEF Runs
  <2>2. MakesAttr /\ Onward(t)
    BY <1>1, <2>1, StepIs
  <2>3. Onward(t) => Returns(t)
    BY <1>3, <1>8
  <2> QED  BY <1>8, <1>2, <1>4, <2>2, <2>3, Zenon
<1>9. at[t] = 1 \/ at[t] = 2 \/ at[t] = 3 \/ at[t] = 4
  BY <1>2
<1> QED
  BY <1>5, <1>6, <1>7, <1>8, <1>9, Zenon

LEMMA DtorKeepStep ==
    ASSUME CallTypes, NEW t \in Threads, fn[t] = "staticdtor", build \in KeepBuilds \ AttrBuilds, OM!CallStep(t)
    PROVE  /\ ~undefined
           /\ \/ at[t] = 1 /\ inited /\ GoesTo(t, 2) /\ Nothing
              \/ at[t] = 1 /\ ~inited /\ Returns(t) /\ Nothing
              \/ at[t] = 2 /\ ClearsInited /\ Returns(t)
<1>1. build \in DOMAIN OM!MonitorCode /\ InCode(t) /\ at[t] \in Nat
  BY DEF CallTypes
<1>2. Len(OM!Body(t)) = 2 /\ at[t] \in 1 .. 2
  BY <1>1, DtorRuns
<1>3. /\ Onward(t) /\ at[t] + 1 <= 2 => GoesTo(t, at[t] + 1)
      /\ Onward(t) /\ ~(at[t] + 1 <= 2) => Returns(t)
      /\ Past(t) /\ at[t] + 1 + OM!Step(t).skip <= 2 => GoesTo(t, at[t] + 1 + OM!Step(t).skip)
      /\ Past(t) /\ ~(at[t] + 1 + OM!Step(t).skip <= 2) => Returns(t)
  BY <1>2, GoesIs DEF Onward, Past
<1>4. ~undefined
  BY <1>1, StepIs
<1>5. CASE at[t] = 1
  <2>1. OM!Step(t).do = "inited" /\ OM!Step(t).skip = 1
    BY <1>1, <1>2, <1>5, DtorRuns DEF Runs
  <2>2. Nothing /\ IF inited THEN Onward(t) ELSE Past(t)
    BY <1>1, <2>1, StepIs
  <2>3. Onward(t) => GoesTo(t, 2)
    BY <1>3, <1>5
  <2>4. at[t] + 1 + OM!Step(t).skip = 3
    <3>1. at[t] + 1 + OM!Step(t).skip = 1 + 1 + 1
      BY <1>5, <2>1, Zenon
    <3> QED  BY <3>1
  <2>5. Past(t) => Returns(t)
    BY <1>3, <2>4
  <2> QED  BY <1>5, <1>2, <1>4, <2>2, <2>3, <2>5, Zenon
<1>6. CASE at[t] = 2
  <2>1. OM!Step(t).do = "clear inited" /\ OM!Step(t).skip = 0
    BY <1>1, <1>2, <1>6, DtorRuns DEF Runs
  <2>2. ClearsInited /\ Onward(t)
    BY <1>1, <2>1, StepIs
  <2>3. Onward(t) => Returns(t)
    BY <1>3, <1>6
  <2> QED  BY <1>6, <1>2, <1>4, <2>2, <2>3, Zenon
<1>7. at[t] = 1 \/ at[t] = 2
  BY <1>2
<1> QED
  BY <1>5, <1>6, <1>7, Zenon

LEMMA DtorPlainStep ==
    ASSUME CallTypes, NEW t \in Threads, fn[t] = "staticdtor", build \notin KeepBuilds \cup AttrBuilds, OM!CallStep(t)
    PROVE  /\ ~undefined
           /\ \/ at[t] = 1 /\ inited /\ GoesTo(t, 2) /\ Nothing
              \/ at[t] = 1 /\ ~inited /\ Returns(t) /\ Nothing
              \/ at[t] = 2 /\ ClearsInited /\ GoesTo(t, 3)
              \/ at[t] = 3 /\ DeletesCritsec /\ Returns(t)
<1>1. build \in DOMAIN OM!MonitorCode /\ InCode(t) /\ at[t] \in Nat
  BY DEF CallTypes
<1>2. Len(OM!Body(t)) = 3 /\ at[t] \in 1 .. 3
  BY <1>1, DtorRuns
<1>3. /\ Onward(t) /\ at[t] + 1 <= 3 => GoesTo(t, at[t] + 1)
      /\ Onward(t) /\ ~(at[t] + 1 <= 3) => Returns(t)
      /\ Past(t) /\ at[t] + 1 + OM!Step(t).skip <= 3 => GoesTo(t, at[t] + 1 + OM!Step(t).skip)
      /\ Past(t) /\ ~(at[t] + 1 + OM!Step(t).skip <= 3) => Returns(t)
  BY <1>2, GoesIs DEF Onward, Past
<1>4. ~undefined
  BY <1>1, StepIs
<1>5. CASE at[t] = 1
  <2>1. OM!Step(t).do = "inited" /\ OM!Step(t).skip = 2
    BY <1>1, <1>2, <1>5, DtorRuns DEF Runs
  <2>2. Nothing /\ IF inited THEN Onward(t) ELSE Past(t)
    BY <1>1, <2>1, StepIs
  <2>3. Onward(t) => GoesTo(t, 2)
    BY <1>3, <1>5
  <2>4. at[t] + 1 + OM!Step(t).skip = 4
    <3>1. at[t] + 1 + OM!Step(t).skip = 1 + 1 + 2
      BY <1>5, <2>1, Zenon
    <3> QED  BY <3>1
  <2>5. Past(t) => Returns(t)
    BY <1>3, <2>4
  <2> QED  BY <1>5, <1>2, <1>4, <2>2, <2>3, <2>5, Zenon
<1>6. CASE at[t] = 2
  <2>1. OM!Step(t).do = "clear inited" /\ OM!Step(t).skip = 0
    BY <1>1, <1>2, <1>6, DtorRuns DEF Runs
  <2>2. ClearsInited /\ Onward(t)
    BY <1>1, <2>1, StepIs
  <2>3. Onward(t) => GoesTo(t, 3)
    BY <1>3, <1>6
  <2> QED  BY <1>6, <1>2, <1>4, <2>2, <2>3, Zenon
<1>7. CASE at[t] = 3
  <2>1. OM!Step(t).do = "delete critsec" /\ OM!Step(t).skip = 0
    BY <1>1, <1>2, <1>7, DtorRuns DEF Runs
  <2>2. DeletesCritsec /\ Onward(t)
    BY <1>1, <2>1, StepIs
  <2>3. Onward(t) => Returns(t)
    BY <1>3, <1>7
  <2> QED  BY <1>7, <1>2, <1>4, <2>2, <2>3, Zenon
<1>8. at[t] = 1 \/ at[t] = 2 \/ at[t] = 3
  BY <1>2
<1> QED
  BY <1>5, <1>6, <1>7, <1>8, Zenon

LEMMA LockStep ==
    ASSUME CallTypes, NEW t \in Threads, fn[t] = "lock", OM!CallStep(t)
    PROVE  /\ ~undefined /\ build \in ShippedNames
           /\ \/ at[t] = 1 /\ Locks(t) /\ Returns(t)
              \/ at[t] = 1 /\ LocksRaw(t) /\ Returns(t)
<1>1. build \in DOMAIN OM!MonitorCode /\ InCode(t) /\ at[t] \in Nat
  BY DEF CallTypes
<1>2. Len(OM!Body(t)) = 1 /\ at[t] \in 1 .. 1 /\ build \in ShippedNames
  <2>1. Len(OM!Body(t)) = 1 /\ at[t] = 1 /\ build \in ShippedNames
    BY <1>1, OtherRuns, Zenon
  <2> QED  BY <2>1
<1>3. /\ Onward(t) /\ at[t] + 1 <= 1 => GoesTo(t, at[t] + 1)
      /\ Onward(t) /\ ~(at[t] + 1 <= 1) => Returns(t)
      /\ Past(t) /\ at[t] + 1 + OM!Step(t).skip <= 1 => GoesTo(t, at[t] + 1 + OM!Step(t).skip)
      /\ Past(t) /\ ~(at[t] + 1 + OM!Step(t).skip <= 1) => Returns(t)
  BY <1>2, GoesIs DEF Onward, Past
<1>4. ~undefined
  BY <1>1, StepIs
<1>5. CASE at[t] = 1
  <2>1. OM!Step(t).do = "lock mutex" /\ OM!Step(t).skip = 0
    BY <1>1, <1>2, <1>5, OtherRuns DEF Runs
  <2>2. (Locks(t) \/ LocksRaw(t)) /\ Onward(t)
    BY <1>1, <2>1, StepIs
  <2>3. Onward(t) => Returns(t)
    BY <1>3, <1>5
  <2> QED  BY <1>5, <1>2, <1>4, <2>2, <2>3, Zenon
<1>6. at[t] = 1
  BY <1>2
<1> QED
  BY <1>5, <1>6, Zenon

LEMMA UnlockStep ==
    ASSUME CallTypes, NEW t \in Threads, fn[t] \in {"unlock", "exit"}, OM!CallStep(t)
    PROVE  /\ ~undefined
           /\ \/ at[t] = 1 /\ Unlocks(t) /\ Returns(t)
<1>1. build \in DOMAIN OM!MonitorCode /\ InCode(t) /\ at[t] \in Nat
  BY DEF CallTypes
<1>2. Len(OM!Body(t)) = 1 /\ at[t] \in 1 .. 1
  <2>1. Len(OM!Body(t)) = 1 /\ at[t] = 1
    BY <1>1, OtherRuns, Zenon
  <2> QED  BY <2>1
<1>3. /\ Onward(t) /\ at[t] + 1 <= 1 => GoesTo(t, at[t] + 1)
      /\ Onward(t) /\ ~(at[t] + 1 <= 1) => Returns(t)
      /\ Past(t) /\ at[t] + 1 + OM!Step(t).skip <= 1 => GoesTo(t, at[t] + 1 + OM!Step(t).skip)
      /\ Past(t) /\ ~(at[t] + 1 + OM!Step(t).skip <= 1) => Returns(t)
  BY <1>2, GoesIs DEF Onward, Past
<1>4. ~undefined
  BY <1>1, StepIs
<1>5. CASE at[t] = 1
  <2>1. OM!Step(t).do = "unlock mutex" /\ OM!Step(t).skip = 0
    BY <1>1, <1>2, <1>5, OtherRuns DEF Runs
  <2>2. Unlocks(t) /\ Onward(t)
    BY <1>1, <2>1, StepIs
  <2>3. Onward(t) => Returns(t)
    BY <1>3, <1>5
  <2> QED  BY <1>5, <1>2, <1>4, <2>2, <2>3, Zenon
<1>6. at[t] = 1
  BY <1>2
<1> QED
  BY <1>5, <1>6, Zenon

LEMMA DestroyStep ==
    ASSUME CallTypes, NEW t \in Threads, fn[t] = "destroy", OM!CallStep(t)
    PROVE  /\ ~undefined /\ build \in ShippedNames
           /\ \/ at[t] = 1 /\ DeletesMutex(t) /\ GoesTo(t, 2)
              \/ at[t] = 2 /\ FreesMonitor(t) /\ GoesTo(t, 3)
              \/ at[t] = 3 /\ ClearsMonitor(t) /\ Returns(t)
<1>1. build \in DOMAIN OM!MonitorCode /\ InCode(t) /\ at[t] \in Nat
  BY DEF CallTypes
<1>2. Len(OM!Body(t)) = 3 /\ at[t] \in 1 .. 3 /\ build \in ShippedNames
  BY <1>1, OtherRuns
<1>3. /\ Onward(t) /\ at[t] + 1 <= 3 => GoesTo(t, at[t] + 1)
      /\ Onward(t) /\ ~(at[t] + 1 <= 3) => Returns(t)
      /\ Past(t) /\ at[t] + 1 + OM!Step(t).skip <= 3 => GoesTo(t, at[t] + 1 + OM!Step(t).skip)
      /\ Past(t) /\ ~(at[t] + 1 + OM!Step(t).skip <= 3) => Returns(t)
  BY <1>2, GoesIs DEF Onward, Past
<1>4. ~undefined
  BY <1>1, StepIs
<1>5. CASE at[t] = 1
  <2>1. OM!Step(t).do = "delete mutex" /\ OM!Step(t).skip = 0
    BY <1>1, <1>2, <1>5, OtherRuns DEF Runs
  <2>2. DeletesMutex(t) /\ Onward(t)
    BY <1>1, <2>1, StepIs
  <2>3. Onward(t) => GoesTo(t, 2)
    BY <1>3, <1>5
  <2> QED  BY <1>5, <1>2, <1>4, <2>2, <2>3, Zenon
<1>6. CASE at[t] = 2
  <2>1. OM!Step(t).do = "free monitor" /\ OM!Step(t).skip = 0
    BY <1>1, <1>2, <1>6, OtherRuns DEF Runs
  <2>2. FreesMonitor(t) /\ Onward(t)
    BY <1>1, <2>1, StepIs
  <2>3. Onward(t) => GoesTo(t, 3)
    BY <1>3, <1>6
  <2> QED  BY <1>6, <1>2, <1>4, <2>2, <2>3, Zenon
<1>7. CASE at[t] = 3
  <2>1. OM!Step(t).do = "clear monitor" /\ OM!Step(t).skip = 0
    BY <1>1, <1>2, <1>7, OtherRuns DEF Runs
  <2>2. ClearsMonitor(t) /\ Onward(t)
    BY <1>1, <2>1, StepIs
  <2>3. Onward(t) => Returns(t)
    BY <1>3, <1>7
  <2> QED  BY <1>7, <1>2, <1>4, <2>2, <2>3, Zenon
<1>8. at[t] = 1 \/ at[t] = 2 \/ at[t] = 3
  BY <1>2
<1> QED
  BY <1>5, <1>6, <1>7, <1>8, Zenon

LEMMA ReleaseStep ==
    ASSUME CallTypes, NEW t \in Threads, fn[t] = "release", OM!CallStep(t)
    PROVE  /\ ~undefined
           /\ \/ at[t] = 1 /\ monitor[obj[t]] # null /\ GoesTo(t, 2) /\ Nothing
              \/ at[t] = 1 /\ monitor[obj[t]] = null /\ Returns(t) /\ Nothing
              \/ at[t] = 2 /\ DeletesMutex(t) /\ GoesTo(t, 3)
              \/ at[t] = 3 /\ FreesMonitor(t) /\ GoesTo(t, 4)
              \/ at[t] = 4 /\ ClearsMonitor(t) /\ Returns(t)
<1>1. build \in DOMAIN OM!MonitorCode /\ InCode(t) /\ at[t] \in Nat
  BY DEF CallTypes
<1>2. Len(OM!Body(t)) = 4 /\ at[t] \in 1 .. 4
  BY <1>1, OtherRuns
<1>3. /\ Onward(t) /\ at[t] + 1 <= 4 => GoesTo(t, at[t] + 1)
      /\ Onward(t) /\ ~(at[t] + 1 <= 4) => Returns(t)
      /\ Past(t) /\ at[t] + 1 + OM!Step(t).skip <= 4 => GoesTo(t, at[t] + 1 + OM!Step(t).skip)
      /\ Past(t) /\ ~(at[t] + 1 + OM!Step(t).skip <= 4) => Returns(t)
  BY <1>2, GoesIs DEF Onward, Past
<1>4. ~undefined
  BY <1>1, StepIs
<1>5. CASE at[t] = 1
  <2>1. OM!Step(t).do = "monitor" /\ OM!Step(t).skip = 3
    BY <1>1, <1>2, <1>5, OtherRuns DEF Runs
  <2>2. Nothing /\ IF monitor[obj[t]] # null THEN Onward(t) ELSE Past(t)
    BY <1>1, <2>1, StepIs
  <2>3. Onward(t) => GoesTo(t, 2)
    BY <1>3, <1>5
  <2>4. at[t] + 1 + OM!Step(t).skip = 5
    <3>1. at[t] + 1 + OM!Step(t).skip = 1 + 1 + 3
      BY <1>5, <2>1, Zenon
    <3> QED  BY <3>1
  <2>5. Past(t) => Returns(t)
    BY <1>3, <2>4
  <2> QED  BY <1>5, <1>2, <1>4, <2>2, <2>3, <2>5, Zenon
<1>6. CASE at[t] = 2
  <2>1. OM!Step(t).do = "delete mutex" /\ OM!Step(t).skip = 0
    BY <1>1, <1>2, <1>6, OtherRuns DEF Runs
  <2>2. DeletesMutex(t) /\ Onward(t)
    BY <1>1, <2>1, StepIs
  <2>3. Onward(t) => GoesTo(t, 3)
    BY <1>3, <1>6
  <2> QED  BY <1>6, <1>2, <1>4, <2>2, <2>3, Zenon
<1>7. CASE at[t] = 3
  <2>1. OM!Step(t).do = "free monitor" /\ OM!Step(t).skip = 0
    BY <1>1, <1>2, <1>7, OtherRuns DEF Runs
  <2>2. FreesMonitor(t) /\ Onward(t)
    BY <1>1, <2>1, StepIs
  <2>3. Onward(t) => GoesTo(t, 4)
    BY <1>3, <1>7
  <2> QED  BY <1>7, <1>2, <1>4, <2>2, <2>3, Zenon
<1>8. CASE at[t] = 4
  <2>1. OM!Step(t).do = "clear monitor" /\ OM!Step(t).skip = 0
    BY <1>1, <1>2, <1>8, OtherRuns DEF Runs
  <2>2. ClearsMonitor(t) /\ Onward(t)
    BY <1>1, <2>1, StepIs
  <2>3. Onward(t) => Returns(t)
    BY <1>3, <1>8
  <2> QED  BY <1>8, <1>2, <1>4, <2>2, <2>3, Zenon
<1>9. at[t] = 1 \/ at[t] = 2 \/ at[t] = 3 \/ at[t] = 4
  BY <1>2
<1> QED
  BY <1>5, <1>6, <1>7, <1>8, <1>9, Zenon

-----------------------------------------------------------------------------
(* Types of the calls                                                      *)

\* All tests jump forward.
LEMMA SkipIs ==
    ASSUME NEW t, build \in DOMAIN OM!MonitorCode, InCode(t), fn[t] \in Functions
    PROVE  OM!Step(t).skip \in Nat
<1> DEFINE n == OM!Step(t).skip
           Short == n = 0 \/ n = 1 \/ n = 2 \/ n = 3 \/ n = 4 \/ n = 9
<1>0. Short => n \in Nat
  OBVIOUS
<1>1. CASE fn[t] = "create"
  <2>1. at[t] \in 1 .. 9
    BY <1>1, CreateRuns
  <2>2. at[t] = 1 \/ at[t] = 2 \/ at[t] = 3 \/ at[t] = 4 \/ at[t] = 5 \/ at[t] = 6 \/ at[t] = 7 \/ at[t] = 8 \/ at[t] = 9
    BY <2>1
  <2>3. Short
    BY <1>1, <2>2, CreateRuns DEF Runs
  <2> QED  BY <1>0, <2>3
<1>2. CASE fn[t] = "enter"
  <2>1. at[t] \in 1 .. 11
    BY <1>2, EnterRuns DEF EnterLength
  <2>2. at[t] = 1 \/ at[t] = 2 \/ at[t] = 3 \/ at[t] = 4 \/ at[t] = 5 \/ at[t] = 6 \/ at[t] = 7 \/ at[t] = 8 \/ at[t] = 9 \/ at[t] = 10 \/ at[t] = 11
    BY <2>1
  <2>3. Short
    BY <1>2, <2>2, EnterRuns DEF Runs
  <2> QED  BY <1>0, <2>3
<1>3. CASE fn[t] = "get"
  <2>1. at[t] \in 1 .. 10
    BY <1>3, EnterRuns DEF EnterLength
  <2>2. at[t] = 1 \/ at[t] = 2 \/ at[t] = 3 \/ at[t] = 4 \/ at[t] = 5 \/ at[t] = 6 \/ at[t] = 7 \/ at[t] = 8 \/ at[t] = 9 \/ at[t] = 10
    BY <2>1
  <2>3. Short
    BY <1>3, <2>2, EnterRuns DEF Runs
  <2> QED  BY <1>0, <2>3
<1>4. CASE fn[t] = "staticctor" /\ build \in AttrBuilds
  <2>1. at[t] \in 1 .. 5
    BY <1>4, CtorRuns
  <2>2. at[t] = 1 \/ at[t] = 2 \/ at[t] = 3 \/ at[t] = 4 \/ at[t] = 5
    BY <2>1
  <2>3. Short
    BY <1>4, <2>2, CtorRuns DEF Runs
  <2> QED  BY <1>0, <2>3
<1>5. CASE fn[t] = "staticctor" /\ build \notin AttrBuilds
  <2>1. at[t] \in 1 .. 3
    BY <1>5, CtorRuns
  <2>2. at[t] = 1 \/ at[t] = 2 \/ at[t] = 3
    BY <2>1
  <2>3. Short
    BY <1>5, <2>2, CtorRuns DEF Runs
  <2> QED  BY <1>0, <2>3
<1>6. CASE fn[t] = "staticdtor" /\ build \in AttrBuilds
  <2>1. at[t] \in 1 .. 4
    BY <1>6, DtorRuns
  <2>2. at[t] = 1 \/ at[t] = 2 \/ at[t] = 3 \/ at[t] = 4
    BY <2>1
  <2>3. Short
    BY <1>6, <2>2, DtorRuns DEF Runs
  <2> QED  BY <1>0, <2>3
<1>7. CASE fn[t] = "staticdtor" /\ build \in KeepBuilds \ AttrBuilds
  <2>1. at[t] \in 1 .. 2
    BY <1>7, DtorRuns
  <2>2. at[t] = 1 \/ at[t] = 2
    BY <2>1
  <2>3. Short
    BY <1>7, <2>2, DtorRuns DEF Runs
  <2> QED  BY <1>0, <2>3
<1>8. CASE fn[t] = "staticdtor" /\ build \notin KeepBuilds \cup AttrBuilds
  <2>1. at[t] \in 1 .. 3
    BY <1>8, DtorRuns
  <2>2. at[t] = 1 \/ at[t] = 2 \/ at[t] = 3
    BY <2>1
  <2>3. Short
    BY <1>8, <2>2, DtorRuns DEF Runs
  <2> QED  BY <1>0, <2>3
<1>9. CASE fn[t] = "lock"
  <2>1. OM!Step(t).skip = 0
    BY <1>9, OtherRuns, Zenon DEF Runs
  <2> QED  BY <1>0, <2>1
<1>10. CASE fn[t] \in {"unlock", "exit"}
  <2>1. OM!Step(t).skip = 0
    BY <1>10, OtherRuns, Zenon DEF Runs
  <2> QED  BY <1>0, <2>1
<1>11. CASE fn[t] = "destroy"
  <2>1. at[t] \in 1 .. 3
    BY <1>11, OtherRuns, Zenon
  <2>2. at[t] = 1 \/ at[t] = 2 \/ at[t] = 3
    BY <2>1
  <2>3. Short
    BY <1>11, <2>2, OtherRuns, Zenon DEF Runs
  <2> QED  BY <1>0, <2>3
<1>12. CASE fn[t] = "release"
  <2>1. at[t] \in 1 .. 4
    BY <1>12, OtherRuns, Zenon
  <2>2. at[t] = 1 \/ at[t] = 2 \/ at[t] = 3 \/ at[t] = 4
    BY <2>1
  <2>3. Short
    BY <1>12, <2>2, OtherRuns, Zenon DEF Runs
  <2> QED  BY <1>0, <2>3
<1> QED
  BY <1>1, <1>2, <1>3, <1>4, <1>5, <1>6, <1>7, <1>8, <1>9, <1>10, <1>11, <1>12 DEF Functions

\* From create a thread gets to lock.
LEMMA LockIsThere ==
    ASSUME build \in DOMAIN OM!MonitorCode, build \in ShippedNames
    PROVE  OM!Is("lock") /\ Len(OM!MonitorCode[build]["lock"]) = 1
<1>1. OM!MonitorCode[build] = OM!Shipped(Ctor(build), Dtor(build), OM!Create(InitStep(build)))
  BY CopiesAre DEF CopyOf
<1>2. LooksShipped(OM!MonitorCode[build], Ctor(build), Dtor(build), OM!Create(InitStep(build)))
  BY <1>1, ShippedIs, Zenon
<1> QED  BY <1>2 DEF LooksShipped, OM!Is

LEMMA CallTypesKept ==
    ASSUME CallTypes, NEW t \in Threads, fn[t] # "none", OM!CallStep(t)
    PROVE  CallTypes'
<1>1. /\ build \in DOMAIN OM!MonitorCode /\ InCode(t) /\ at[t] \in Nat /\ fn[t] \in Functions
  BY DEF CallTypes
<1>2. OM!Step(t).skip \in Nat
  BY <1>1, SkipIs
<1>3. Onward(t) \/ Past(t)
  BY <1>1, StepIs
<1>4. PICK to \in Nat \ {0} : OM!Goes(t, to)
  <2>1. at[t] + 1 \in Nat \ {0} /\ at[t] + 1 + OM!Step(t).skip \in Nat \ {0}
    BY <1>1, <1>2
  <2> QED  BY <1>3, <2>1 DEF Onward, Past
<1>5. fn[t] = "create" => build \in ShippedNames
  BY <1>1, CreateRuns
<1>6. CASE to <= Len(OM!Body(t))
  <2>1. GoesTo(t, to)
    BY <1>4, <1>6, GoesIs
  <2>2. ASSUME NEW u \in Threads, fn'[u] # "none" PROVE InCode(u)'
    <3>1. CASE u = t
      <4>1. fn'[t] = fn[t] /\ at'[t] = to /\ build' = build
        BY <2>1 DEF GoesTo, Moves, CallTypes
      <4>2. Len(OM!Body(t)) \in Nat
        BY <1>1 DEF InCode
      <4> QED  BY <1>1, <1>4, <1>6, <3>1, <4>1 DEF InCode, OM!Is, OM!Body
    <3>2. CASE u # t
      BY <2>1, <2>2, <3>2 DEF GoesTo, Moves, CallTypes, InCode, OM!Is, OM!Body
    <3> QED  BY <3>1, <3>2
  <2> QED  BY <1>1, <1>4, <2>1, <2>2 DEF GoesTo, Moves, CallTypes
<1>7. CASE ~(to <= Len(OM!Body(t))) /\ fn[t] = "create"
  <2>1. GoesOn(t)
    BY <1>4, <1>7, GoesIs
  <2>2. ASSUME NEW u \in Threads, fn'[u] # "none" PROVE InCode(u)'
    <3>1. CASE u = t
      <4>1. fn'[t] = "lock" /\ at'[t] = 1 /\ build' = build
        BY <2>1 DEF GoesOn, Moves, CallTypes
      <4>2. OM!Is(fn[t])' /\ Len(OM!Body(t)') = 1
        BY <1>1, <1>5, <1>7, <4>1, LockIsThere DEF OM!Is, OM!Body
      <4>3. at'[t] \in 1 .. Len(OM!Body(t)')
        BY <4>1, <4>2
      <4> QED  BY <3>1, <4>2, <4>3 DEF InCode
    <3>2. CASE u # t
      BY <2>1, <2>2, <3>2 DEF GoesOn, Moves, CallTypes, InCode, OM!Is, OM!Body
    <3> QED  BY <3>1, <3>2
  <2> QED  BY <1>1, <2>1, <2>2 DEF GoesOn, Moves, CallTypes, Functions
<1>8. CASE ~(to <= Len(OM!Body(t))) /\ fn[t] # "create"
  <2>1. Returns(t)
    BY <1>4, <1>8, GoesIs
  <2>2. ASSUME NEW u \in Threads, fn'[u] # "none" PROVE InCode(u)'
    <3>1. u # t
      BY <2>1, <2>2 DEF Returns, Moves, CallTypes
    <3> QED  BY <2>1, <2>2, <3>1 DEF Returns, Moves, CallTypes, InCode, OM!Is, OM!Body
  <2> QED  BY <2>1, <2>2 DEF Returns, Moves, CallTypes
<1> QED  BY <1>6, <1>7, <1>8

-----------------------------------------------------------------------------
(* What one step leaves alone                                              *)

LEMMA Places ==
    ASSUME NEW t
    PROVE  /\ Empty(t) => Locked(t) /\ ~Known(t) /\ ~Linked(t)
           /\ Linked(t) => Known(t) /\ Hand(t)
           /\ Unready(t) => Linked(t) /\ ~Made(t)
           /\ Hand(t) => MayHand(t)
           /\ Made(t) => Hand(t)
           /\ Gone(t) \/ Clearing(t) => Deletes(t)
           /\ Deletes(t) => Known(t) /\ ~MayHand(t) /\ ~Unlocking(t) /\ ~Locked(t)
           /\ Unlocking(t) => Known(t) /\ ~MayHand(t)
<1> USE DEF Locked, Hand, MayHand, Made, Empty, Known, Linked, Unready, Deletes, Gone, Clearing,
            Unlocking, InCreate, InEnter
<1>1. Empty(t) => Locked(t) /\ ~Known(t) /\ ~Linked(t)
  OBVIOUS
<1>2. Linked(t) => Known(t) /\ Hand(t)
  OBVIOUS
<1>3. Unready(t) => Linked(t) /\ ~Made(t)
  OBVIOUS
<1>4. Gone(t) \/ Clearing(t) => Deletes(t)
  OBVIOUS
<1>5. Deletes(t) => Known(t) /\ ~MayHand(t) /\ ~Unlocking(t) /\ ~Locked(t)
  OBVIOUS
<1>6. Unlocking(t) => Known(t) /\ ~MayHand(t)
  OBVIOUS
<1>7. (Hand(t) => MayHand(t)) /\ (Made(t) => Hand(t))
  OBVIOUS
<1> QED  BY <1>1, <1>2, <1>3, <1>4, <1>5, <1>6, <1>7

LEMMA OthersStay ==
    ASSUME CallTypes, NEW t \in Threads, NEW f, NEW i, NEW o, Moves(t, f, i, o)
    PROVE  Others(t)
<1> SUFFICES ASSUME NEW u \in Threads, u # t
             PROVE  /\ obj'[u] = obj[u]
                    /\ Locked(u)' <=> Locked(u)
                    /\ Hand(u)' <=> Hand(u)
                    /\ MayHand(u)' <=> MayHand(u)
                    /\ Made(u)' <=> Made(u)
                    /\ Empty(u)' <=> Empty(u)
                    /\ Known(u)' <=> Known(u)
                    /\ Linked(u)' <=> Linked(u)
                    /\ Unready(u)' <=> Unready(u)
                    /\ Deletes(u)' <=> Deletes(u)
                    /\ Gone(u)' <=> Gone(u)
                    /\ Clearing(u)' <=> Clearing(u)
                    /\ Unlocking(u)' <=> Unlocking(u)
  BY DEF Others
<1>1. fn'[u] = fn[u] /\ at'[u] = at[u] /\ obj'[u] = obj[u]
  BY DEF Moves, CallTypes
<1> QED
  BY <1>1 DEF Locked, Hand, MayHand, Made, Empty, Known, Linked, Unready, Deletes, Gone, Clearing,
              Unlocking, InCreate, InEnter

LEMMA QuietKeeps ==
    ASSUME Heap, NEW t \in Threads, Others(t), \A u \in Threads : Deletes(u) => obj[u] # null,
           UNCHANGED <<cs, monitor, heap, owner, depth, holds>>,
           Plain(t), Plain(t)',
           (cs[t] # null => MayHand(t)') /\ (Hand(t)' => cs[t] # null) /\ ~Made(t) /\ ~Made(t)',
           Empty(t)' => monitor[obj[t]] = null /\ obj'[t] = obj[t],
           Known(t)' => monitor[obj[t]] # null /\ obj'[t] = obj[t],
           Deletes(t)' => Deletes(t) /\ obj'[t] = obj[t],
           obj'[t] = obj[t] \/ obj'[t] = null
    PROVE  Heap'
<1> USE DEF Heap
<1>1. Blocks'
  BY DEF Blocks, Others
<1>2. MonitorKnown'
  BY DEF MonitorKnown, Others, Plain
<1>3. \A o \in Objects : Stale(o)' <=> Stale(o)
  BY DEF Stale, Others, Plain
<1>4. MonitorHeap'
  BY <1>3 DEF MonitorHeap, Others, Plain
<1>5. Unshared'
  BY <1>3 DEF Unshared, Others, Plain
<1>6. Accounted'
  BY <1>3 DEF Accounted
<1>7. LocksKept'
  BY DEF LocksKept, Others, Plain
<1>8. DeleterAlone'
  BY DEF DeleterAlone, Others, Plain
<1> QED  BY <1>1, <1>2, <1>4, <1>5, <1>6, <1>7, <1>8

LEMMA AllocatesKeeps ==
    ASSUME Heap, DataTypes, NEW t \in Threads, Stays(t), Allocates(t), null \notin Monitors,
           Plain(t), Plain(t)', ~Deletes(t), ~MayHand(t), Hand(t)', MayHand(t)', ~Made(t)'
    PROVE  DataTypes' /\ Heap'
<1> USE DEF Heap
<1>1. PICK m \in Monitors : /\ heap[m] = "free"
                            /\ heap' = [heap EXCEPT ![m] = "raw"]
                            /\ cs' = [cs EXCEPT ![t] = m]
  BY DEF Allocates
<1>2. UNCHANGED <<inited, attr, critsec, critsecOwner, monitor, owner, depth, holds, undefined>>
  BY DEF Allocates
<1>3. DataTypes'
  BY <1>1, <1>2 DEF DataTypes
<1>4. /\ cs'[t] = m /\ heap'[m] = "raw"
      /\ \A u \in Threads \ {t} : cs'[u] = cs[u] /\ cs[u] # m
      /\ \A n \in Monitors \ {m} : heap'[n] = heap[n]
      /\ \A u \in Threads : cs[u] # null => cs[u] \in Monitors
      /\ \A o \in Objects : monitor[o] # null => monitor[o] \in Monitors
  BY <1>1 DEF DataTypes, Blocks
<1>5. \A o \in Objects : Stale(o)' <=> Stale(o)
  BY DEF Stale, Stays, Others, Plain
<1>6. \A o \in Objects : monitor[o] = m => Stale(o)
  BY <1>1 DEF MonitorHeap
<1>7. Blocks'
  BY <1>4 DEF Blocks, Others, Stays
<1>8. MonitorKnown'
  BY <1>2, <1>4 DEF MonitorKnown, Stays, Others, Plain
<1>9. MonitorHeap'
  BY <1>2, <1>4, <1>5, <1>6 DEF MonitorHeap, Stays, Others, Plain
<1>10. cs[t] = null
  BY DEF Blocks
<1>11. Unshared'
  BY <1>2, <1>4, <1>5, <1>6, <1>10 DEF Unshared, Stays, Others, Plain
<1>12. Accounted'
  BY <1>2, <1>4, <1>5, <1>6, <1>10 DEF Accounted
<1>13. LocksKept'
  BY <1>2 DEF LocksKept, Stays, Others
<1>14. DeleterAlone'
  BY <1>2 DEF DeleterAlone, Stays, Others
<1> QED  BY <1>3, <1>7, <1>8, <1>9, <1>11, <1>12, <1>13, <1>14

LEMMA MakesMutexKeeps ==
    ASSUME Heap, DataTypes, NEW t \in Threads, Stays(t), null \notin Monitors,
           UNCHANGED <<cs, inited, attr, critsec, critsecOwner, monitor, owner, depth, holds, undefined>>,
           heap' = [heap EXCEPT ![cs[t]] = "recursive"], obj[t] \in Objects,
           Hand(t), Hand(t)', MayHand(t)', ~Made(t), Made(t)', Linked(t)' <=> Linked(t),
           Unready(t) => Linked(t), ~Unready(t)', ~Deletes(t),
           ~Gone(t), ~Gone(t)', ~Clearing(t), ~Clearing(t)'
    PROVE  DataTypes' /\ Heap'
<1> USE DEF Heap
<1>1. cs[t] \in Monitors
  BY DEF Blocks, DataTypes
<1>2. DataTypes'
  BY DEF DataTypes
<1>3. /\ heap'[cs[t]] = "recursive" /\ heap[cs[t]] = "raw"
      /\ \A m \in Monitors \ {cs[t]} : heap'[m] = heap[m]
      /\ \A u \in Threads : cs[u] # null => cs[u] \in Monitors
      /\ \A o \in Objects : monitor[o] # null => monitor[o] \in Monitors
  BY <1>1 DEF DataTypes, Blocks
<1>4. \A o \in Objects : Stale(o)' <=> Stale(o)
  BY DEF Stale, Stays, Others
<1>5. Blocks'
  BY <1>3 DEF Blocks, Others, Stays, Unshared
<1>6. MonitorKnown'
  BY DEF MonitorKnown, Stays, Others
<1>7. MonitorHeap'
  BY <1>3, <1>4 DEF MonitorHeap, Stays, Others, MonitorKnown
<1>8. Unshared'
  BY <1>4 DEF Unshared, Stays, Others
<1>9. Accounted'
  BY <1>3, <1>4 DEF Accounted
<1>10. LocksKept'
  BY DEF LocksKept, Stays, Others
<1>11. DeleterAlone'
  BY DEF DeleterAlone, Stays, Others
<1> QED  BY <1>2, <1>5, <1>6, <1>7, <1>8, <1>9, <1>10, <1>11

LEMMA SetsMonitorKeeps ==
    ASSUME Heap, DataTypes, CritsecHeld, NEW t \in Threads, Others(t), SetsMonitor(t),
           null \notin Monitors, obj[t] \in Objects, obj'[t] = obj[t],
           Hand(t), Hand(t)', MayHand(t)', Made(t)' <=> Made(t), Empty(t), ~Empty(t)',
           Locked(t), Known(t)', ~Linked(t), Linked(t)', ~Unready(t), Unready(t)' <=> ~Made(t),
           ~Deletes(t), ~Deletes(t)', ~Gone(t), ~Gone(t)', ~Clearing(t), ~Clearing(t)',
           ~Unlocking(t), ~Unlocking(t)'
    PROVE  DataTypes' /\ Heap'
<1> USE DEF Heap
<1>1. cs[t] \in Monitors /\ monitor[obj[t]] = null
  BY DEF Blocks, DataTypes, MonitorKnown
<1>2. UNCHANGED <<cs, inited, attr, critsec, critsecOwner, heap, owner, depth, holds, undefined>>
  BY DEF SetsMonitor
<1>3. /\ monitor'[obj[t]] = cs[t]
      /\ \A o \in Objects \ {obj[t]} : monitor'[o] = monitor[o]
  BY DEF SetsMonitor, DataTypes
<1>4. DataTypes'
  BY <1>1, <1>2 DEF DataTypes, SetsMonitor
<1>5. \A o \in Objects : Stale(o)' <=> Stale(o)
  BY DEF Stale, Others
<1>6. \A u \in Threads \ {t} : ~Empty(u) /\ ~Locked(u)
  BY Places DEF CritsecHeld
<1>7. \A u \in Threads \ {t} : obj[u] = obj[t] => ~Known(u) /\ ~Linked(u) /\ ~Unready(u) /\ ~Deletes(u)
  BY <1>1, Places DEF MonitorKnown
<1>8. \A u \in Threads : holds[u][obj[t]] = 0
  <2> SUFFICES ASSUME NEW u \in Threads PROVE holds[u][obj[t]] = 0
    OBVIOUS
  <2>1. ~(holds[u][obj[t]] > 0)
    BY <1>1 DEF LocksKept
  <2>2. holds[u][obj[t]] \in Nat
    BY DEF DataTypes
  <2> QED  BY <2>1, <2>2
<1>9. Blocks'
  BY <1>2 DEF Blocks, Others
<1>10. MonitorKnown'
  <2> SUFFICES ASSUME NEW u \in Threads
               PROVE  /\ Empty(u)' => monitor'[obj'[u]] = null
                      /\ Known(u)' => monitor'[obj'[u]] # null
                      /\ Linked(u)' => monitor'[obj'[u]] = cs'[u]
                      /\ Unready(u)' => \A v \in Threads : holds'[v][obj'[u]] = 0
    BY DEF MonitorKnown
  <2>1. CASE u = t
    BY <1>1, <1>2, <1>3, <1>8, <2>1
  <2>2. CASE u # t
    <3>1. /\ obj'[u] = obj[u] /\ ~Empty(u)' /\ (Known(u)' <=> Known(u)) /\ (Linked(u)' <=> Linked(u))
          /\ Unready(u)' <=> Unready(u)
      BY <1>6, <2>2 DEF Others
    <3>2. Known(u) \/ Linked(u) \/ Unready(u) => monitor'[obj[u]] = monitor[obj[u]]
      BY <1>3, <1>7, <2>2 DEF SetsMonitor, DataTypes
    <3> QED  BY <1>2, <3>1, <3>2 DEF MonitorKnown
  <2> QED  BY <2>1, <2>2
<1>11. MonitorHeap'
  <2> SUFFICES ASSUME NEW o \in Objects, monitor'[o] # null
               PROVE  \/ heap'[monitor'[o]] = "recursive"
                      \/ heap'[monitor'[o]] = "raw" /\ \E u \in Threads : obj'[u] = o /\ Unready(u)'
                      \/ heap'[monitor'[o]] = "deleted" /\ \E u \in Threads : obj'[u] = o /\ Gone(u)'
                      \/ Stale(o)'
    BY DEF MonitorHeap
  <2>1. CASE o = obj[t]
    <3>1. heap[cs[t]] = IF Made(t) THEN "recursive" ELSE "raw"
      BY <1>1 DEF Blocks
    <3> QED  BY <1>2, <1>3, <2>1, <3>1
  <2>2. CASE o # obj[t]
    BY <1>2, <1>3, <1>5, <2>2 DEF MonitorHeap, Others
  <2> QED  BY <2>1, <2>2
<1>12. Unshared'
  <2>1. \A v, u \in Threads : cs'[v] # null /\ cs'[v] = cs'[u] => v = u
    BY <1>2 DEF Unshared
  <2>2. ASSUME NEW o \in Objects, NEW p \in Objects, monitor'[o] # null, monitor'[o] = monitor'[p]
        PROVE  o = p \/ Stale(o)' \/ Stale(p)'
    BY <1>1, <1>3, <1>5, <2>2 DEF Unshared
  <2>3. ASSUME NEW u \in Threads, NEW o \in Objects, cs'[u] # null, cs'[u] = monitor'[o]
        PROVE  (obj'[u] = o /\ Linked(u)') \/ Stale(o)'
    <3>1. CASE o = obj[t]
      <4>1. u = t
        BY <1>1, <1>2, <1>3, <2>3, <3>1 DEF Unshared
      <4> QED  BY <3>1, <4>1
    <3>2. CASE o # obj[t]
      <4>1. (obj[u] = o /\ Linked(u)) \/ Stale(o)
        BY <1>2, <1>3, <2>3, <3>2 DEF Unshared
      <4> QED  BY <1>5, <3>2, <4>1 DEF Others
    <3> QED  BY <3>1, <3>2
  <2> QED  BY <2>1, <2>2, <2>3 DEF Unshared
<1>13. Accounted'
  BY <1>1, <1>2, <1>3, <1>5 DEF Accounted
<1>14. LocksKept'
  <2>1. ASSUME NEW u \in Threads, NEW o \in Objects, holds'[u][o] > 0
        PROVE  monitor'[o] # null /\ owner'[monitor'[o]] = u /\ depth'[monitor'[o]] = holds'[u][o]
    <3>1. holds[u][o] > 0 /\ o # obj[t]
      BY <1>2, <1>8, <2>1
    <3> QED  BY <1>2, <1>3, <3>1 DEF LocksKept
  <2>2. ASSUME NEW m \in Monitors
        PROVE  /\ owner'[m] = null => depth'[m] = 0
               /\ owner'[m] # null => \E o \in Objects : monitor'[o] = m /\ holds'[owner'[m]][o] > 0
    BY <1>1, <1>2, <1>3 DEF LocksKept
  <2>3. \A u \in Threads : Unlocking(u)' => holds'[u][obj'[u]] > 0
    BY <1>2 DEF LocksKept, Others
  <2> QED  BY <2>1, <2>2, <2>3 DEF LocksKept
<1>15. DeleterAlone'
  BY <1>2 DEF DeleterAlone, Others
<1> QED  BY <1>4, <1>9, <1>10, <1>11, <1>12, <1>13, <1>14, <1>15

LEMMA ForgetsKeeps ==
    ASSUME Heap, DataTypes, NEW t \in Threads, Stays(t), Forgets(t), null \notin Monitors,
           obj[t] \in Objects, Hand(t), ~Hand(t)', ~Made(t)', Linked(t), ~Linked(t)',
           ~Unready(t), ~Unready(t)', ~Deletes(t), ~Gone(t), ~Gone(t)', ~Clearing(t), ~Clearing(t)'
    PROVE  DataTypes' /\ Heap'
<1> USE DEF Heap
<1>1. UNCHANGED <<inited, attr, critsec, critsecOwner, monitor, heap, owner, depth, holds, undefined>>
  BY DEF Forgets
<1>2. cs'[t] = null /\ \A u \in Threads \ {t} : cs'[u] = cs[u]
  BY DEF Forgets, DataTypes
<1>3. DataTypes'
  BY <1>1 DEF DataTypes, Forgets
<1>4. \A o \in Objects : Stale(o)' <=> Stale(o)
  BY DEF Stale, Stays, Others
<1>5. Blocks'
  BY <1>1, <1>2 DEF Blocks, Stays, Others
<1>6. MonitorKnown'
  BY <1>1, <1>2 DEF MonitorKnown, Stays, Others
<1>7. MonitorHeap'
  BY <1>1, <1>4 DEF MonitorHeap, Stays, Others
<1>8. Unshared'
  BY <1>1, <1>2, <1>4 DEF Unshared, Stays, Others
<1>9. ~Stale(obj[t]) /\ monitor[obj[t]] = cs[t]
  BY Places DEF Stale, DeleterAlone, MonitorKnown
<1>10. Accounted'
  BY <1>1, <1>2, <1>4, <1>9 DEF Accounted
<1>11. LocksKept'
  BY <1>1 DEF LocksKept, Stays, Others
<1>12. DeleterAlone'
  BY <1>1 DEF DeleterAlone, Stays, Others
<1> QED  BY <1>3, <1>5, <1>6, <1>7, <1>8, <1>10, <1>11, <1>12

LEMMA FreesCsKeeps ==
    ASSUME Heap, DataTypes, NEW t \in Threads, Others(t), FreesCs(t), null \notin Monitors,
           \A u \in Threads : Deletes(u) => obj[u] # null,
           Plain(t), Plain(t)', Hand(t), ~Hand(t)', ~Made(t)', ~Deletes(t), ~Deletes(t)',
           Empty(t)' => Empty(t) /\ obj'[t] = obj[t],
           Known(t)' => Known(t) /\ obj'[t] = obj[t],
           obj'[t] = obj[t] \/ obj'[t] = null
    PROVE  DataTypes' /\ Heap'
<1> USE DEF Heap
<1>1. UNCHANGED <<inited, attr, critsec, critsecOwner, monitor, owner, depth, holds, undefined>>
  BY DEF FreesCs
<1>2. cs[t] \in Monitors
  BY DEF Blocks, DataTypes
<1>3. /\ cs'[t] = null /\ \A u \in Threads \ {t} : cs'[u] = cs[u] /\ cs[u] # cs[t]
      /\ heap'[cs[t]] = "free" /\ \A m \in Monitors \ {cs[t]} : heap'[m] = heap[m]
      /\ \A u \in Threads : cs[u] # null => cs[u] \in Monitors
      /\ \A o \in Objects : monitor[o] # null => monitor[o] \in Monitors
  BY <1>2 DEF FreesCs, DataTypes, Unshared
<1>4. DataTypes'
  BY <1>1, <1>2 DEF DataTypes, FreesCs
<1>5. \A o \in Objects : Stale(o)' <=> Stale(o)
  BY DEF Stale, Others, Plain
<1>6. Blocks'
  BY <1>1, <1>3 DEF Blocks, Others
<1>7. MonitorKnown'
  BY <1>1, <1>3 DEF MonitorKnown, Others, Plain
<1>8. \A o \in Objects : monitor[o] = cs[t] => Stale(o)
  BY <1>2 DEF Unshared, Plain
<1>9. MonitorHeap'
  BY <1>1, <1>3, <1>5, <1>8 DEF MonitorHeap, Others, Plain
<1>10. Unshared'
  BY <1>1, <1>3, <1>5 DEF Unshared, Others, Plain
<1>11. Accounted'
  BY <1>1, <1>3, <1>5 DEF Accounted
<1>12. LocksKept'
  BY <1>1 DEF LocksKept, Others, Plain
<1>13. DeleterAlone'
  BY <1>1 DEF DeleterAlone, Others
<1> QED  BY <1>4, <1>6, <1>7, <1>9, <1>10, <1>11, <1>12, <1>13

\* Who deletes a monitor is the only one to know it.
LEMMA DeletersOwn ==
    ASSUME Heap, NEW t \in Threads, Deletes(t), obj[t] \in Objects
    PROVE  /\ \A u \in Threads : cs[u] # null /\ cs[u] = monitor[obj[t]] => Clearing(t)
           /\ \A o \in Objects \ {obj[t]} : monitor[o] # null /\ monitor[o] = monitor[obj[t]] =>
                 Stale(o) \/ Clearing(t)
           /\ Stale(obj[t]) => Clearing(t)
           /\ monitor[obj[t]] # null
           /\ cs[t] = null
           /\ \A u \in Threads \ {t} : obj[u] # obj[t]
           /\ \A u \in Threads : holds[u][obj[t]] = 0
<1>1. /\ \A u \in Threads : holds[u][obj[t]] = 0 /\ (u # t => obj[u] # obj[t])
      /\ monitor[obj[t]] # null /\ cs[t] = null /\ ~Linked(t)
  BY Places DEF Heap, DeleterAlone, MonitorKnown, Blocks
<1>2. Stale(obj[t]) => Clearing(t)
  BY <1>1 DEF Stale
<1>3. \A u \in Threads : cs[u] # null /\ cs[u] = monitor[obj[t]] => Clearing(t)
  BY <1>1, <1>2 DEF Heap, Unshared
<1>4. \A o \in Objects \ {obj[t]} : monitor[o] # null /\ monitor[o] = monitor[obj[t]] =>
         Stale(o) \/ Clearing(t)
  BY <1>2 DEF Heap, Unshared
<1> QED  BY <1>1, <1>2, <1>3, <1>4

LEMMA DeletesMutexKeeps ==
    ASSUME Heap, DataTypes, NEW t \in Threads, Stays(t), null \notin Monitors, DeletesMutex(t),
           obj[t] \in Objects, Deletes(t), Plain(t), Gone(t)', ~Clearing(t)', ~Made(t), ~Made(t)',
           ~Hand(t)', ~Linked(t)', ~Unready(t)'
    PROVE  DataTypes' /\ Heap'
<1>1. UNCHANGED <<cs, inited, attr, critsec, critsecOwner, monitor, owner, depth, holds, undefined>>
  BY DEF DeletesMutex
<1> DEFINE m == monitor[obj[t]]
<1>2. /\ \A u \in Threads : cs[u] # null => cs[u] # m
      /\ \A o \in Objects \ {obj[t]} : monitor[o] = m => Stale(o)
      /\ m # null /\ cs[t] = null
  BY DeletersOwn DEF Plain
<1>3. /\ m \in Monitors
      /\ heap'[m] = "deleted" /\ \A n \in Monitors \ {m} : heap'[n] = heap[n]
      /\ \A u \in Threads : cs[u] # null => cs[u] \in Monitors
      /\ \A o \in Objects : monitor[o] # null => monitor[o] \in Monitors
  BY <1>2 DEF DeletesMutex, DataTypes
<1>4. DataTypes'
  BY <1>1 DEF DataTypes, DeletesMutex
<1>5. monitor[obj[t]] = m
  OBVIOUS
<1> HIDE DEF m
<1> USE DEF Heap
<1>6. \A o \in Objects : Stale(o)' <=> Stale(o)
  BY DEF Stale, Stays, Others, Plain
<1>7. Blocks'
  BY <1>1, <1>2, <1>3 DEF Blocks, Stays, Others
<1>8. MonitorKnown'
  BY <1>1 DEF MonitorKnown, Stays, Others, Plain
<1>9. MonitorHeap'
  BY <1>1, <1>2, <1>3, <1>5, <1>6 DEF MonitorHeap, Stays, Others, Plain
<1>10. Unshared'
  BY <1>1, <1>6 DEF Unshared, Stays, Others, Plain
<1>11. \A n \in Monitors : heap'[n] # "free" => heap[n] # "free" \/ n = m
  BY <1>3
<1>12. ~Stale(obj[t])
  BY DeletersOwn DEF Plain
<1>13. Accounted'
  BY <1>1, <1>5, <1>6, <1>11, <1>12 DEF Accounted
<1>14. LocksKept'
  BY <1>1 DEF LocksKept, Stays, Others
<1>15. DeleterAlone'
  BY <1>1 DEF DeleterAlone, Stays, Others
<1> QED  BY <1>4, <1>7, <1>8, <1>9, <1>10, <1>13, <1>14, <1>15

LEMMA FreesMonitorKeeps ==
    ASSUME Heap, DataTypes, NEW t \in Threads, Stays(t), null \notin Monitors, FreesMonitor(t),
           obj[t] \in Objects, Deletes(t), Gone(t), Clearing(t)', ~Clearing(t), ~Gone(t)',
           ~Made(t), ~Made(t)', ~Hand(t)', ~Linked(t), ~Linked(t)', ~Unready(t), ~Unready(t)'
    PROVE  DataTypes' /\ Heap'
<1>1. UNCHANGED <<cs, inited, attr, critsec, critsecOwner, monitor, owner, depth, holds, undefined>>
  BY DEF FreesMonitor
<1> DEFINE m == monitor[obj[t]]
<1>2. /\ \A u \in Threads : cs[u] # null => cs[u] # m
      /\ \A o \in Objects \ {obj[t]} : monitor[o] = m => Stale(o)
      /\ m # null /\ cs[t] = null
  BY DeletersOwn
<1>3. /\ m \in Monitors
      /\ heap'[m] = "free" /\ \A n \in Monitors \ {m} : heap'[n] = heap[n]
      /\ \A u \in Threads : cs[u] # null => cs[u] \in Monitors
      /\ \A o \in Objects : monitor[o] # null => monitor[o] \in Monitors
  BY <1>2 DEF FreesMonitor, DataTypes
<1>4. DataTypes'
  BY <1>1 DEF DataTypes, FreesMonitor
<1>5. monitor[obj[t]] = m
  OBVIOUS
<1> HIDE DEF m
<1> USE DEF Heap
<1>6. /\ \A o \in Objects \ {obj[t]} : Stale(o)' <=> Stale(o)
      /\ Stale(obj[t])'
      /\ \A o \in Objects : Stale(o) => Stale(o)'
  BY DEF Stale, Stays, Others
<1>7. Blocks'
  BY <1>1, <1>2, <1>3 DEF Blocks, Stays, Others
<1>8. MonitorKnown'
  BY <1>1 DEF MonitorKnown, Stays, Others
<1>9. MonitorHeap'
  BY <1>1, <1>2, <1>3, <1>5, <1>6 DEF MonitorHeap, Stays, Others
<1>10. Unshared'
  BY <1>1, <1>6 DEF Unshared, Stays, Others
<1>11. \A n \in Monitors : heap'[n] # "free" => heap[n] # "free" /\ n # m
  BY <1>3
<1>12. Accounted'
  BY <1>1, <1>5, <1>6, <1>11 DEF Accounted
<1>13. LocksKept'
  BY <1>1 DEF LocksKept, Stays, Others
<1>14. DeleterAlone'
  BY <1>1 DEF DeleterAlone, Stays, Others
<1> QED  BY <1>4, <1>7, <1>8, <1>9, <1>10, <1>12, <1>13, <1>14

LEMMA ClearsMonitorKeeps ==
    ASSUME Heap, DataTypes, NEW t \in Threads, Others(t), null \notin Monitors, ClearsMonitor(t),
           \A u \in Threads : Known(u) \/ Empty(u) => obj[u] # null,
           obj[t] \in Objects, obj'[t] = null, Deletes(t), Clearing(t), ~Gone(t), ~Unready(t),
           Plain(t)', ~Hand(t)', ~Made(t)', ~Known(t)', ~Empty(t)', ~Deletes(t)'
    PROVE  DataTypes' /\ Heap'
<1>1. UNCHANGED <<cs, inited, attr, critsec, critsecOwner, heap, owner, depth, holds, undefined>>
  BY DEF ClearsMonitor
<1>2. /\ cs[t] = null
      /\ \A u \in Threads \ {t} : obj[u] # obj[t]
      /\ \A u \in Threads : holds[u][obj[t]] = 0
  BY DeletersOwn
<1>3. /\ monitor'[obj[t]] = null
      /\ \A o \in Objects \ {obj[t]} : monitor'[o] = monitor[o]
  BY DEF ClearsMonitor, DataTypes
<1>4. DataTypes'
  BY <1>1 DEF DataTypes, ClearsMonitor
<1> USE DEF Heap
<1>5. /\ Stale(obj[t])
      /\ \A o \in Objects \ {obj[t]} : Stale(o)' <=> Stale(o)
  BY DEF Stale, Others, Plain
<1>6. Blocks'
  BY <1>1, <1>2 DEF Blocks, Others
<1>7. MonitorKnown'
  <2> SUFFICES ASSUME NEW u \in Threads
               PROVE  /\ Empty(u)' => monitor'[obj'[u]] = null
                      /\ Known(u)' => monitor'[obj'[u]] # null
                      /\ Linked(u)' => monitor'[obj'[u]] = cs'[u]
                      /\ Unready(u)' => \A v \in Threads : holds'[v][obj'[u]] = 0
    BY DEF MonitorKnown
  <2>1. CASE u = t
    BY <2>1 DEF Plain
  <2>2. CASE u # t
    <3>1. monitor'[obj[u]] = monitor[obj[u]]
      BY <1>2, <1>3, <2>2 DEF ClearsMonitor, DataTypes
    <3> QED  BY <1>1, <2>2, <3>1 DEF MonitorKnown, Others
  <2> QED  BY <2>1, <2>2
<1>8. MonitorHeap'
  BY <1>1, <1>2, <1>3, <1>5 DEF MonitorHeap, Others
<1>9. Unshared'
  BY <1>1, <1>2, <1>3, <1>5 DEF Unshared, Others
<1>10. Accounted'
  BY <1>1, <1>3, <1>5 DEF Accounted
<1>11. LocksKept'
  <2>1. ASSUME NEW u \in Threads, NEW o \in Objects, holds'[u][o] > 0
        PROVE  monitor'[o] # null /\ owner'[monitor'[o]] = u /\ depth'[monitor'[o]] = holds'[u][o]
    <3>1. holds[u][o] > 0 /\ o # obj[t]
      BY <1>1, <1>2, <2>1
    <3> QED  BY <1>1, <1>3, <3>1 DEF LocksKept
  <2>2. ASSUME NEW m \in Monitors, owner[m] # null
        PROVE  \E o \in Objects : monitor'[o] = m /\ holds'[owner'[m]][o] > 0
    <3>1. owner[m] \in Threads
      BY <2>2 DEF DataTypes
    <3>2. PICK o \in Objects : monitor[o] = m /\ holds[owner[m]][o] > 0
      BY <2>2 DEF LocksKept
    <3>3. o # obj[t]
      BY <1>2, <3>1, <3>2
    <3> QED  BY <1>1, <1>3, <3>2, <3>3
  <2>3. \A m \in Monitors : owner'[m] = null => depth'[m] = 0
    BY <1>1 DEF LocksKept
  <2>4. \A u \in Threads : Unlocking(u)' => holds'[u][obj'[u]] > 0
    BY <1>1 DEF LocksKept, Others, Plain
  <2> QED  BY <1>1, <2>1, <2>2, <2>3, <2>4 DEF LocksKept
<1>12. DeleterAlone'
  BY <1>1, Places DEF DeleterAlone, Others
<1> QED  BY <1>4, <1>6, <1>7, <1>8, <1>9, <1>10, <1>11, <1>12

LEMMA LocksKeeps ==
    ASSUME Heap, DataTypes, NEW t \in Threads, Leaves(t), null \notin Monitors \cup Threads, Locks(t),
           \A u \in Threads : Known(u) \/ Empty(u) => obj[u] # null,
           obj[t] \in Objects, Plain(t), Known(t), ~Deletes(t), ~MayHand(t)
    PROVE  DataTypes' /\ Heap'
<1> DEFINE m == monitor[obj[t]]
<1>1. UNCHANGED <<cs, inited, attr, critsec, critsecOwner, monitor, heap, undefined>>
  BY DEF Locks
<1>2. m \in Monitors /\ m # null /\ cs[t] = null
  BY DEF Heap, MonitorKnown, Blocks, DataTypes
<1>3. /\ heap[m] \in {"plain", "recursive"} /\ (owner[m] = null \/ owner[m] = t)
      /\ owner'[m] = t /\ depth'[m] = depth[m] + 1
      /\ holds'[t][obj[t]] = holds[t][obj[t]] + 1
      /\ \A n \in Monitors \ {m} : owner'[n] = owner[n] /\ depth'[n] = depth[n]
      /\ \A o \in Objects \ {obj[t]} : holds'[t][o] = holds[t][o]
      /\ \A u \in Threads \ {t} : holds'[u] = holds[u]
      /\ \A u \in Threads, o \in Objects : holds[u][o] \in Nat /\ holds'[u][o] >= holds[u][o]
  BY <1>2 DEF Locks, DataTypes
<1>4. DataTypes'
  BY <1>1, <1>2 DEF DataTypes, Locks
<1>5. monitor[obj[t]] = m /\ depth[m] \in Nat
  BY <1>2 DEF DataTypes
<1> HIDE DEF m
<1> USE DEF Heap
<1>6. \A o \in Objects : Stale(o)' <=> Stale(o)
  BY DEF Stale, Leaves, Others, Plain
<1>7. \A o \in Objects : Stale(o) => o # obj[t]
  BY Places DEF Stale, DeleterAlone
<1>8. \A u \in Threads : obj[u] = obj[t] => ~Deletes(u) /\ ~Unready(u)
  <2> SUFFICES ASSUME NEW u \in Threads, obj[u] = obj[t] PROVE ~Deletes(u) /\ ~Unready(u)
    OBVIOUS
  <2>1. ~Deletes(u)
    BY DEF DeleterAlone
  <2>2. Unready(u) => monitor[obj[u]] = cs[u] /\ cs[u] # null /\ heap[cs[u]] = "raw"
    BY Places DEF MonitorKnown, Blocks
  <2> QED  BY <1>3, <1>5, <2>1, <2>2
<1>9. \A u \in Threads, o \in Objects : holds[u][o] > 0 => monitor[o] # null /\ ~Stale(o)
  BY DEF LocksKept, Stale, DeleterAlone, DataTypes, Clearing, Deletes
<1>10. \A o \in Objects \ {obj[t]}, u \in Threads : holds[u][o] > 0 => monitor[o] # m
  BY <1>2, <1>5, <1>7, <1>9 DEF Unshared
<1>11. Blocks'
  BY <1>1, <1>2 DEF Blocks, Leaves, Others
<1>12. MonitorKnown'
  <2> SUFFICES ASSUME NEW u \in Threads
               PROVE  /\ Empty(u)' => monitor'[obj'[u]] = null
                      /\ Known(u)' => monitor'[obj'[u]] # null
                      /\ Linked(u)' => monitor'[obj'[u]] = cs'[u]
                      /\ Unready(u)' => \A v \in Threads : holds'[v][obj'[u]] = 0
    BY DEF MonitorKnown
  <2>1. CASE u = t
    BY <2>1 DEF Leaves, Plain
  <2>2. CASE u # t
    <3>1. /\ Empty(u)' => monitor'[obj'[u]] = null
          /\ Known(u)' => monitor'[obj'[u]] # null
          /\ Linked(u)' => monitor'[obj'[u]] = cs'[u]
      BY <1>1, <2>2 DEF MonitorKnown, Leaves, Others
    <3>2. ASSUME Unready(u)', NEW v \in Threads PROVE holds'[v][obj'[u]] = 0
      <4>1. Unready(u) /\ obj'[u] = obj[u] /\ obj[u] # obj[t] /\ obj[u] # null
        BY <1>8, <2>2, <3>2, Places DEF Leaves, Others
      <4>2. holds[v][obj[u]] = 0
        BY <4>1 DEF MonitorKnown
      <4>3. CASE v = t
        BY <4>1, <4>2, <4>3 DEF Locks, DataTypes
      <4>4. CASE v # t
        BY <1>3, <4>1, <4>2, <4>4
      <4> QED  BY <4>3, <4>4
    <3> QED  BY <3>1, <3>2
  <2> QED  BY <2>1, <2>2
<1>13. MonitorHeap'
  BY <1>1, <1>6 DEF MonitorHeap, Leaves, Others, Plain
<1>14. Unshared'
  BY <1>1, <1>2, <1>6 DEF Unshared, Leaves, Others
<1>15. Accounted'
  BY <1>1, <1>6 DEF Accounted
<1>16. LocksKept'
  <2>1. ASSUME NEW u \in Threads, NEW o \in Objects, holds'[u][o] > 0
        PROVE  monitor'[o] # null /\ owner'[monitor'[o]] = u /\ depth'[monitor'[o]] = holds'[u][o]
    <3>1. CASE u = t /\ o = obj[t]
      <4>1. depth[m] = holds[t][obj[t]]
        <5>1. CASE owner[m] = null
          <6>1. depth[m] = 0
            BY <1>2, <5>1 DEF LocksKept
          <6>2. ~(holds[t][obj[t]] > 0)
            BY <1>5, <5>1 DEF LocksKept
          <6> QED  BY <1>3, <6>1, <6>2
        <5>2. CASE owner[m] = t
          <6>1. PICK p \in Objects : monitor[p] = m /\ holds[t][p] > 0
            BY <1>2, <5>2 DEF LocksKept
          <6>2. p = obj[t]
            BY <1>10, <6>1
          <6> QED  BY <1>5, <6>1, <6>2 DEF LocksKept
        <5> QED  BY <1>3, <5>1, <5>2
      <4> QED  BY <1>1, <1>2, <1>3, <1>5, <3>1, <4>1
    <3>2. CASE ~(u = t /\ o = obj[t])
      <4>1. holds'[u][o] = holds[u][o]
        BY <1>3, <3>2
      <4>2. /\ holds[u][o] > 0 /\ monitor[o] # null /\ owner[monitor[o]] = u
            /\ depth[monitor[o]] = holds[u][o] /\ monitor[o] \in Monitors
        BY <2>1, <4>1 DEF LocksKept, DataTypes
      <4>3. monitor[o] # m
        BY <1>2, <1>3, <1>5, <1>10, <3>2, <4>2
      <4> QED  BY <1>1, <1>3, <4>1, <4>2, <4>3
    <3> QED  BY <3>1, <3>2
  <2>2. ASSUME NEW n \in Monitors
        PROVE  /\ owner'[n] = null => depth'[n] = 0
               /\ owner'[n] # null => \E o \in Objects : monitor'[o] = n /\ holds'[owner'[n]][o] > 0
    <3>1. CASE n = m
      <4>1. holds'[t][obj[t]] > 0
        BY <1>3
      <4> QED  BY <1>1, <1>3, <1>5, <3>1, <4>1
    <3>2. CASE n # m
      <4>1. owner'[n] = owner[n] /\ depth'[n] = depth[n] /\ owner[n] \in Threads \cup {null}
        BY <1>3, <3>2 DEF DataTypes
      <4>2. ASSUME owner[n] # null
            PROVE  \E o \in Objects : monitor'[o] = n /\ holds'[owner'[n]][o] > 0
        <5>1. PICK o \in Objects : monitor[o] = n /\ holds[owner[n]][o] > 0
          BY <4>2 DEF LocksKept
        <5>2. holds'[owner[n]][o] > 0
          <6>1. holds'[owner[n]][o] \in Nat /\ holds[owner[n]][o] \in Nat
                /\ holds'[owner[n]][o] >= holds[owner[n]][o]
            BY <1>3, <1>4, <4>1, <4>2 DEF DataTypes
          <6> QED  BY <5>1, <6>1
        <5> QED  BY <1>1, <4>1, <5>1, <5>2
      <4>3. owner[n] = null => depth[n] = 0
        BY DEF LocksKept
      <4> QED  BY <4>1, <4>2, <4>3
    <3> QED  BY <3>1, <3>2
  <2>3. ASSUME NEW u \in Threads, Unlocking(u)' PROVE holds'[u][obj'[u]] > 0
    <3>1. u # t /\ Unlocking(u) /\ obj'[u] = obj[u]
      BY <2>3 DEF Leaves, Others, Plain
    <3> QED  BY <1>3, <3>1 DEF LocksKept
  <2> QED  BY <2>1, <2>2, <2>3 DEF LocksKept
<1>17. DeleterAlone'
  <2> SUFFICES ASSUME NEW u \in Threads, Deletes(u)', NEW v \in Threads
               PROVE  holds'[v][obj'[u]] = 0 /\ (v # u => obj'[v] # obj'[u])
    BY DEF DeleterAlone
  <2>1. u # t /\ Deletes(u) /\ obj'[u] = obj[u] /\ obj[u] # obj[t] /\ obj[u] # null
    BY <1>8, Places DEF Leaves, Others
  <2>2. holds[v][obj[u]] = 0 /\ (v # u => obj[v] # obj[u])
    BY <2>1 DEF DeleterAlone
  <2>3. holds'[v][obj[u]] = holds[v][obj[u]]
    BY <1>3, <2>1 DEF Locks, DataTypes
  <2> QED  BY <2>1, <2>2, <2>3 DEF Leaves, Others
<1> QED  BY <1>4, <1>11, <1>12, <1>13, <1>14, <1>15, <1>16, <1>17

LEMMA UnlocksKeeps ==
    ASSUME Heap, DataTypes, NEW t \in Threads, Leaves(t), null \notin Monitors \cup Threads, Unlocks(t),
           \A u \in Threads : Known(u) \/ Empty(u) => obj[u] # null,
           obj[t] \in Objects, Unlocking(t), Known(t), ~Deletes(t), ~MayHand(t), ~Clearing(t), ~Gone(t)
    PROVE  DataTypes' /\ Heap'
<1> DEFINE m == monitor[obj[t]]
           d == depth[m]
<1>1. UNCHANGED <<cs, inited, attr, critsec, critsecOwner, monitor, heap, undefined>>
  BY DEF Unlocks
<1>2. /\ m \in Monitors /\ m # null /\ cs[t] = null
      /\ holds[t][obj[t]] > 0 /\ owner[m] = t /\ d = holds[t][obj[t]]
  BY DEF Heap, MonitorKnown, Blocks, DataTypes, LocksKept
<1>3. d \in Nat \ {0} /\ holds[t][obj[t]] = d /\ owner[m] = t /\ depth[m] = d /\ d - 1 \in Nat
  BY <1>2 DEF DataTypes
<1>4. /\ owner'[m] = (IF d = 1 THEN null ELSE t) /\ depth'[m] = d - 1
      /\ holds'[t][obj[t]] = d - 1
      /\ \A n \in Monitors \ {m} : owner'[n] = owner[n] /\ depth'[n] = depth[n]
      /\ \A o \in Objects \ {obj[t]} : holds'[t][o] = holds[t][o]
      /\ \A u \in Threads \ {t} : holds'[u] = holds[u]
  BY <1>2 DEF Unlocks, DataTypes
<1>5. monitor[obj[t]] = m
  OBVIOUS
<1>6. DataTypes'
  <2>1. /\ holds' = [holds EXCEPT ![t] = [holds[t] EXCEPT ![obj[t]] = d - 1]]
        /\ depth' = [depth EXCEPT ![m] = d - 1]
        /\ owner' = [owner EXCEPT ![m] = IF d = 1 THEN null ELSE t]
    BY <1>2, <1>3 DEF Unlocks, DataTypes
  <2> HIDE DEF m, d
  <2>2. holds[t] \in [Objects -> Nat]
    BY DEF DataTypes
  <2>3. [holds[t] EXCEPT ![obj[t]] = d - 1] \in [Objects -> Nat]
    BY <1>3, <2>2
  <2> QED  BY <1>1, <1>3, <2>1, <2>3 DEF DataTypes
<1> HIDE DEF m, d
<1> USE DEF Heap
<1>7. \A o \in Objects : Stale(o)' <=> Stale(o)
  BY DEF Stale, Leaves, Others, Plain
<1>8. \A u \in Threads, o \in Objects : holds[u][o] > 0 => monitor[o] # null /\ ~Stale(o)
  BY DEF LocksKept, Stale, DeleterAlone, DataTypes, Clearing, Deletes
<1>9. \A o \in Objects \ {obj[t]}, u \in Threads : holds[u][o] > 0 => monitor[o] # m
  <2>1. ~Stale(obj[t])
    BY <1>3, <1>8
  <2> QED  BY <1>2, <1>5, <1>8, <2>1 DEF Unshared
<1>10. Blocks'
  BY <1>1, <1>2 DEF Blocks, Leaves, Others
<1>11. \A u \in Threads, o \in Objects : holds[u][o] = 0 => holds'[u][o] = 0
  BY <1>3, <1>4
<1>12. MonitorKnown'
  <2> SUFFICES ASSUME NEW u \in Threads
               PROVE  /\ Empty(u)' => monitor'[obj'[u]] = null
                      /\ Known(u)' => monitor'[obj'[u]] # null
                      /\ Linked(u)' => monitor'[obj'[u]] = cs'[u]
                      /\ Unready(u)' => \A v \in Threads : holds'[v][obj'[u]] = 0
    BY DEF MonitorKnown
  <2>1. CASE u = t
    BY <2>1 DEF Leaves, Plain
  <2>2. CASE u # t
    <3>1. /\ Empty(u)' => monitor'[obj'[u]] = null
          /\ Known(u)' => monitor'[obj'[u]] # null
          /\ Linked(u)' => monitor'[obj'[u]] = cs'[u]
      BY <1>1, <2>2 DEF MonitorKnown, Leaves, Others
    <3>2. ASSUME Unready(u)', NEW v \in Threads PROVE holds'[v][obj'[u]] = 0
      <4>1. Unready(u) /\ obj'[u] = obj[u]
        BY <2>2, <3>2 DEF Leaves, Others
      <4>2. holds[v][obj[u]] = 0
        BY <4>1 DEF MonitorKnown
      <4>3. obj[u] # obj[t]
        BY <1>3, <4>1 DEF MonitorKnown
      <4> QED  BY <4>1, <4>2, <4>3 DEF Unlocks, DataTypes
    <3> QED  BY <3>1, <3>2
  <2> QED  BY <2>1, <2>2
<1>13. MonitorHeap'
  BY <1>1, <1>7, Places DEF MonitorHeap, Leaves, Others, Plain
<1>14. Unshared'
  BY <1>1, <1>2, <1>7 DEF Unshared, Leaves, Others
<1>15. Accounted'
  BY <1>1, <1>7 DEF Accounted
<1>16. LocksKept'
  <2>1. ASSUME NEW u \in Threads, NEW o \in Objects, holds'[u][o] > 0
        PROVE  monitor'[o] # null /\ owner'[monitor'[o]] = u /\ depth'[monitor'[o]] = holds'[u][o]
    <3>1. CASE u = t /\ o = obj[t]
      <4>1. d # 1
        BY <1>3, <1>4, <2>1, <3>1
      <4> QED  BY <1>1, <1>2, <1>4, <1>5, <3>1, <4>1
    <3>2. CASE ~(u = t /\ o = obj[t])
      <4>1. holds'[u][o] = holds[u][o]
        BY <1>4, <3>2
      <4>2. /\ holds[u][o] > 0 /\ monitor[o] # null /\ owner[monitor[o]] = u
            /\ depth[monitor[o]] = holds[u][o] /\ monitor[o] \in Monitors
        BY <2>1, <4>1 DEF LocksKept, DataTypes
      <4>3. monitor[o] # m
        BY <1>2, <1>3, <1>5, <1>9, <3>2, <4>2
      <4> QED  BY <1>1, <1>4, <4>1, <4>2, <4>3
    <3> QED  BY <3>1, <3>2
  <2>2. ASSUME NEW n \in Monitors
        PROVE  /\ owner'[n] = null => depth'[n] = 0
               /\ owner'[n] # null => \E o \in Objects : monitor'[o] = n /\ holds'[owner'[n]][o] > 0
    <3>1. CASE n = m
      <4>1. CASE d = 1
        BY <1>4, <3>1, <4>1
      <4>2. CASE d # 1
        <5>1. owner'[n] = t /\ t # null /\ d - 1 > 0
          BY <1>3, <1>4, <3>1, <4>2
        <5> QED  BY <1>1, <1>4, <1>5, <3>1, <5>1
      <4> QED  BY <4>1, <4>2
    <3>2. CASE n # m
      <4>1. owner'[n] = owner[n] /\ depth'[n] = depth[n] /\ owner[n] \in Threads \cup {null}
        BY <1>4, <3>2 DEF DataTypes
      <4>2. ASSUME owner[n] # null
            PROVE  \E o \in Objects : monitor'[o] = n /\ holds'[owner'[n]][o] > 0
        <5>1. PICK o \in Objects : monitor[o] = n /\ holds[owner[n]][o] > 0
          BY <4>2 DEF LocksKept
        <5>2. o # obj[t]
          BY <1>5, <3>2, <5>1
        <5>3. holds'[owner[n]][o] = holds[owner[n]][o]
          BY <1>4, <4>1, <4>2, <5>2
        <5> QED  BY <1>1, <4>1, <5>1, <5>3
      <4>3. owner[n] = null => depth[n] = 0
        BY DEF LocksKept
      <4> QED  BY <4>1, <4>2, <4>3
    <3> QED  BY <3>1, <3>2
  <2>3. ASSUME NEW u \in Threads, Unlocking(u)' PROVE holds'[u][obj'[u]] > 0
    <3>1. u # t /\ Unlocking(u) /\ obj'[u] = obj[u]
      BY <2>3 DEF Leaves, Others, Plain
    <3> QED  BY <1>4, <3>1 DEF LocksKept
  <2> QED  BY <2>1, <2>2, <2>3 DEF LocksKept
<1>17. DeleterAlone'
  <2> SUFFICES ASSUME NEW u \in Threads, Deletes(u)', NEW v \in Threads
               PROVE  holds'[v][obj'[u]] = 0 /\ (v # u => obj'[v] # obj'[u])
    BY DEF DeleterAlone
  <2>1. u # t /\ Deletes(u) /\ obj'[u] = obj[u] /\ obj[u] # null
    BY Places DEF Leaves, Others
  <2>2. holds[v][obj[u]] = 0 /\ (v # u => obj[v] # obj[u])
    BY <2>1 DEF DeleterAlone
  <2>3. obj[u] # obj[t]
    BY <1>3, <2>1 DEF DeleterAlone
  <2>4. holds'[v][obj[u]] = holds[v][obj[u]]
    BY <1>4, <2>1, <2>3 DEF Unlocks, DataTypes
  <2> QED  BY <2>1, <2>2, <2>4 DEF Leaves, Others
<1> QED  BY <1>6, <1>10, <1>12, <1>13, <1>14, <1>15, <1>16, <1>17

\* A copy that the runtimes are built of finds a mutex where it locks.
LEMMA NoneRaw ==
    ASSUME Heap, NEW t \in Threads, Known(t), ~Deletes(t), obj[t] \in Objects,
           \A u \in Threads : ~Unready(u)
    PROVE  heap[monitor[obj[t]]] \in {"plain", "recursive"}
BY Places DEF Heap, MonitorKnown, MonitorHeap, Stale, DeleterAlone

-----------------------------------------------------------------------------
(* Steps of the functions that users of monitors call                      *)

\* The runtime is running.
LEMMA UserRuns ==
    ASSUME CallTypes, DataTypes, Control, NEW t \in Threads, fn[t] \in UserFunctions
    PROVE  /\ inited
           /\ build \in AttrBuilds => attr = "recursive"
           /\ obj[t] \in Objects
<1>1. inited /\ fn[Main] # "staticdtor"
  BY DEF Control, Quiet, UserFunctions, Functions
<1> QED  BY <1>1 DEF Control, AttrReady, Arguments, UserFunctions, Functions

LEMMA InsideKeeps ==
    ASSUME CallTypes, DataTypes, Control, NEW t \in Threads, fn[t] \in UserFunctions, Inside(t),
           Main \in Threads, inited' = inited, attr' = attr
    PROVE  /\ Arguments' /\ Quiet' /\ Starting' /\ AttrReady' /\ Others(t)
           /\ obj'[t] = obj[t] \/ obj'[t] = null
<1>1. PICK f, i, o : /\ Moves(t, f, i, o)
                     /\ \/ f = fn[t] /\ o = obj[t]
                        \/ f = "none" /\ i = 1 /\ o = null
                        \/ f = "lock" /\ o = obj[t]
  BY DEF Inside, GoesTo, Returns, GoesOn
<1>2. Others(t)
  BY <1>1, OthersStay
<1>3. /\ fn'[t] = f /\ at'[t] = i /\ obj'[t] = o /\ build' = build
      /\ \A u \in Threads \ {t} : fn'[u] = fn[u] /\ at'[u] = at[u] /\ obj'[u] = obj[u]
  BY <1>1 DEF Moves, CallTypes
<1>4. inited /\ fn[Main] # "staticdtor"
  BY DEF Control, Quiet, UserFunctions, Functions
<1>5. f \notin {"staticctor", "staticdtor"}
  BY <1>1 DEF UserFunctions
<1>6. Arguments'
  <2> SUFFICES ASSUME NEW u \in Threads
               PROVE  /\ fn'[u] = "none" => at'[u] = 1
                      /\ fn'[u] \in {"none", "staticctor", "staticdtor"} => obj'[u] = null
                      /\ fn'[u] \in {"staticctor", "staticdtor"} => u = Main
                      /\ fn'[u] \in Functions \ {"staticctor", "staticdtor"} => obj'[u] \in Objects
    BY DEF Arguments
  <2>1. CASE u = t
    BY <1>1, <1>3, <1>5, <2>1 DEF Control, Arguments, UserFunctions, Functions
  <2>2. CASE u # t
    BY <1>3, <2>2 DEF Control, Arguments
  <2> QED  BY <2>1, <2>2
<1>7. fn'[Main] # "staticdtor" /\ inited'
  BY <1>3, <1>4, <1>5 DEF Moves, CallTypes
<1>8. Quiet'
  BY <1>7 DEF Quiet
<1>9. fn'[Main] = "staticctor" => fn[Main] = "staticctor" /\ at'[Main] = at[Main]
  BY <1>1, <1>3, <1>5 DEF Moves, CallTypes
<1>10. Starting'
  BY <1>4, <1>7, <1>9 DEF Control, Starting
<1>11. AttrReady'
  BY <1>1, <1>9 DEF Control, AttrReady, Moves
<1>12. obj'[t] = obj[t] \/ obj'[t] = null
  BY <1>1, <1>3
<1> QED  BY <1>2, <1>6, <1>8, <1>10, <1>11, <1>12

LEMMA CritsecKept ==
    ASSUME DataTypes, CritsecHeld, NEW t \in Threads, Others(t),
           \/ critsecOwner' = critsecOwner /\ (Locked(t)' <=> Locked(t))
           \/ critsecOwner = null /\ critsecOwner' = t /\ Locked(t)'
           \/ critsecOwner' = null /\ Locked(t) /\ ~Locked(t)',
           null \notin Threads
    PROVE  CritsecHeld'
BY DEF CritsecHeld, Others

\* Who knows a monitor has an object.
LEMMA Given ==
    ASSUME CallTypes, Control, null \notin Objects, NEW u \in Threads
    PROVE  /\ Known(u) \/ Empty(u) \/ Deletes(u) => obj[u] # null
           /\ Unready(u) => build \notin ShippedNames
<1>1. Known(u) \/ Empty(u) \/ Deletes(u) => fn[u] \in UserFunctions
  BY DEF Known, Empty, Deletes, InCreate, InEnter, UserFunctions, Functions
<1>2. fn[u] \in UserFunctions => obj[u] \in Objects
  BY DEF Control, Arguments, UserFunctions
<1>3. Unready(u) => fn[u] \in {"enter", "get"} /\ InCode(u) /\ build \in DOMAIN OM!MonitorCode
  BY DEF Unready, InEnter, CallTypes
<1>4. Unready(u) => build \notin ShippedNames
  BY <1>3, EnterRuns
<1> QED  BY <1>1, <1>2, <1>4

LEMMA CreateMoves ==
    ASSUME CallTypes, NEW t \in Threads, HandKnown(t), fn[t] = "create", OM!CallStep(t)
    PROVE  ~undefined /\ Inside(t) /\ UserStep(t)
<1> DEFINE R1 == at[t] = 1 /\ TakesCritsec(t) /\ GoesTo(t, 2)
           R2 == at[t] = 2 /\ monitor[obj[t]] = null /\ GoesTo(t, 3) /\ Nothing
           R3 == at[t] = 2 /\ monitor[obj[t]] # null /\ GoesTo(t, 7) /\ Nothing
           R4 == at[t] = 3 /\ Allocates(t) /\ GoesTo(t, 4)
           R5 == at[t] = 4 /\ MakesMutex(t) /\ GoesTo(t, 5)
           R6 == at[t] = 5 /\ SetsMonitor(t) /\ GoesTo(t, 6)
           R7 == at[t] = 6 /\ Forgets(t) /\ GoesTo(t, 7)
           R8 == at[t] = 7 /\ LeavesCritsec /\ GoesTo(t, 8)
           R9 == at[t] = 8 /\ cs[t] # null /\ GoesTo(t, 9) /\ Nothing
           R10 == at[t] = 8 /\ cs[t] = null /\ GoesOn(t) /\ Nothing
           R11 == at[t] = 9 /\ FreesCs(t) /\ GoesOn(t)
<1>0. ~undefined /\ (R1 \/ R2 \/ R3 \/ R4 \/ R5 \/ R6 \/ R7 \/ R8 \/ R9 \/ R10 \/ R11)
  BY CreateStep, Zenon
<1> HIDE DEF R1, R2, R3, R4, R5, R6, R7, R8, R9, R10, R11
<1> USE DEF HandKnown, Plain, Locked, Hand, MayHand, Made, Empty, Known, Linked, Unready, Deletes,
            Gone, Clearing, Unlocking, InCreate, InEnter
<1>1. CASE R1
  <2>1. fn'[t] = fn[t] /\ at'[t] = 2 /\ obj'[t] = obj[t]
    BY <1>1 DEF R1, GoesTo, Moves, CallTypes
  <2>2. Entering(t)
    BY <1>1, <2>1 DEF R1, Entering
  <2>3. Inside(t)
    BY <1>1 DEF R1, Inside
  <2> QED  BY <1>0, <2>2, <2>3 DEF UserStep
<1>2. CASE R2
  <2>1. fn'[t] = fn[t] /\ at'[t] = 3 /\ obj'[t] = obj[t]
    BY <1>2 DEF R2, GoesTo, Moves, CallTypes
  <2>2. Waiting(t)
    BY <1>2, <2>1 DEF R2, Waiting
  <2>3. Inside(t)
    BY <1>2 DEF R2, Inside
  <2> QED  BY <1>0, <2>2, <2>3 DEF UserStep
<1>3. CASE R3
  <2>1. fn'[t] = fn[t] /\ at'[t] = 7 /\ obj'[t] = obj[t]
    BY <1>3 DEF R3, GoesTo, Moves, CallTypes
  <2>2. Waiting(t)
    BY <1>3, <2>1 DEF R3, Waiting
  <2>3. Inside(t)
    BY <1>3 DEF R3, Inside
  <2> QED  BY <1>0, <2>2, <2>3 DEF UserStep
<1>4. CASE R4
  <2>1. fn'[t] = fn[t] /\ at'[t] = 4 /\ obj'[t] = obj[t]
    BY <1>4 DEF R4, GoesTo, Moves, CallTypes
  <2>2. Allocating(t)
    BY <1>4, <2>1 DEF R4, Allocating
  <2>3. Inside(t)
    BY <1>4 DEF R4, Inside
  <2> QED  BY <1>0, <2>2, <2>3 DEF UserStep
<1>5. CASE R5
  <2>1. fn'[t] = fn[t] /\ at'[t] = 5 /\ obj'[t] = obj[t]
    BY <1>5 DEF R5, GoesTo, Moves, CallTypes
  <2>2. Making(t)
    BY <1>5, <2>1 DEF R5, Making
  <2>3. Inside(t)
    BY <1>5 DEF R5, Inside
  <2> QED  BY <1>0, <2>2, <2>3 DEF UserStep
<1>6. CASE R6
  <2>1. fn'[t] = fn[t] /\ at'[t] = 6 /\ obj'[t] = obj[t]
    BY <1>6 DEF R6, GoesTo, Moves, CallTypes
  <2>2. Setting(t)
    BY <1>6, <2>1 DEF R6, Setting
  <2>3. Inside(t)
    BY <1>6 DEF R6, Inside
  <2> QED  BY <1>0, <2>2, <2>3 DEF UserStep
<1>7. CASE R7
  <2>1. fn'[t] = fn[t] /\ at'[t] = 7 /\ obj'[t] = obj[t]
    BY <1>7 DEF R7, GoesTo, Moves, CallTypes
  <2>2. Forgetting(t)
    BY <1>7, <2>1 DEF R7, Forgetting
  <2>3. Inside(t)
    BY <1>7 DEF R7, Inside
  <2> QED  BY <1>0, <2>2, <2>3 DEF UserStep
<1>8. CASE R8
  <2>1. fn'[t] = fn[t] /\ at'[t] = 8 /\ obj'[t] = obj[t]
    BY <1>8 DEF R8, GoesTo, Moves, CallTypes
  <2>2. Leaving(t)
    BY <1>8, <2>1 DEF R8, Leaving
  <2>3. Inside(t)
    BY <1>8 DEF R8, Inside
  <2> QED  BY <1>0, <2>2, <2>3 DEF UserStep
<1>9. CASE R9
  <2>1. fn'[t] = fn[t] /\ at'[t] = 9 /\ obj'[t] = obj[t]
    BY <1>9 DEF R9, GoesTo, Moves, CallTypes
  <2>2. Waiting(t)
    BY <1>9, <2>1 DEF R9, Waiting
  <2>3. Inside(t)
    BY <1>9 DEF R9, Inside
  <2> QED  BY <1>0, <2>2, <2>3 DEF UserStep
<1>10. CASE R10
  <2>1. fn'[t] = "lock" /\ at'[t] = 1 /\ obj'[t] = obj[t]
    BY <1>10 DEF R10, GoesOn, Moves, CallTypes
  <2>2. Waiting(t)
    BY <1>10, <2>1 DEF R10, Waiting
  <2>3. Inside(t)
    BY <1>10 DEF R10, Inside
  <2> QED  BY <1>0, <2>2, <2>3 DEF UserStep
<1>11. CASE R11
  <2>1. fn'[t] = "lock" /\ at'[t] = 1 /\ obj'[t] = obj[t]
    BY <1>11 DEF R11, GoesOn, Moves, CallTypes
  <2>2. Freeing(t)
    BY <1>11, <2>1 DEF R11, Freeing
  <2>3. Inside(t)
    BY <1>11 DEF R11, Inside
  <2> QED  BY <1>0, <2>2, <2>3 DEF UserStep
<1> QED
  BY <1>0, <1>1, <1>2, <1>3, <1>4, <1>5, <1>6, <1>7, <1>8, <1>9, <1>10, <1>11, Zenon

LEMMA EnterMoves ==
    ASSUME CallTypes, NEW t \in Threads, HandKnown(t), fn[t] = "enter", OM!CallStep(t)
    PROVE  ~undefined /\ Inside(t) /\ UserStep(t)
<1> DEFINE R1 == at[t] = 1 /\ monitor[obj[t]] = null /\ GoesTo(t, 2) /\ Nothing
           R2 == at[t] = 1 /\ monitor[obj[t]] # null /\ GoesTo(t, 11) /\ Nothing
           R3 == at[t] = 2 /\ Allocates(t) /\ GoesTo(t, 3)
           R4 == at[t] = 3 /\ TakesCritsec(t) /\ GoesTo(t, 4)
           R5 == at[t] = 4 /\ monitor[obj[t]] = null /\ GoesTo(t, 5) /\ Nothing
           R6 == at[t] = 4 /\ monitor[obj[t]] # null /\ GoesTo(t, 8) /\ Nothing
           R7 == at[t] = 5 /\ SetsMonitor(t) /\ GoesTo(t, 6)
           R8 == at[t] = 6 /\ MakesMutex(t) /\ GoesTo(t, 7)
           R9 == at[t] = 7 /\ Forgets(t) /\ GoesTo(t, 8)
           R10 == at[t] = 8 /\ LeavesCritsec /\ GoesTo(t, 9)
           R11 == at[t] = 9 /\ cs[t] # null /\ GoesTo(t, 10) /\ Nothing
           R12 == at[t] = 9 /\ cs[t] = null /\ GoesTo(t, 11) /\ Nothing
           R13 == at[t] = 10 /\ FreesCs(t) /\ GoesTo(t, 11)
           R14 == at[t] = 11 /\ Locks(t) /\ Returns(t)
           R15 == at[t] = 11 /\ LocksRaw(t) /\ Returns(t)
<1>0. ~undefined /\ (R1 \/ R2 \/ R3 \/ R4 \/ R5 \/ R6 \/ R7 \/ R8 \/ R9 \/ R10 \/ R11 \/ R12 \/ R13 \/ R14 \/ R15)
  BY EnterStep, Zenon
<1> HIDE DEF R1, R2, R3, R4, R5, R6, R7, R8, R9, R10, R11, R12, R13, R14, R15
<1> USE DEF HandKnown, Plain, Locked, Hand, MayHand, Made, Empty, Known, Linked, Unready, Deletes,
            Gone, Clearing, Unlocking, InCreate, InEnter
<1>1. CASE R1
  <2>1. fn'[t] = fn[t] /\ at'[t] = 2 /\ obj'[t] = obj[t]
    BY <1>1 DEF R1, GoesTo, Moves, CallTypes
  <2>2. Waiting(t)
    BY <1>1, <2>1 DEF R1, Waiting
  <2>3. Inside(t)
    BY <1>1 DEF R1, Inside
  <2> QED  BY <1>0, <2>2, <2>3 DEF UserStep
<1>2. CASE R2
  <2>1. fn'[t] = fn[t] /\ at'[t] = 11 /\ obj'[t] = obj[t]
    BY <1>2 DEF R2, GoesTo, Moves, CallTypes
  <2>2. Waiting(t)
    BY <1>2, <2>1 DEF R2, Waiting
  <2>3. Inside(t)
    BY <1>2 DEF R2, Inside
  <2> QED  BY <1>0, <2>2, <2>3 DEF UserStep
<1>3. CASE R3
  <2>1. fn'[t] = fn[t] /\ at'[t] = 3 /\ obj'[t] = obj[t]
    BY <1>3 DEF R3, GoesTo, Moves, CallTypes
  <2>2. Allocating(t)
    BY <1>3, <2>1 DEF R3, Allocating
  <2>3. Inside(t)
    BY <1>3 DEF R3, Inside
  <2> QED  BY <1>0, <2>2, <2>3 DEF UserStep
<1>4. CASE R4
  <2>1. fn'[t] = fn[t] /\ at'[t] = 4 /\ obj'[t] = obj[t]
    BY <1>4 DEF R4, GoesTo, Moves, CallTypes
  <2>2. Entering(t)
    BY <1>4, <2>1 DEF R4, Entering
  <2>3. Inside(t)
    BY <1>4 DEF R4, Inside
  <2> QED  BY <1>0, <2>2, <2>3 DEF UserStep
<1>5. CASE R5
  <2>1. fn'[t] = fn[t] /\ at'[t] = 5 /\ obj'[t] = obj[t]
    BY <1>5 DEF R5, GoesTo, Moves, CallTypes
  <2>2. Waiting(t)
    BY <1>5, <2>1 DEF R5, Waiting
  <2>3. Inside(t)
    BY <1>5 DEF R5, Inside
  <2> QED  BY <1>0, <2>2, <2>3 DEF UserStep
<1>6. CASE R6
  <2>1. fn'[t] = fn[t] /\ at'[t] = 8 /\ obj'[t] = obj[t]
    BY <1>6 DEF R6, GoesTo, Moves, CallTypes
  <2>2. Waiting(t)
    BY <1>6, <2>1 DEF R6, Waiting
  <2>3. Inside(t)
    BY <1>6 DEF R6, Inside
  <2> QED  BY <1>0, <2>2, <2>3 DEF UserStep
<1>7. CASE R7
  <2>1. fn'[t] = fn[t] /\ at'[t] = 6 /\ obj'[t] = obj[t]
    BY <1>7 DEF R7, GoesTo, Moves, CallTypes
  <2>2. Setting(t)
    BY <1>7, <2>1 DEF R7, Setting
  <2>3. Inside(t)
    BY <1>7 DEF R7, Inside
  <2> QED  BY <1>0, <2>2, <2>3 DEF UserStep
<1>8. CASE R8
  <2>1. fn'[t] = fn[t] /\ at'[t] = 7 /\ obj'[t] = obj[t]
    BY <1>8 DEF R8, GoesTo, Moves, CallTypes
  <2>2. Making(t)
    BY <1>8, <2>1 DEF R8, Making
  <2>3. Inside(t)
    BY <1>8 DEF R8, Inside
  <2> QED  BY <1>0, <2>2, <2>3 DEF UserStep
<1>9. CASE R9
  <2>1. fn'[t] = fn[t] /\ at'[t] = 8 /\ obj'[t] = obj[t]
    BY <1>9 DEF R9, GoesTo, Moves, CallTypes
  <2>2. Forgetting(t)
    BY <1>9, <2>1 DEF R9, Forgetting
  <2>3. Inside(t)
    BY <1>9 DEF R9, Inside
  <2> QED  BY <1>0, <2>2, <2>3 DEF UserStep
<1>10. CASE R10
  <2>1. fn'[t] = fn[t] /\ at'[t] = 9 /\ obj'[t] = obj[t]
    BY <1>10 DEF R10, GoesTo, Moves, CallTypes
  <2>2. Leaving(t)
    BY <1>10, <2>1 DEF R10, Leaving
  <2>3. Inside(t)
    BY <1>10 DEF R10, Inside
  <2> QED  BY <1>0, <2>2, <2>3 DEF UserStep
<1>11. CASE R11
  <2>1. fn'[t] = fn[t] /\ at'[t] = 10 /\ obj'[t] = obj[t]
    BY <1>11 DEF R11, GoesTo, Moves, CallTypes
  <2>2. Waiting(t)
    BY <1>11, <2>1 DEF R11, Waiting
  <2>3. Inside(t)
    BY <1>11 DEF R11, Inside
  <2> QED  BY <1>0, <2>2, <2>3 DEF UserStep
<1>12. CASE R12
  <2>1. fn'[t] = fn[t] /\ at'[t] = 11 /\ obj'[t] = obj[t]
    BY <1>12 DEF R12, GoesTo, Moves, CallTypes
  <2>2. Waiting(t)
    BY <1>12, <2>1 DEF R12, Waiting
  <2>3. Inside(t)
    BY <1>12 DEF R12, Inside
  <2> QED  BY <1>0, <2>2, <2>3 DEF UserStep
<1>13. CASE R13
  <2>1. fn'[t] = fn[t] /\ at'[t] = 11 /\ obj'[t] = obj[t]
    BY <1>13 DEF R13, GoesTo, Moves, CallTypes
  <2>2. Freeing(t)
    BY <1>13, <2>1 DEF R13, Freeing
  <2>3. Inside(t)
    BY <1>13 DEF R13, Inside
  <2> QED  BY <1>0, <2>2, <2>3 DEF UserStep
<1>14. CASE R14
  <2>1. fn'[t] = "none" /\ at'[t] = 1 /\ obj'[t] = null
    BY <1>14 DEF R14, Returns, Moves, CallTypes
  <2>2. Locking(t)
    BY <1>14, <2>1 DEF R14, Locking
  <2>3. Inside(t)
    BY <1>14 DEF R14, Inside
  <2> QED  BY <1>0, <2>2, <2>3 DEF UserStep
<1>15. CASE R15
  <2>1. fn'[t] = "none" /\ at'[t] = 1 /\ obj'[t] = null
    BY <1>15 DEF R15, Returns, Moves, CallTypes
  <2>2. LockingRaw(t)
    BY <1>15, <2>1 DEF R15, LockingRaw
  <2>3. Inside(t)
    BY <1>15 DEF R15, Inside
  <2> QED  BY <1>0, <2>2, <2>3 DEF UserStep
<1> QED
  BY <1>0, <1>1, <1>2, <1>3, <1>4, <1>5, <1>6, <1>7, <1>8, <1>9, <1>10, <1>11, <1>12, <1>13, <1>14, <1>15, Zenon

LEMMA GetMoves ==
    ASSUME CallTypes, NEW t \in Threads, HandKnown(t), fn[t] = "get", OM!CallStep(t)
    PROVE  ~undefined /\ Inside(t) /\ UserStep(t)
<1> DEFINE R1 == at[t] = 1 /\ monitor[obj[t]] = null /\ GoesTo(t, 2) /\ Nothing
           R2 == at[t] = 1 /\ monitor[obj[t]] # null /\ Returns(t) /\ Nothing
           R3 == at[t] = 2 /\ Allocates(t) /\ GoesTo(t, 3)
           R4 == at[t] = 3 /\ TakesCritsec(t) /\ GoesTo(t, 4)
           R5 == at[t] = 4 /\ monitor[obj[t]] = null /\ GoesTo(t, 5) /\ Nothing
           R6 == at[t] = 4 /\ monitor[obj[t]] # null /\ GoesTo(t, 8) /\ Nothing
           R7 == at[t] = 5 /\ SetsMonitor(t) /\ GoesTo(t, 6)
           R8 == at[t] = 6 /\ MakesMutex(t) /\ GoesTo(t, 7)
           R9 == at[t] = 7 /\ Forgets(t) /\ GoesTo(t, 8)
           R10 == at[t] = 8 /\ LeavesCritsec /\ GoesTo(t, 9)
           R11 == at[t] = 9 /\ cs[t] # null /\ GoesTo(t, 10) /\ Nothing
           R12 == at[t] = 9 /\ cs[t] = null /\ Returns(t) /\ Nothing
           R13 == at[t] = 10 /\ FreesCs(t) /\ Returns(t)
<1>0. ~undefined /\ (R1 \/ R2 \/ R3 \/ R4 \/ R5 \/ R6 \/ R7 \/ R8 \/ R9 \/ R10 \/ R11 \/ R12 \/ R13)
  BY GetStep, Zenon
<1> HIDE DEF R1, R2, R3, R4, R5, R6, R7, R8, R9, R10, R11, R12, R13
<1> USE DEF HandKnown, Plain, Locked, Hand, MayHand, Made, Empty, Known, Linked, Unready, Deletes,
            Gone, Clearing, Unlocking, InCreate, InEnter
<1>1. CASE R1
  <2>1. fn'[t] = fn[t] /\ at'[t] = 2 /\ obj'[t] = obj[t]
    BY <1>1 DEF R1, GoesTo, Moves, CallTypes
  <2>2. Waiting(t)
    BY <1>1, <2>1 DEF R1, Waiting
  <2>3. Inside(t)
    BY <1>1 DEF R1, Inside
  <2> QED  BY <1>0, <2>2, <2>3 DEF UserStep
<1>2. CASE R2
  <2>1. fn'[t] = "none" /\ at'[t] = 1 /\ obj'[t] = null
    BY <1>2 DEF R2, Returns, Moves, CallTypes
  <2>2. Waiting(t)
    BY <1>2, <2>1 DEF R2, Waiting
  <2>3. Inside(t)
    BY <1>2 DEF R2, Inside
  <2> QED  BY <1>0, <2>2, <2>3 DEF UserStep
<1>3. CASE R3
  <2>1. fn'[t] = fn[t] /\ at'[t] = 3 /\ obj'[t] = obj[t]
    BY <1>3 DEF R3, GoesTo, Moves, CallTypes
  <2>2. Allocating(t)
    BY <1>3, <2>1 DEF R3, Allocating
  <2>3. Inside(t)
    BY <1>3 DEF R3, Inside
  <2> QED  BY <1>0, <2>2, <2>3 DEF UserStep
<1>4. CASE R4
  <2>1. fn'[t] = fn[t] /\ at'[t] = 4 /\ obj'[t] = obj[t]
    BY <1>4 DEF R4, GoesTo, Moves, CallTypes
  <2>2. Entering(t)
    BY <1>4, <2>1 DEF R4, Entering
  <2>3. Inside(t)
    BY <1>4 DEF R4, Inside
  <2> QED  BY <1>0, <2>2, <2>3 DEF UserStep
<1>5. CASE R5
  <2>1. fn'[t] = fn[t] /\ at'[t] = 5 /\ obj'[t] = obj[t]
    BY <1>5 DEF R5, GoesTo, Moves, CallTypes
  <2>2. Waiting(t)
    BY <1>5, <2>1 DEF R5, Waiting
  <2>3. Inside(t)
    BY <1>5 DEF R5, Inside
  <2> QED  BY <1>0, <2>2, <2>3 DEF UserStep
<1>6. CASE R6
  <2>1. fn'[t] = fn[t] /\ at'[t] = 8 /\ obj'[t] = obj[t]
    BY <1>6 DEF R6, GoesTo, Moves, CallTypes
  <2>2. Waiting(t)
    BY <1>6, <2>1 DEF R6, Waiting
  <2>3. Inside(t)
    BY <1>6 DEF R6, Inside
  <2> QED  BY <1>0, <2>2, <2>3 DEF UserStep
<1>7. CASE R7
  <2>1. fn'[t] = fn[t] /\ at'[t] = 6 /\ obj'[t] = obj[t]
    BY <1>7 DEF R7, GoesTo, Moves, CallTypes
  <2>2. Setting(t)
    BY <1>7, <2>1 DEF R7, Setting
  <2>3. Inside(t)
    BY <1>7 DEF R7, Inside
  <2> QED  BY <1>0, <2>2, <2>3 DEF UserStep
<1>8. CASE R8
  <2>1. fn'[t] = fn[t] /\ at'[t] = 7 /\ obj'[t] = obj[t]
    BY <1>8 DEF R8, GoesTo, Moves, CallTypes
  <2>2. Making(t)
    BY <1>8, <2>1 DEF R8, Making
  <2>3. Inside(t)
    BY <1>8 DEF R8, Inside
  <2> QED  BY <1>0, <2>2, <2>3 DEF UserStep
<1>9. CASE R9
  <2>1. fn'[t] = fn[t] /\ at'[t] = 8 /\ obj'[t] = obj[t]
    BY <1>9 DEF R9, GoesTo, Moves, CallTypes
  <2>2. Forgetting(t)
    BY <1>9, <2>1 DEF R9, Forgetting
  <2>3. Inside(t)
    BY <1>9 DEF R9, Inside
  <2> QED  BY <1>0, <2>2, <2>3 DEF UserStep
<1>10. CASE R10
  <2>1. fn'[t] = fn[t] /\ at'[t] = 9 /\ obj'[t] = obj[t]
    BY <1>10 DEF R10, GoesTo, Moves, CallTypes
  <2>2. Leaving(t)
    BY <1>10, <2>1 DEF R10, Leaving
  <2>3. Inside(t)
    BY <1>10 DEF R10, Inside
  <2> QED  BY <1>0, <2>2, <2>3 DEF UserStep
<1>11. CASE R11
  <2>1. fn'[t] = fn[t] /\ at'[t] = 10 /\ obj'[t] = obj[t]
    BY <1>11 DEF R11, GoesTo, Moves, CallTypes
  <2>2. Waiting(t)
    BY <1>11, <2>1 DEF R11, Waiting
  <2>3. Inside(t)
    BY <1>11 DEF R11, Inside
  <2> QED  BY <1>0, <2>2, <2>3 DEF UserStep
<1>12. CASE R12
  <2>1. fn'[t] = "none" /\ at'[t] = 1 /\ obj'[t] = null
    BY <1>12 DEF R12, Returns, Moves, CallTypes
  <2>2. Waiting(t)
    BY <1>12, <2>1 DEF R12, Waiting
  <2>3. Inside(t)
    BY <1>12 DEF R12, Inside
  <2> QED  BY <1>0, <2>2, <2>3 DEF UserStep
<1>13. CASE R13
  <2>1. fn'[t] = "none" /\ at'[t] = 1 /\ obj'[t] = null
    BY <1>13 DEF R13, Returns, Moves, CallTypes
  <2>2. Freeing(t)
    BY <1>13, <2>1 DEF R13, Freeing
  <2>3. Inside(t)
    BY <1>13 DEF R13, Inside
  <2> QED  BY <1>0, <2>2, <2>3 DEF UserStep
<1> QED
  BY <1>0, <1>1, <1>2, <1>3, <1>4, <1>5, <1>6, <1>7, <1>8, <1>9, <1>10, <1>11, <1>12, <1>13, Zenon

LEMMA LockMoves ==
    ASSUME CallTypes, NEW t \in Threads, HandKnown(t), fn[t] = "lock", OM!CallStep(t)
    PROVE  ~undefined /\ Inside(t) /\ UserStep(t)
<1> DEFINE R1 == at[t] = 1 /\ Locks(t) /\ Returns(t)
           R2 == at[t] = 1 /\ LocksRaw(t) /\ Returns(t)
<1>0. ~undefined /\ (R1 \/ R2)
  BY LockStep, Zenon
<1> HIDE DEF R1, R2
<1> USE DEF HandKnown, Plain, Locked, Hand, MayHand, Made, Empty, Known, Linked, Unready, Deletes,
            Gone, Clearing, Unlocking, InCreate, InEnter
<1>1. CASE R1
  <2>1. fn'[t] = "none" /\ at'[t] = 1 /\ obj'[t] = null
    BY <1>1 DEF R1, Returns, Moves, CallTypes
  <2>2. Locking(t)
    BY <1>1, <2>1 DEF R1, Locking
  <2>3. Inside(t)
    BY <1>1 DEF R1, Inside
  <2> QED  BY <1>0, <2>2, <2>3 DEF UserStep
<1>2. CASE R2
  <2>1. fn'[t] = "none" /\ at'[t] = 1 /\ obj'[t] = null
    BY <1>2 DEF R2, Returns, Moves, CallTypes
  <2>2. LockingRaw(t)
    BY <1>2, <2>1 DEF R2, LockingRaw
  <2>3. Inside(t)
    BY <1>2 DEF R2, Inside
  <2> QED  BY <1>0, <2>2, <2>3 DEF UserStep
<1> QED
  BY <1>0, <1>1, <1>2, Zenon

LEMMA UnlockMoves ==
    ASSUME CallTypes, NEW t \in Threads, HandKnown(t), fn[t] \in {"unlock", "exit"}, OM!CallStep(t)
    PROVE  ~undefined /\ Inside(t) /\ UserStep(t)
<1> DEFINE R1 == at[t] = 1 /\ Unlocks(t) /\ Returns(t)
<1>0. ~undefined /\ (R1)
  BY UnlockStep, Zenon
<1> HIDE DEF R1
<1> USE DEF HandKnown, Plain, Locked, Hand, MayHand, Made, Empty, Known, Linked, Unready, Deletes,
            Gone, Clearing, Unlocking, InCreate, InEnter
<1>1. CASE R1
  <2>1. fn'[t] = "none" /\ at'[t] = 1 /\ obj'[t] = null
    BY <1>1 DEF R1, Returns, Moves, CallTypes
  <2>2. UnlockingMutex(t)
    BY <1>1, <2>1 DEF R1, UnlockingMutex
  <2>3. Inside(t)
    BY <1>1 DEF R1, Inside
  <2> QED  BY <1>0, <2>2, <2>3 DEF UserStep
<1> QED
  BY <1>0, <1>1, Zenon

LEMMA DestroyMoves ==
    ASSUME CallTypes, NEW t \in Threads, HandKnown(t), fn[t] = "destroy", OM!CallStep(t)
    PROVE  ~undefined /\ Inside(t) /\ UserStep(t)
<1> DEFINE R1 == at[t] = 1 /\ DeletesMutex(t) /\ GoesTo(t, 2)
           R2 == at[t] = 2 /\ FreesMonitor(t) /\ GoesTo(t, 3)
           R3 == at[t] = 3 /\ ClearsMonitor(t) /\ Returns(t)
<1>0. ~undefined /\ (R1 \/ R2 \/ R3)
  BY DestroyStep, Zenon
<1> HIDE DEF R1, R2, R3
<1> USE DEF HandKnown, Plain, Locked, Hand, MayHand, Made, Empty, Known, Linked, Unready, Deletes,
            Gone, Clearing, Unlocking, InCreate, InEnter
<1>1. CASE R1
  <2>1. fn'[t] = fn[t] /\ at'[t] = 2 /\ obj'[t] = obj[t]
    BY <1>1 DEF R1, GoesTo, Moves, CallTypes
  <2>2. DeletingMutex(t)
    BY <1>1, <2>1 DEF R1, DeletingMutex
  <2>3. Inside(t)
    BY <1>1 DEF R1, Inside
  <2> QED  BY <1>0, <2>2, <2>3 DEF UserStep
<1>2. CASE R2
  <2>1. fn'[t] = fn[t] /\ at'[t] = 3 /\ obj'[t] = obj[t]
    BY <1>2 DEF R2, GoesTo, Moves, CallTypes
  <2>2. FreeingMonitor(t)
    BY <1>2, <2>1 DEF R2, FreeingMonitor
  <2>3. Inside(t)
    BY <1>2 DEF R2, Inside
  <2> QED  BY <1>0, <2>2, <2>3 DEF UserStep
<1>3. CASE R3
  <2>1. fn'[t] = "none" /\ at'[t] = 1 /\ obj'[t] = null
    BY <1>3 DEF R3, Returns, Moves, CallTypes
  <2>2. ClearingMonitor(t)
    BY <1>3, <2>1 DEF R3, ClearingMonitor
  <2>3. Inside(t)
    BY <1>3 DEF R3, Inside
  <2> QED  BY <1>0, <2>2, <2>3 DEF UserStep
<1> QED
  BY <1>0, <1>1, <1>2, <1>3, Zenon

LEMMA ReleaseMoves ==
    ASSUME CallTypes, NEW t \in Threads, HandKnown(t), fn[t] = "release", OM!CallStep(t)
    PROVE  ~undefined /\ Inside(t) /\ UserStep(t)
<1> DEFINE R1 == at[t] = 1 /\ monitor[obj[t]] # null /\ GoesTo(t, 2) /\ Nothing
           R2 == at[t] = 1 /\ monitor[obj[t]] = null /\ Returns(t) /\ Nothing
           R3 == at[t] = 2 /\ DeletesMutex(t) /\ GoesTo(t, 3)
           R4 == at[t] = 3 /\ FreesMonitor(t) /\ GoesTo(t, 4)
           R5 == at[t] = 4 /\ ClearsMonitor(t) /\ Returns(t)
<1>0. ~undefined /\ (R1 \/ R2 \/ R3 \/ R4 \/ R5)
  BY ReleaseStep, Zenon
<1> HIDE DEF R1, R2, R3, R4, R5
<1> USE DEF HandKnown, Plain, Locked, Hand, MayHand, Made, Empty, Known, Linked, Unready, Deletes,
            Gone, Clearing, Unlocking, InCreate, InEnter
<1>1. CASE R1
  <2>1. fn'[t] = fn[t] /\ at'[t] = 2 /\ obj'[t] = obj[t]
    BY <1>1 DEF R1, GoesTo, Moves, CallTypes
  <2>2. Waiting(t)
    BY <1>1, <2>1 DEF R1, Waiting
  <2>3. Inside(t)
    BY <1>1 DEF R1, Inside
  <2> QED  BY <1>0, <2>2, <2>3 DEF UserStep
<1>2. CASE R2
  <2>1. fn'[t] = "none" /\ at'[t] = 1 /\ obj'[t] = null
    BY <1>2 DEF R2, Returns, Moves, CallTypes
  <2>2. Waiting(t)
    BY <1>2, <2>1 DEF R2, Waiting
  <2>3. Inside(t)
    BY <1>2 DEF R2, Inside
  <2> QED  BY <1>0, <2>2, <2>3 DEF UserStep
<1>3. CASE R3
  <2>1. fn'[t] = fn[t] /\ at'[t] = 3 /\ obj'[t] = obj[t]
    BY <1>3 DEF R3, GoesTo, Moves, CallTypes
  <2>2. DeletingMutex(t)
    BY <1>3, <2>1 DEF R3, DeletingMutex
  <2>3. Inside(t)
    BY <1>3 DEF R3, Inside
  <2> QED  BY <1>0, <2>2, <2>3 DEF UserStep
<1>4. CASE R4
  <2>1. fn'[t] = fn[t] /\ at'[t] = 4 /\ obj'[t] = obj[t]
    BY <1>4 DEF R4, GoesTo, Moves, CallTypes
  <2>2. FreeingMonitor(t)
    BY <1>4, <2>1 DEF R4, FreeingMonitor
  <2>3. Inside(t)
    BY <1>4 DEF R4, Inside
  <2> QED  BY <1>0, <2>2, <2>3 DEF UserStep
<1>5. CASE R5
  <2>1. fn'[t] = "none" /\ at'[t] = 1 /\ obj'[t] = null
    BY <1>5 DEF R5, Returns, Moves, CallTypes
  <2>2. ClearingMonitor(t)
    BY <1>5, <2>1 DEF R5, ClearingMonitor
  <2>3. Inside(t)
    BY <1>5 DEF R5, Inside
  <2> QED  BY <1>0, <2>2, <2>3 DEF UserStep
<1> QED
  BY <1>0, <1>1, <1>2, <1>3, <1>4, <1>5, Zenon

LEMMA UserMoves ==
    ASSUME CallTypes, NEW t \in Threads, HandKnown(t), fn[t] \in UserFunctions, OM!CallStep(t)
    PROVE  ~undefined /\ Inside(t) /\ UserStep(t)
<1>1. \/ fn[t] = "create" \/ fn[t] = "enter" \/ fn[t] = "get" \/ fn[t] = "lock"
      \/ fn[t] \in {"unlock", "exit"} \/ fn[t] = "destroy" \/ fn[t] = "release"
  BY DEF UserFunctions, Functions
<1> QED
  BY <1>1, CreateMoves, EnterMoves, GetMoves, LockMoves, UnlockMoves, DestroyMoves, ReleaseMoves

LEMMA UserStepKeeps ==
    ASSUME MonitorInv, OM!Parameters, NEW t \in Threads, fn[t] \in UserFunctions, OM!CallStep(t)
    PROVE  MonitorInv'
<1>1. /\ CallTypes /\ DataTypes /\ Control /\ CritsecHeld /\ Heap
      /\ null \notin Threads \cup Objects \cup Monitors /\ Main \in Threads
      /\ fn[t] # "none" /\ build \in DOMAIN OM!MonitorCode
  BY DEF MonitorInv, OM!Parameters, Control, UserFunctions, Functions, CallTypes
<1>2. HandKnown(t)
  BY <1>1 DEF Heap, Blocks, MonitorKnown, HandKnown
<1>3. ~undefined /\ Inside(t) /\ UserStep(t)
  BY <1>1, <1>2, UserMoves
<1>4. CallTypes'
  BY <1>1, CallTypesKept
<1>5. /\ inited /\ obj[t] \in Objects
      /\ build \in AttrBuilds => attr = "recursive"
  BY <1>1, UserRuns
<1>6. /\ \A u \in Threads : Known(u) \/ Empty(u) => obj[u] # null
      /\ \A u \in Threads : Deletes(u) => obj[u] # null
  BY <1>1, Given
<1>7. inited' = inited /\ attr' = attr
  BY <1>3 DEF UserStep, Waiting, Entering, Leaving, Allocating, Making, Setting, Forgetting, Freeing,
      DeletingMutex, FreeingMonitor, ClearingMonitor, Locking, LockingRaw, UnlockingMutex,
      Nothing, TakesCritsec, LeavesCritsec, Allocates, MakesMutex, SetsMonitor, Forgets, FreesCs,
      DeletesMutex, FreesMonitor, ClearsMonitor, Locks, LocksRaw, Unlocks
<1>8. /\ Arguments' /\ Quiet' /\ Starting' /\ AttrReady' /\ Others(t)
      /\ obj'[t] = obj[t] \/ obj'[t] = null
  BY <1>1, <1>3, <1>7, InsideKeeps
<1>9. build' = build
  BY <1>3 DEF Inside, GoesTo, Returns, GoesOn, Moves
<1>10. ASSUME Waiting(t) PROVE DataTypes' /\ CritsecHeld' /\ Heap' /\ ~undefined'
  <2>1. DataTypes' /\ ~undefined' /\ critsecOwner' = critsecOwner
    BY <1>1, <1>3, <1>10 DEF DataTypes, Waiting, Nothing
  <2>2. Heap'
    BY <1>1, <1>6, <1>8, <1>10, QuietKeeps DEF Waiting, Nothing
  <2>3. CritsecHeld'
    BY <1>1, <1>8, <1>10, <2>1, CritsecKept DEF Waiting
  <2> QED  BY <2>1, <2>2, <2>3
<1>11. ASSUME Entering(t) PROVE DataTypes' /\ CritsecHeld' /\ Heap' /\ ~undefined'
  <2>1. DataTypes' /\ ~undefined' /\ critsecOwner = null /\ critsecOwner' = t
    BY <1>1, <1>3, <1>11 DEF DataTypes, Entering, TakesCritsec
  <2>2. Heap'
    BY <1>1, <1>6, <1>8, <1>11, QuietKeeps DEF Entering, TakesCritsec
  <2>3. CritsecHeld'
    BY <1>1, <1>8, <1>11, <2>1, CritsecKept DEF Entering
  <2> QED  BY <2>1, <2>2, <2>3
<1>12. ASSUME Leaving(t) PROVE DataTypes' /\ CritsecHeld' /\ Heap' /\ ~undefined'
  <2>1. DataTypes' /\ ~undefined' /\ critsecOwner' = null
    BY <1>1, <1>3, <1>12 DEF DataTypes, Leaving, LeavesCritsec
  <2>2. Heap'
    BY <1>1, <1>6, <1>8, <1>12, QuietKeeps DEF Leaving, LeavesCritsec
  <2>3. CritsecHeld'
    BY <1>1, <1>8, <1>12, <2>1, CritsecKept DEF Leaving
  <2> QED  BY <2>1, <2>2, <2>3
<1>13. ASSUME LockingRaw(t) PROVE DataTypes' /\ CritsecHeld' /\ Heap' /\ build \notin ShippedNames
  <2>1. DataTypes' /\ critsecOwner' = critsecOwner
    BY <1>1, <1>3, <1>13 DEF DataTypes, LockingRaw, LocksRaw
  <2>2. Heap'
    BY <1>1, <1>6, <1>8, <1>13, QuietKeeps DEF LockingRaw, LocksRaw
  <2>3. CritsecHeld'
    BY <1>1, <1>8, <1>13, <2>1, CritsecKept DEF LockingRaw
  <2>4. heap[monitor[obj[t]]] \notin {"plain", "recursive"} /\ Known(t) /\ ~Deletes(t)
    BY <1>13 DEF LockingRaw, LocksRaw
  <2>5. PICK u \in Threads : Unready(u)
    BY <1>1, <1>5, <2>4, NoneRaw
  <2>6. build \notin ShippedNames
    BY <1>1, <2>5, Given
  <2> QED  BY <2>1, <2>2, <2>3, <2>6
<1>14. ASSUME Allocating(t) PROVE DataTypes' /\ CritsecHeld' /\ Heap' /\ ~undefined'
  <2>1. ~undefined' /\ critsecOwner' = critsecOwner
    BY <1>3, <1>14 DEF Allocating, Allocates
  <2>2. Stays(t)
    BY <1>8, <1>14 DEF Allocating, Stays
  <2>3. DataTypes' /\ Heap'
    BY <1>1, <1>14, <2>2, AllocatesKeeps DEF Allocating
  <2>4. CritsecHeld'
    BY <1>1, <1>8, <1>14, <2>1, CritsecKept DEF Allocating
  <2> QED  BY <2>1, <2>3, <2>4
<1>15. ASSUME Making(t) PROVE DataTypes' /\ CritsecHeld' /\ Heap' /\ ~undefined'
  <2>1. ~undefined' /\ critsecOwner' = critsecOwner
    BY <1>3, <1>15 DEF Making, MakesMutex
  <2>2. Stays(t)
    BY <1>8, <1>15 DEF Making, Stays
  <2>3. heap' = [heap EXCEPT ![cs[t]] = "recursive"]
    BY <1>5, <1>15 DEF Making, MakesMutex
  <2>4. DataTypes' /\ Heap'
    BY <1>1, <1>5, <1>15, <2>2, <2>3, MakesMutexKeeps DEF Making, MakesMutex
  <2>5. CritsecHeld'
    BY <1>1, <1>8, <1>15, <2>1, CritsecKept DEF Making
  <2> QED  BY <2>1, <2>4, <2>5
<1>16. ASSUME Setting(t) PROVE DataTypes' /\ CritsecHeld' /\ Heap' /\ ~undefined'
  <2>1. ~undefined' /\ critsecOwner' = critsecOwner
    BY <1>3, <1>16 DEF Setting, SetsMonitor
  <2>2. DataTypes' /\ Heap'
    BY <1>1, <1>5, <1>8, <1>16, SetsMonitorKeeps DEF Setting
  <2>3. CritsecHeld'
    BY <1>1, <1>8, <1>16, <2>1, CritsecKept DEF Setting
  <2> QED  BY <2>1, <2>2, <2>3
<1>17. ASSUME Forgetting(t) PROVE DataTypes' /\ CritsecHeld' /\ Heap' /\ ~undefined'
  <2>1. ~undefined' /\ critsecOwner' = critsecOwner
    BY <1>3, <1>17 DEF Forgetting, Forgets
  <2>2. Stays(t)
    BY <1>8, <1>17 DEF Forgetting, Stays
  <2>3. DataTypes' /\ Heap'
    BY <1>1, <1>5, <1>17, <2>2, ForgetsKeeps DEF Forgetting
  <2>4. CritsecHeld'
    BY <1>1, <1>8, <1>17, <2>1, CritsecKept DEF Forgetting
  <2> QED  BY <2>1, <2>3, <2>4
<1>18. ASSUME Freeing(t) PROVE DataTypes' /\ CritsecHeld' /\ Heap' /\ ~undefined'
  <2>1. ~undefined' /\ critsecOwner' = critsecOwner
    BY <1>3, <1>18 DEF Freeing, FreesCs
  <2>2. DataTypes' /\ Heap'
    BY <1>1, <1>6, <1>8, <1>18, FreesCsKeeps DEF Freeing
  <2>3. CritsecHeld'
    BY <1>1, <1>8, <1>18, <2>1, CritsecKept DEF Freeing
  <2> QED  BY <2>1, <2>2, <2>3
<1>19. ASSUME DeletingMutex(t) PROVE DataTypes' /\ CritsecHeld' /\ Heap' /\ ~undefined'
  <2>1. ~undefined' /\ critsecOwner' = critsecOwner
    BY <1>3, <1>19 DEF DeletingMutex, DeletesMutex
  <2>2. Stays(t)
    BY <1>8, <1>19 DEF DeletingMutex, Stays
  <2>3. DataTypes' /\ Heap'
    BY <1>1, <1>5, <1>19, <2>2, DeletesMutexKeeps DEF DeletingMutex
  <2>4. CritsecHeld'
    BY <1>1, <1>8, <1>19, <2>1, CritsecKept DEF DeletingMutex
  <2> QED  BY <2>1, <2>3, <2>4
<1>20. ASSUME FreeingMonitor(t) PROVE DataTypes' /\ CritsecHeld' /\ Heap' /\ ~undefined'
  <2>1. ~undefined' /\ critsecOwner' = critsecOwner
    BY <1>3, <1>20 DEF FreeingMonitor, FreesMonitor
  <2>2. Stays(t)
    BY <1>8, <1>20 DEF FreeingMonitor, Stays
  <2>3. DataTypes' /\ Heap'
    BY <1>1, <1>5, <1>20, <2>2, FreesMonitorKeeps DEF FreeingMonitor
  <2>4. CritsecHeld'
    BY <1>1, <1>8, <1>20, <2>1, CritsecKept DEF FreeingMonitor
  <2> QED  BY <2>1, <2>3, <2>4
<1>21. ASSUME ClearingMonitor(t) PROVE DataTypes' /\ CritsecHeld' /\ Heap' /\ ~undefined'
  <2>1. ~undefined' /\ critsecOwner' = critsecOwner
    BY <1>3, <1>21 DEF ClearingMonitor, ClearsMonitor
  <2>2. DataTypes' /\ Heap'
    BY <1>1, <1>5, <1>6, <1>8, <1>21, ClearsMonitorKeeps DEF ClearingMonitor
  <2>3. CritsecHeld'
    BY <1>1, <1>8, <1>21, <2>1, CritsecKept DEF ClearingMonitor
  <2> QED  BY <2>1, <2>2, <2>3
<1>22. ASSUME Locking(t) PROVE DataTypes' /\ CritsecHeld' /\ Heap' /\ ~undefined'
  <2>1. ~undefined' /\ critsecOwner' = critsecOwner
    BY <1>3, <1>22 DEF Locking, Locks
  <2>2. Leaves(t)
    BY <1>8, <1>22 DEF Locking, Leaves
  <2>3. DataTypes' /\ Heap'
    BY <1>1, <1>5, <1>6, <1>22, <2>2, LocksKeeps DEF Locking
  <2>4. CritsecHeld'
    BY <1>1, <1>8, <1>22, <2>1, CritsecKept DEF Locking
  <2> QED  BY <2>1, <2>3, <2>4
<1>23. ASSUME UnlockingMutex(t) PROVE DataTypes' /\ CritsecHeld' /\ Heap' /\ ~undefined'
  <2>1. ~undefined' /\ critsecOwner' = critsecOwner
    BY <1>3, <1>23 DEF UnlockingMutex, Unlocks
  <2>2. Leaves(t)
    BY <1>8, <1>23 DEF UnlockingMutex, Leaves
  <2>3. DataTypes' /\ Heap'
    BY <1>1, <1>5, <1>6, <1>23, <2>2, UnlocksKeeps DEF UnlockingMutex
  <2>4. CritsecHeld'
    BY <1>1, <1>8, <1>23, <2>1, CritsecKept DEF UnlockingMutex
  <2> QED  BY <2>1, <2>3, <2>4
<1>24. DataTypes' /\ CritsecHeld' /\ Heap' /\ (~undefined' \/ build \notin ShippedNames)
  BY <1>3, <1>10, <1>11, <1>12, <1>13, <1>14, <1>15, <1>16, <1>17, <1>18, <1>19, <1>20, <1>21, <1>22,
     <1>23, Zenon DEF UserStep
<1>25. OM!NeverLocksRaw'
  BY <1>1, <1>9, <1>24, CopiesAre DEF OM!NeverLocksRaw
<1> QED  BY <1>4, <1>8, <1>24, <1>25 DEF MonitorInv, Control

-----------------------------------------------------------------------------
(* Steps of the constructor and the destructor of the runtime              *)

LEMMA CtorIsStart ==
    ASSUME CallTypes, DataTypes, Control, NEW t \in Threads, fn[t] = "staticctor", OM!CallStep(t)
    PROVE  StartStep(t) /\ ~undefined
<1>1. /\ t = Main
      /\ inited \in BOOLEAN /\ attr \in {"none", "default", "recursive"}
      /\ critsec \in {"raw", "ready", "deleted"}
      /\ build \in AttrBuilds /\ inited => attr = "recursive"
      /\ build \in AttrBuilds /\ at[t] \in {4, 5} => attr = "recursive"
      /\ at[t] > 1 => ~inited
  BY DEF Control, Arguments, DataTypes, AttrReady, Starting
<1>2. CASE build \in AttrBuilds
  <2>1. ~undefined
    BY <1>2, CtorAttrStep
  <2>2. CASE at[t] = 1 /\ ~inited /\ GoesTo(t, 2) /\ Nothing
    <3>1. Globally(t)
      BY <1>1, <2>2 DEF Globally, Nothing
    <3>2. StartGoes(t, 2)
      BY <1>1, <2>2 DEF StartGoes, Nothing
    <3> QED  BY <1>1, <2>1, <2>2, <3>1, <3>2 DEF StartStep
  <2>3. CASE at[t] = 1 /\ inited /\ Returns(t) /\ Nothing
    <3>1. Globally(t)
      BY <1>1, <2>3 DEF Globally, Nothing
    <3> QED  BY <1>1, <2>1, <2>3, <3>1 DEF StartStep, Nothing
  <2>4. CASE at[t] = 2 /\ MakesAttr /\ GoesTo(t, 3)
    <3>1. Globally(t)
      BY <1>1, <2>4 DEF Globally, MakesAttr
    <3>2. StartGoes(t, 3)
      BY <1>1, <2>4 DEF StartGoes, MakesAttr
    <3> QED  BY <1>1, <2>1, <2>4, <3>1, <3>2 DEF StartStep
  <2>5. CASE at[t] = 3 /\ SetsType /\ GoesTo(t, 4)
    <3>1. Globally(t)
      BY <1>1, <2>5 DEF Globally, SetsType
    <3>2. StartGoes(t, 4)
      BY <1>1, <2>5 DEF StartGoes, SetsType
    <3> QED  BY <1>1, <2>1, <2>5, <3>1, <3>2 DEF StartStep
  <2>6. CASE at[t] = 4 /\ MakesCritsec /\ GoesTo(t, 5)
    <3>1. Globally(t)
      BY <1>1, <2>6 DEF Globally, MakesCritsec
    <3>2. StartGoes(t, 5)
      BY <1>1, <2>6 DEF StartGoes, MakesCritsec
    <3> QED  BY <1>1, <2>1, <2>6, <3>1, <3>2 DEF StartStep
  <2>7. CASE at[t] = 5 /\ SetsInited /\ Returns(t)
    <3>1. Globally(t)
      BY <1>1, <1>2, <2>7 DEF Globally, SetsInited
    <3> QED  BY <1>1, <2>1, <1>2, <2>7, <3>1 DEF StartStep, SetsInited
  <2> QED  BY <1>2, <2>1, <2>2, <2>3, <2>4, <2>5, <2>6, <2>7, CtorAttrStep
<1>3. CASE build \notin AttrBuilds
  <2>1. ~undefined
    BY <1>3, CtorPlainStep
  <2>2. CASE at[t] = 1 /\ ~inited /\ GoesTo(t, 2) /\ Nothing
    <3>1. Globally(t)
      BY <1>1, <2>2 DEF Globally, Nothing
    <3>2. StartGoes(t, 2)
      BY <1>1, <2>2 DEF StartGoes, Nothing
    <3> QED  BY <1>1, <2>1, <2>2, <3>1, <3>2 DEF StartStep
  <2>3. CASE at[t] = 1 /\ inited /\ Returns(t) /\ Nothing
    <3>1. Globally(t)
      BY <1>1, <2>3 DEF Globally, Nothing
    <3> QED  BY <1>1, <2>1, <2>3, <3>1 DEF StartStep, Nothing
  <2>4. CASE at[t] = 2 /\ MakesCritsec /\ GoesTo(t, 3)
    <3>1. Globally(t)
      BY <1>1, <1>3, <2>4 DEF Globally, MakesCritsec
    <3>2. StartGoes(t, 3)
      BY <1>1, <1>3, <2>4 DEF StartGoes, MakesCritsec
    <3> QED  BY <1>1, <2>1, <2>4, <3>1, <3>2 DEF StartStep
  <2>5. CASE at[t] = 3 /\ SetsInited /\ Returns(t)
    <3>1. Globally(t)
      BY <1>1, <1>3, <2>5 DEF Globally, SetsInited
    <3> QED  BY <1>1, <2>1, <1>3, <2>5, <3>1 DEF StartStep, SetsInited
  <2> QED  BY <1>3, <2>1, <2>2, <2>3, <2>4, <2>5, CtorPlainStep
<1> QED  BY <1>2, <1>3

LEMMA DtorIsStart ==
    ASSUME CallTypes, DataTypes, Control, NEW t \in Threads, fn[t] = "staticdtor", OM!CallStep(t)
    PROVE  StartStep(t) /\ ~undefined
<1>1. /\ t = Main
      /\ inited \in BOOLEAN /\ attr \in {"none", "default", "recursive"}
      /\ critsec \in {"raw", "ready", "deleted"}
      /\ build \in AttrBuilds /\ inited => attr = "recursive"
      /\ at[t] > 2 => ~inited
  BY DEF Control, Arguments, DataTypes, AttrReady, Starting
<1> DEFINE Rows == \/ at[t] = 1 /\ GoesTo(t, 2) /\ Nothing
                   \/ at[t] = 1 /\ Returns(t) /\ Nothing
                   \/ at[t] = 2 /\ ClearsInited /\ Returns(t)
                   \/ at[t] = 2 /\ ClearsInited /\ GoesTo(t, 3)
                   \/ at[t] = 3 /\ DeletesCritsec /\ Returns(t)
                   \/ at[t] = 3 /\ DeletesCritsec /\ GoesTo(t, 4)
                   \/ at[t] = 4 /\ MakesAttr /\ Returns(t)
<1>2. ~undefined /\ Rows
  <2>1. build \in AttrBuilds => ~undefined /\ Rows
    BY DtorAttrStep, Zenon
  <2>2. build \in KeepBuilds \ AttrBuilds => ~undefined /\ Rows
    BY DtorKeepStep, Zenon
  <2>3. build \notin KeepBuilds \cup AttrBuilds => ~undefined /\ Rows
    BY DtorPlainStep, Zenon
  <2> QED  BY <2>1, <2>2, <2>3
<1>3. CASE at[t] = 1 /\ GoesTo(t, 2) /\ Nothing
  <2>1. Globally(t)
    BY <1>1, <1>3 DEF Globally, Nothing
  <2>2. StartGoes(t, 2)
    BY <1>1, <1>3 DEF StartGoes, Nothing
  <2> QED  BY <1>1, <1>2, <1>3, <2>1, <2>2 DEF StartStep
<1>4. CASE at[t] = 1 /\ Returns(t) /\ Nothing
  <2>1. Globally(t)
    BY <1>1, <1>4 DEF Globally, Nothing
  <2> QED  BY <1>1, <1>2, <1>4, <2>1 DEF StartStep, Nothing
<1>5. CASE at[t] = 2 /\ ClearsInited /\ Returns(t)
  <2>1. Globally(t)
    BY <1>1, <1>5 DEF Globally, ClearsInited
  <2> QED  BY <1>1, <1>2, <1>5, <2>1 DEF StartStep, ClearsInited
<1>6. CASE at[t] = 2 /\ ClearsInited /\ GoesTo(t, 3)
  <2>1. Globally(t)
    BY <1>1, <1>6 DEF Globally, ClearsInited
  <2>2. StartGoes(t, 3)
    BY <1>1, <1>6 DEF StartGoes, ClearsInited
  <2> QED  BY <1>1, <1>2, <1>6, <2>1, <2>2 DEF StartStep
<1>7. CASE at[t] = 3 /\ DeletesCritsec /\ Returns(t)
  <2>1. Globally(t)
    BY <1>1, <1>7 DEF Globally, DeletesCritsec
  <2> QED  BY <1>1, <1>2, <1>7, <2>1 DEF StartStep, DeletesCritsec
<1>8. CASE at[t] = 3 /\ DeletesCritsec /\ GoesTo(t, 4)
  <2>1. Globally(t)
    BY <1>1, <1>8 DEF Globally, DeletesCritsec
  <2>2. StartGoes(t, 4)
    BY <1>1, <1>8 DEF StartGoes, DeletesCritsec
  <2> QED  BY <1>1, <1>2, <1>8, <2>1, <2>2 DEF StartStep
<1>9. CASE at[t] = 4 /\ MakesAttr /\ Returns(t)
  <2>1. Globally(t)
    BY <1>1, <1>9 DEF Globally, MakesAttr
  <2> QED  BY <1>1, <1>2, <1>9, <2>1 DEF StartStep, MakesAttr
<1> QED  BY <1>2, <1>3, <1>4, <1>5, <1>6, <1>7, <1>8, <1>9

\* A thread that is in none of the users' functions is at no place.
LEMMA Nowhere ==
    ASSUME NEW t, fn[t] \notin UserFunctions
    PROVE  /\ ~Locked(t) /\ ~Hand(t) /\ ~MayHand(t) /\ ~Made(t) /\ ~Empty(t) /\ ~Known(t)
           /\ ~Deletes(t) /\ Plain(t)
BY DEF UserFunctions, Functions, Locked, Hand, MayHand, Made, Empty, Known, Linked, Unready,
       Deletes, Gone, Clearing, Unlocking, InCreate, InEnter, Plain

LEMMA StartStepKeeps ==
    ASSUME MonitorInv, OM!Parameters, NEW t \in Threads, fn[t] \in StartFunctions, OM!CallStep(t)
    PROVE  MonitorInv'
<1>1. /\ CallTypes /\ DataTypes /\ Control /\ Heap
      /\ null \notin Threads \cup Objects \cup Monitors /\ Main \in Threads
      /\ fn[t] # "none" /\ t = Main /\ obj[t] = null
  BY DEF MonitorInv, OM!Parameters, StartFunctions, Control, Arguments
<1>2. StartStep(t) /\ ~undefined
  BY <1>1, CtorIsStart, DtorIsStart DEF StartFunctions
<1>3. CallTypes'
  BY <1>1, CallTypesKept
<1>4. PICK f, i : /\ Moves(t, f, i, null)
                  /\ \/ f = "none" /\ i = 1
                     \/ /\ f = fn[t]
                        /\ fn[t] = "staticctor" \/ i > 2 => ~inited'
                        /\ build \in AttrBuilds /\ fn[t] = "staticctor" /\ i \in {4, 5}
                               => attr' = "recursive"
  BY <1>1, <1>2 DEF StartStep, StartGoes, GoesTo, Returns
<1>5. Others(t)
  BY <1>1, <1>4, OthersStay
<1>6. /\ fn'[t] = f /\ at'[t] = i /\ obj'[t] = null /\ build' = build
      /\ \A u \in Threads \ {t} : fn'[u] = fn[u] /\ at'[u] = at[u] /\ obj'[u] = obj[u]
      /\ f \in {"none", "staticctor", "staticdtor"} /\ fn[t] \in StartFunctions
  BY <1>1, <1>4 DEF Moves, CallTypes, StartFunctions
<1>7. DataTypes'
  BY <1>1, <1>2 DEF DataTypes, StartStep, Globally
<1>8. /\ ~Locked(t) /\ ~Hand(t) /\ ~MayHand(t) /\ ~Made(t) /\ Plain(t) /\ ~Deletes(t)
      /\ ~Locked(t)' /\ ~Hand(t)' /\ ~MayHand(t)' /\ ~Made(t)' /\ ~Empty(t)' /\ ~Known(t)'
      /\ ~Deletes(t)' /\ Plain(t)'
  <2>1. fn[t] \notin UserFunctions /\ fn'[t] \notin UserFunctions
    BY <1>6 DEF StartFunctions, UserFunctions, Functions
  <2> QED  BY <2>1, Nowhere DEF Locked, Hand, MayHand, Made, Empty, Known, Linked, Unready,
               Deletes, Gone, Clearing, Unlocking, InCreate, InEnter, Plain, UserFunctions, Functions
<1>9. cs[t] = null
  BY <1>1, <1>8 DEF Heap, Blocks
<1>10. Arguments'
  <2> SUFFICES ASSUME NEW u \in Threads
               PROVE  /\ fn'[u] = "none" => at'[u] = 1
                      /\ fn'[u] \in {"none", "staticctor", "staticdtor"} => obj'[u] = null
                      /\ fn'[u] \in {"staticctor", "staticdtor"} => u = Main
                      /\ fn'[u] \in Functions \ {"staticctor", "staticdtor"} => obj'[u] \in Objects
    BY DEF Arguments
  <2>1. CASE u = t
    BY <1>1, <1>4, <1>6, <2>1 DEF StartFunctions, Functions
  <2>2. CASE u # t
    BY <1>1, <1>6, <2>2 DEF Control, Arguments
  <2> QED  BY <2>1, <2>2
<1>11. ~(inited /\ fn[t] = "staticctor") \/ (inited' /\ fn'[Main] = "none")
  BY <1>1, <1>2 DEF StartStep, Returns, Moves, CallTypes
<1>12. ~inited \/ fn[Main] = "staticdtor" \/ (inited' /\ fn'[Main] = "none")
  BY <1>1, <1>11 DEF StartFunctions
<1>13. Quiet'
  <2>1. ~inited \/ fn[Main] = "staticdtor" =>
           /\ \A u \in Threads \ {Main} : fn'[u] = "none"
           /\ fn'[Main] \in {"none", "staticctor", "staticdtor"}
           /\ \A u \in Threads, o \in Objects : holds'[u][o] = 0
    BY <1>1, <1>2, <1>6 DEF Control, Quiet, StartStep, Globally
  <2> QED  BY <1>12, <2>1 DEF Quiet
<1>14. Starting'
  BY <1>1, <1>4, <1>6 DEF Starting
<1>15. AttrReady'
  BY <1>1, <1>2, <1>4, <1>6 DEF AttrReady, StartStep, Globally
<1>16. CritsecHeld'
  <2>1. CASE critsecOwner' = critsecOwner
    BY <1>1, <1>5, <1>8, <2>1, CritsecKept DEF Control
  <2>2. CASE critsecOwner' = null /\ ~inited
    <3>1. \A u \in Threads \ {t} : fn[u] \notin UserFunctions
      BY <1>1, <2>2 DEF Control, Quiet, UserFunctions, Functions
    <3>2. \A u \in Threads \ {t} : ~Locked(u)
      BY <3>1, Nowhere
    <3>3. \A u \in Threads : ~Locked(u)'
      BY <1>5, <1>8, <3>2 DEF Others
    <3> QED  BY <1>1, <2>2, <3>3 DEF CritsecHeld
  <2> QED  BY <1>2, <2>1, <2>2 DEF StartStep, Globally
<1>17. Heap'
  <2>1. \A u \in Threads : Deletes(u) => obj[u] # null
    BY <1>1, Given
  <2>2. UNCHANGED <<cs, monitor, heap, owner, depth, holds>>
    BY <1>2 DEF StartStep, Globally
  <2>3. obj'[t] = obj[t]
    BY <1>1, <1>6
  <2> QED  BY <1>1, <1>5, <1>8, <1>9, <2>1, <2>2, <2>3, QuietKeeps
<1>18. OM!NeverLocksRaw'
  BY <1>1, <1>2, <1>6 DEF StartStep, Globally, OM!NeverLocksRaw
<1> QED
  BY <1>3, <1>7, <1>10, <1>13, <1>14, <1>15, <1>16, <1>17, <1>18 DEF MonitorInv, Control

\* Who takes a step is in some function.
LEMMA StepsInside ==
    ASSUME NEW t, OM!CallStep(t)
    PROVE  fn[t] # "none"
BY DEF OM!CallStep, OM!Test, OM!Tests, OM!Does, OM!AtStep, OM!Idle, OM!InitAttr, OM!SetAttrType,
       OM!DeleteAttr, OM!InitCritsec, OM!DeleteCritsec, OM!SetInited, OM!ClearInited,
       OM!LockCritsec, OM!UnlockCritsec, OM!Calloc, OM!SetMonitor, OM!ForgetCs, OM!FreeCs,
       OM!DeleteMutex, OM!FreeMonitor, OM!ClearMonitor, OM!UnlockMutex, OM!InitMutex, OM!LockMutex,
       OM!LockRawMutex

LEMMA StepKeeps ==
    ASSUME MonitorInv, OM!Parameters, NEW t \in Threads, OM!CallStep(t)
    PROVE  MonitorInv'
<1>1. fn[t] \in UserFunctions \/ fn[t] \in StartFunctions
  BY StepsInside DEF MonitorInv, CallTypes, UserFunctions, StartFunctions
<1> QED  BY <1>1, UserStepKeeps, StartStepKeeps

-----------------------------------------------------------------------------
(* Calls                                                                   *)

\* What a copy has, and that none of its functions is empty.
LEMMA CopyHas ==
    ASSUME build \in DOMAIN OM!MonitorCode
    PROVE  /\ OM!Is("staticctor") /\ OM!Is("staticdtor")
           /\ (OM!Is("create") /\ OM!Is("lock")) \/ OM!Is("enter")
           /\ OM!Is("unlock") \/ OM!Is("exit")
           /\ OM!Is("destroy") \/ OM!Is("release")
           /\ \A f : OM!Is(f) => f \in Functions /\ 1 \in 1 .. Len(OM!MonitorCode[build][f])
<1> DEFINE c == OM!MonitorCode[build]
<1>1. /\ c = CopyOf(build)
      /\ \A n : n = 1 \/ n = 2 \/ n = 3 \/ n = 4 \/ n = 5 \/ n = 9 \/ n = 10 \/ n = 11 => 1 \in 1 .. n
  BY CopiesAre
<1>2. 1 \in 1 .. Len(Ctor(build))
  BY <1>1, CtorSteps
<1>3. 1 \in 1 .. Len(Dtor(build))
  BY <1>1, DtorSteps
<1>4. CASE build \in ShippedNames
  <2>1. c = OM!Shipped(Ctor(build), Dtor(build), OM!Create(InitStep(build)))
    BY <1>1, <1>4 DEF CopyOf
  <2>2. LooksShipped(c, Ctor(build), Dtor(build), OM!Create(InitStep(build)))
    BY <2>1, ShippedIs, Zenon
  <2>3. DOMAIN c = {"staticctor", "staticdtor", "create", "destroy", "lock", "unlock"}
    BY <2>2 DEF LooksShipped
  <2>4. Len(c["create"]) = 9
    BY <2>2, CreateSteps DEF LooksShipped
  <2>5. ASSUME NEW f \in DOMAIN c PROVE f \in Functions /\ 1 \in 1 .. Len(c[f])
    BY <1>1, <1>2, <1>3, <2>2, <2>3, <2>4 DEF LooksShipped, Functions
  <2> QED  BY <2>3, <2>5 DEF OM!Is
<1>5. CASE build \notin ShippedNames
  <2>1. c = OM!Proposed(Ctor(build), Dtor(build), InitStep(build))
    BY <1>1, <1>5 DEF CopyOf
  <2>2. LooksProposed(c, Ctor(build), Dtor(build), InitStep(build))
    BY <2>1, ProposedIs, Zenon
  <2>3. DOMAIN c = {"staticctor", "staticdtor", "enter", "exit", "get", "release"}
    BY <2>2 DEF LooksProposed
  <2>4. Len(c["enter"]) = 11 /\ Len(c["get"]) = 10
    BY <2>2, EnterSteps, GetSteps DEF LooksProposed
  <2>5. ASSUME NEW f \in DOMAIN c PROVE f \in Functions /\ 1 \in 1 .. Len(c[f])
    BY <1>1, <1>2, <1>3, <2>2, <2>3, <2>4 DEF LooksProposed, Functions
  <2> QED  BY <2>3, <2>5 DEF OM!Is
<1> QED  BY <1>4, <1>5

LEMMA CallKeeps ==
    ASSUME MonitorInv, OM!Parameters, NEW t \in Threads, NEW f, NEW o, OM!Calls(t, f, o),
           OM!Is(f), MayCall(t, f, o)
    PROVE  MonitorInv'
<1>1. /\ CallTypes /\ DataTypes /\ Control /\ Heap
      /\ null \notin Threads \cup Objects \cup Monitors /\ Main \in Threads
      /\ build \in DOMAIN OM!MonitorCode
  BY DEF MonitorInv, OM!Parameters, CallTypes
<1>2. /\ fn[t] = "none" /\ at[t] = 1 /\ obj[t] = null
      /\ fn' = [fn EXCEPT ![t] = f] /\ obj' = [obj EXCEPT ![t] = o] /\ at' = at /\ build' = build
      /\ UNCHANGED <<cs, inited, attr, critsec, critsecOwner, monitor, heap, owner, depth, holds,
                     undefined>>
  BY <1>1 DEF OM!Calls, OM!Idle, OM!globals, OM!memory, OM!locks, Control, Arguments
<1>3. f \in Functions /\ 1 \in 1 .. Len(OM!MonitorCode[build][f])
  BY <1>1, CopyHas
<1>4. /\ fn'[t] = f /\ at'[t] = 1 /\ obj'[t] = o
      /\ \A u \in Threads \ {t} : fn'[u] = fn[u] /\ at'[u] = at[u] /\ obj'[u] = obj[u]
      /\ f \in StartFunctions \/ f \in UserFunctions
      /\ o \in Objects \cup {null}
  BY <1>1, <1>2, <1>3 DEF CallTypes, MayCall, StartFunctions, UserFunctions
<1>5. Others(t)
  <2>1. Moves(t, f, 1, o)
    BY <1>1, <1>2 DEF Moves, CallTypes
  <2> QED  BY <1>1, <2>1, OthersStay
<1>6. CallTypes'
  <2>1. ASSUME NEW u \in Threads, fn'[u] # "none" PROVE InCode(u)'
    <3>1. CASE u = t
      BY <1>2, <1>3, <1>4, <3>1 DEF InCode, OM!Is, OM!Body
    <3>2. CASE u # t
      BY <1>1, <1>2, <1>4, <2>1, <3>2 DEF CallTypes, InCode, OM!Is, OM!Body
    <3> QED  BY <3>1, <3>2
  <2> QED  BY <1>1, <1>2, <1>3, <1>4, <2>1 DEF CallTypes
<1>7. DataTypes'
  BY <1>1, <1>2 DEF DataTypes
<1>8. /\ ~Locked(t) /\ ~Hand(t) /\ ~MayHand(t) /\ ~Made(t) /\ Plain(t) /\ ~Deletes(t) /\ ~Empty(t)
      /\ cs[t] = null
  <2>1. fn[t] \notin UserFunctions
    BY <1>2 DEF UserFunctions, Functions
  <2> QED  BY <1>1, <2>1, Nowhere DEF Heap, Blocks
<1>9. /\ ~Locked(t)' /\ ~Hand(t)' /\ ~MayHand(t)' /\ ~Made(t)' /\ ~Empty(t)' /\ ~Linked(t)'
      /\ ~Unready(t)' /\ ~Gone(t)' /\ ~Clearing(t)'
      /\ Known(t)' => monitor[o] # null
      /\ Deletes(t)' => \A u \in Threads : holds[u][o] = 0 /\ obj[u] # o
      /\ Unlocking(t)' => holds[t][o] > 0
  <2>1. Known(t)' <=> fn'[t] \in {"lock", "unlock", "exit", "destroy", "release"}
    BY <1>4 DEF Known, InCreate, InEnter
  <2>2. /\ ~Locked(t)' /\ ~Hand(t)' /\ ~MayHand(t)' /\ ~Made(t)' /\ ~Empty(t)' /\ ~Linked(t)'
        /\ ~Unready(t)' /\ ~Gone(t)' /\ ~Clearing(t)'
    BY <1>4 DEF Locked, Hand, MayHand, Made, Empty, Linked, Unready, Gone, Clearing, InCreate, InEnter
  <2> QED  BY <1>4, <2>1, <2>2 DEF MayCall, Deletes, Unlocking
<1>10. \A u \in Threads : Deletes(u) => obj[u] # o
  BY DEF MayCall
<1>11. Arguments'
  <2> SUFFICES ASSUME NEW u \in Threads
               PROVE  /\ fn'[u] = "none" => at'[u] = 1
                      /\ fn'[u] \in {"none", "staticctor", "staticdtor"} => obj'[u] = null
                      /\ fn'[u] \in {"staticctor", "staticdtor"} => u = Main
                      /\ fn'[u] \in Functions \ {"staticctor", "staticdtor"} => obj'[u] \in Objects
    BY DEF Arguments
  <2>1. CASE u = t
    BY <1>3, <1>4, <2>1 DEF MayCall, StartFunctions, UserFunctions, Functions
  <2>2. CASE u # t
    BY <1>1, <1>4, <2>2 DEF Control, Arguments
  <2> QED  BY <2>1, <2>2
<1>12. Quiet'
  <2>1. CASE f \in UserFunctions
    <3>1. inited' /\ fn'[Main] # "staticdtor"
      BY <1>1, <1>2, <1>4, <2>1 DEF MayCall, UserFunctions
    <3> QED  BY <3>1 DEF Quiet
  <2>2. CASE f = "staticctor"
    <3>1. t = Main /\ fn'[Main] = "staticctor"
      BY <1>4, <2>2 DEF MayCall, StartFunctions
    <3> QED  BY <1>1, <1>2, <1>4, <3>1 DEF Control, Quiet
  <2>3. CASE f = "staticdtor"
    <3>1. t = Main /\ fn'[Main] = "staticdtor"
      BY <1>4, <2>3 DEF MayCall, StartFunctions
    <3> QED  BY <1>2, <1>4, <2>3, <3>1 DEF MayCall, Quiet
  <2> QED  BY <1>4, <2>1, <2>2, <2>3 DEF StartFunctions
<1>13. at'[Main] = at[Main] /\ (fn'[Main] = fn[Main] \/ at'[Main] = 1)
  BY <1>1, <1>2, <1>4
<1>14. Starting'
  BY <1>1, <1>2, <1>13 DEF Control, Starting
<1>15. AttrReady'
  BY <1>1, <1>2, <1>13 DEF Control, AttrReady
<1>16. CritsecHeld'
  BY <1>1, <1>2, <1>5, <1>8, <1>9, CritsecKept DEF Control
<1> USE DEF Heap
<1>17. Blocks'
  BY <1>1, <1>2, <1>5, <1>8, <1>9 DEF Blocks, Others
<1>18. MonitorKnown'
  BY <1>1, <1>2, <1>4, <1>5, <1>9 DEF MonitorKnown, Others
<1>19. \A p \in Objects : Stale(p)' <=> Stale(p)
  BY <1>5, <1>8, <1>9 DEF Stale, Others, Plain
<1>20. MonitorHeap'
  BY <1>1, <1>2, <1>5, <1>8, <1>9, <1>19 DEF MonitorHeap, Others, Plain
<1>21. Unshared'
  BY <1>1, <1>2, <1>5, <1>8, <1>9, <1>19 DEF Unshared, Others, Plain
<1>22. Accounted'
  BY <1>1, <1>2, <1>19 DEF Accounted
<1>23. LocksKept'
  BY <1>1, <1>2, <1>4, <1>5, <1>9 DEF LocksKept, Others
<1>24. DeleterAlone'
  BY <1>1, <1>2, <1>4, <1>5, <1>9, <1>10 DEF DeleterAlone, Others
<1>25. OM!NeverLocksRaw'
  BY <1>2 DEF MonitorInv, OM!NeverLocksRaw
<1> QED
  BY <1>6, <1>7, <1>11, <1>12, <1>14, <1>15, <1>16, <1>17, <1>18, <1>20, <1>21, <1>22, <1>23, <1>24,
     <1>25 DEF MonitorInv, Control

\* Whoever uses an object that may be used.
LEMMA UsableIs ==
    ASSUME NEW o, OM!Usable(o)
    PROVE  \A u \in Threads : Deletes(u) => obj[u] # o
BY DEF OM!Usable, OM!Deleting, Deletes

LEMMA UseKeeps ==
    ASSUME MonitorInv, OM!Parameters, NEW t \in Threads, NEW o \in Objects,
           OM!Enter(t, o) \/ OM!Exit(t, o) \/ OM!Get(t, o) \/ OM!Delete(t, o)
    PROVE  MonitorInv'
<1>1. build \in DOMAIN OM!MonitorCode /\ Control /\ DataTypes /\ Heap /\ null \notin Objects
  BY DEF MonitorInv, CallTypes, OM!Parameters
<1> USE DEF StartFunctions, UserFunctions, Functions
<1>2. CASE OM!Enter(t, o)
  <2>1. PICK f \in {"enter", "create", "lock"} :
           OM!Calls(t, f, o) /\ OM!Is(f) /\ (f = "lock" => monitor[o] # null)
    BY <1>1, <1>2, CopyHas DEF OM!Enter
  <2>2. inited /\ fn[Main] # "staticdtor" /\ \A u \in Threads : Deletes(u) => obj[u] # o
    BY <1>2, UsableIs DEF OM!Enter, OM!Running
  <2>3. MayCall(t, f, o)
    BY <2>1, <2>2 DEF MayCall
  <2> QED  BY <2>1, <2>3, CallKeeps
<1>3. CASE OM!Exit(t, o)
  <2>1. PICK f \in {"unlock", "exit"} : OM!Calls(t, f, o) /\ OM!Is(f)
    BY <1>1, <1>3, CopyHas DEF OM!Exit
  <2>2. holds[t][o] > 0 /\ monitor[o] # null
    BY <1>1, <1>3 DEF OM!Exit, Heap, LocksKept
  <2>3. inited /\ fn[Main] # "staticdtor"
    <3>1. holds[t][o] # 0
      BY <2>2
    <3> QED  BY <1>1, <3>1 DEF Control, Quiet
  <2>4. \A u \in Threads : Deletes(u) => obj[u] # o
    BY <1>1, <2>2 DEF Heap, DeleterAlone
  <2>5. MayCall(t, f, o)
    BY <2>1, <2>2, <2>3, <2>4 DEF MayCall
  <2> QED  BY <2>1, <2>5, CallKeeps
<1>4. CASE OM!Get(t, o)
  <2>1. OM!Calls(t, "get", o) /\ OM!Is("get")
    BY <1>4 DEF OM!Get
  <2>2. inited /\ fn[Main] # "staticdtor" /\ \A u \in Threads : Deletes(u) => obj[u] # o
    BY <1>4, UsableIs DEF OM!Get, OM!Running
  <2>3. MayCall(t, "get", o)
    BY <2>2 DEF MayCall
  <2> QED  BY <2>1, <2>3, CallKeeps
<1>5. CASE OM!Delete(t, o)
  <2>1. PICK f \in {"release", "destroy"} : OM!Calls(t, f, o) /\ OM!Is(f)
    BY <1>1, <1>5, CopyHas DEF OM!Delete
  <2>2. /\ inited /\ fn[Main] # "staticdtor" /\ monitor[o] # null
        /\ \A u \in Threads : obj[u] # o /\ holds[u][o] = 0
    BY <1>5 DEF OM!Delete, OM!Running
  <2>3. MayCall(t, f, o)
    BY <2>1, <2>2 DEF MayCall
  <2> QED  BY <2>1, <2>3, CallKeeps
<1> QED  BY <1>2, <1>3, <1>4, <1>5

LEMMA StartKeeps ==
    ASSUME MonitorInv, OM!Parameters, NEW t \in Threads, OM!Start(t) \/ OM!Stop(t)
    PROVE  MonitorInv'
<1>1. build \in DOMAIN OM!MonitorCode /\ CallTypes /\ Control /\ null \notin Objects
  BY DEF MonitorInv, CallTypes, OM!Parameters
<1>2. \A u \in Threads : Deletes(u) => obj[u] # null
  BY <1>1, Given
<1> USE DEF StartFunctions, UserFunctions, Functions
<1>3. CASE OM!Start(t)
  <2>1. OM!Calls(t, "staticctor", null) /\ t = Main
    BY <1>3 DEF OM!Start
  <2>2. MayCall(t, "staticctor", null)
    BY <1>2, <2>1 DEF MayCall
  <2> QED  BY <1>1, <2>1, <2>2, CopyHas, CallKeeps
<1>4. CASE OM!Stop(t)
  <2>1. /\ OM!Calls(t, "staticdtor", null) /\ t = Main
        /\ \A u \in Threads : fn[u] = "none" /\ \A p \in Objects : holds[u][p] = 0
    BY <1>4 DEF OM!Stop, OM!Idle
  <2>2. MayCall(t, "staticdtor", null)
    BY <1>2, <2>1 DEF MayCall
  <2> QED  BY <1>1, <2>1, <2>2, CopyHas, CallKeeps
<1> QED  BY <1>3, <1>4

LEMMA MonitorStarts ==
    ASSUME OM!Init, OM!Parameters
    PROVE  MonitorInv
<1>1. /\ build \in DOMAIN OM!MonitorCode /\ inited = FALSE /\ undefined = FALSE
      /\ null \notin Threads \cup Objects \cup Monitors /\ Main \in Threads
      /\ fn = [t \in Threads |-> "none"] /\ at = [t \in Threads |-> 1]
      /\ obj = [t \in Threads |-> null] /\ cs = [t \in Threads |-> null]
      /\ attr = "none" /\ critsec = "raw" /\ critsecOwner = null
      /\ monitor = [o \in Objects |-> null] /\ heap = [m \in Monitors |-> "free"]
      /\ owner = [m \in Monitors |-> null] /\ depth = [m \in Monitors |-> 0]
      /\ holds = [t \in Threads |-> [o \in Objects |-> 0]]
  BY DEF OM!Init, OM!Parameters
<1>2. CallTypes
  BY <1>1 DEF CallTypes
<1>3. DataTypes
  BY <1>1 DEF DataTypes
<1>4. \A t \in Threads : /\ ~Locked(t) /\ ~Hand(t) /\ ~Made(t) /\ ~Empty(t) /\ ~Known(t) /\ Plain(t)
                         /\ ~Deletes(t)
  <2> SUFFICES ASSUME NEW t \in Threads
               PROVE  /\ ~Locked(t) /\ ~Hand(t) /\ ~Made(t) /\ ~Empty(t) /\ ~Known(t) /\ Plain(t)
                      /\ ~Deletes(t)
    OBVIOUS
  <2>1. fn[t] \notin UserFunctions
    BY <1>1 DEF UserFunctions, Functions
  <2> QED  BY <2>1, Nowhere
<1>5. Arguments /\ Quiet /\ Starting /\ AttrReady
  BY <1>1 DEF Arguments, Quiet, Starting, AttrReady, Functions
<1>6. CritsecHeld
  BY <1>1, <1>4 DEF CritsecHeld
<1>7. Blocks /\ MonitorKnown /\ DeleterAlone /\ MonitorHeap
  BY <1>1, <1>4 DEF Blocks, MonitorKnown, DeleterAlone, MonitorHeap, Plain
<1>8. Unshared /\ Accounted /\ LocksKept
  BY <1>1, <1>4 DEF Unshared, Accounted, LocksKept, Plain
<1> QED
  BY <1>1, <1>2, <1>3, <1>5, <1>6, <1>7, <1>8 DEF MonitorInv, Control, Heap, OM!NeverLocksRaw

-----------------------------------------------------------------------------
(* The program                                                             *)

LEMMA MonitorStutters ==
    ASSUME MonitorInv, UNCHANGED monitorVars
    PROVE  MonitorInv'
<1>1. UNCHANGED <<build, fn, at, obj, cs, inited, attr, critsec, critsecOwner, monitor, heap,
                  owner, depth, holds, undefined>>
  BY DEF monitorVars
<1>2. CallTypes' /\ DataTypes'
  BY <1>1 DEF MonitorInv, CallTypes, DataTypes, InCode, OM!Is, OM!Body
<1>3. /\ Arguments' /\ Quiet' /\ Starting' /\ AttrReady'
  BY <1>1 DEF MonitorInv, Control, Arguments, Quiet, Starting, AttrReady
<1>4. \A t : /\ Locked(t)' <=> Locked(t)
             /\ Hand(t)' <=> Hand(t)
             /\ MayHand(t)' <=> MayHand(t)
             /\ Made(t)' <=> Made(t)
             /\ Empty(t)' <=> Empty(t)
             /\ Known(t)' <=> Known(t)
             /\ Linked(t)' <=> Linked(t)
             /\ Unready(t)' <=> Unready(t)
             /\ Deletes(t)' <=> Deletes(t)
             /\ Gone(t)' <=> Gone(t)
             /\ Clearing(t)' <=> Clearing(t)
             /\ Unlocking(t)' <=> Unlocking(t)
  BY <1>1 DEF Locked, Hand, MayHand, Made, Empty, Known, Linked, Unready, Deletes, Gone, Clearing,
              Unlocking, InCreate, InEnter
<1>5. CritsecHeld'
  BY <1>1, <1>4 DEF MonitorInv, Control, CritsecHeld
<1>6. \A o \in Objects : Stale(o)' <=> Stale(o)
  BY <1>1, <1>4 DEF Stale
<1>7. Blocks' /\ MonitorKnown' /\ DeleterAlone' /\ MonitorHeap'
  BY <1>1, <1>4, <1>6 DEF MonitorInv, Heap, Blocks, MonitorKnown, DeleterAlone, MonitorHeap
<1>8. Unshared' /\ Accounted' /\ LocksKept'
  BY <1>1, <1>4, <1>6 DEF MonitorInv, Heap, Unshared, Accounted, LocksKept
<1>9. OM!NeverLocksRaw'
  BY <1>1 DEF MonitorInv, OM!NeverLocksRaw
<1> QED  BY <1>2, <1>3, <1>5, <1>7, <1>8, <1>9 DEF MonitorInv, Control, Heap

LEMMA MonitorInvIsInductive ==
    /\ Init => MonitorInv
    /\ MonitorInv /\ [Next]_vars => MonitorInv'
<1>1. Init => MonitorInv
  BY MonitorParameters, MonitorStarts DEF Init
<1>2. ASSUME MonitorInv, UNCHANGED vars PROVE MonitorInv'
  BY <1>2, MonitorStutters DEF vars
<1>3. ASSUME MonitorInv, NEW t \in Threads, MonitorStep(t) PROVE MonitorInv'
  BY <1>3, MonitorParameters, StepKeeps DEF MonitorStep
<1>4. ASSUME MonitorInv, NEW t \in Threads, UseObject(t) PROVE MonitorInv'
  BY <1>4, MonitorParameters, UseKeeps DEF UseObject
<1>5. ASSUME MonitorInv, NEW t \in Threads, SectionStep(t) \/ UseSection(t) PROVE MonitorInv'
  BY <1>5, MonitorStutters DEF SectionStep, UseSection
<1>6. ASSUME MonitorInv, NEW t \in Threads, Start(t) PROVE MonitorInv'
  BY <1>6, MonitorParameters, StartKeeps, MonitorStutters DEF Start
<1>7. ASSUME MonitorInv, NEW t \in Threads, Stop(t) PROVE MonitorInv'
  BY <1>7, MonitorParameters, StartKeeps, MonitorStutters DEF Stop
<1> QED  BY <1>1, <1>2, <1>3, <1>4, <1>5, <1>6, <1>7 DEF Next

\* The invariant of monitor.c: at any time it is known of each thread in one of
\* its functions what has become of the block in its hand and of its object's monitor,
\* and of each block who has it; critsec is held by who is inside, the holder of an
\* object owns the mutex of its monitor as deep as it has nested, and only the copies
\* of the proposal lock a block that is not a mutex.
THEOREM MonitorInvAlways == Spec => []MonitorInv
BY MonitorInvIsInductive, PTL DEF Spec

LEMMA BlocksFollow ==
    ASSUME MonitorInv, OM!Parameters
    PROVE  BlocksAccounted
<1>1. /\ CallTypes /\ DataTypes /\ Control /\ Heap /\ build \in DOMAIN OM!MonitorCode
      /\ null \notin Threads \cup Objects \cup Monitors
  BY DEF MonitorInv, OM!Parameters, CallTypes
<1>2. ASSUME NEW t \in Threads, Clearing(t) PROVE OM!AtStep(t, "clear monitor")
  <2>1. fn[t] # "none" /\ InCode(t)
    BY <1>1, <1>2 DEF Clearing, CallTypes
  <2> QED  BY <1>1, <1>2, <2>1, OtherRuns DEF Clearing, Runs, OM!AtStep, OM!Idle
<1>3. ASSUME NEW o \in Objects, Stale(o)
      PROVE  \E t \in Threads : OM!AtStep(t, "clear monitor") /\ obj[t] = o
  BY <1>2, <1>3 DEF Stale
<1>4. ASSUME NEW m \in Monitors, heap[m] # "free" PROVE OM!Held(m) # {}
  BY <1>1, <1>4 DEF Heap, Accounted, OM!Held
<1>5. ASSUME NEW m \in Monitors, heap[m] = "free", NEW x \in OM!Held(m)
      PROVE  \E t \in Threads : OM!AtStep(t, "clear monitor") /\ obj[t] = x
  <2>1. m # null
    BY <1>1
  <2>2. CASE x \in Threads /\ cs[x] = m
    BY <1>1, <1>5, <2>1, <2>2 DEF Heap, Blocks
  <2>3. CASE x \in Objects /\ monitor[x] = m
    <3>1. Stale(x)
      BY <1>1, <1>5, <2>1, <2>3 DEF Heap, MonitorHeap
    <3> QED  BY <1>3, <2>3, <3>1
  <2> QED  BY <2>2, <2>3 DEF OM!Held
<1>6. ASSUME NEW m \in Monitors, NEW o \in Objects, NEW p \in Objects,
             monitor[o] = m, monitor[p] = m, o # p
      PROVE  \E t \in Threads : obj[t] \in {o, p} /\ OM!AtStep(t, "clear monitor")
  <2>1. Stale(o) \/ Stale(p)
    BY <1>1, <1>6 DEF Heap, Unshared
  <2> QED  BY <1>3, <2>1
<1> QED  BY <1>4, <1>5, <1>6 DEF BlocksAccounted, OM!BlocksAccounted

\* Two threads that lock an object for the first time at once may both allocate a
\* monitor: every block is the monitor of one object or in the hand of one thread, the
\* loser frees its own, and a freed block is an object's only until that is cleared.
THEOREM SpecBlocksAccounted == Spec => []BlocksAccounted
<1>1. MonitorInv => BlocksAccounted
  BY MonitorParameters, BlocksFollow
<1> QED  BY <1>1, MonitorInvAlways, PTL

-----------------------------------------------------------------------------
(* The code of critical.c                                                  *)

LEMMA SectionCopiesAre ==
    ASSUME NEW c \in DOMAIN CS!CriticalCode
    PROVE  /\ c \in SectionsWin32 \cup SectionsAttr \cup {"GdcAlreadyRecursive"}
           /\ SectionForm(CS!CriticalCode[c], SectionInit(c), SectionTerm(c), SectionEnter(c))
           /\ DOMAIN CS!CriticalCode[c] = {"init", "term", "enter", "exit"}
<1>1. /\ CS!CriticalCode["DmdWin32"] = CS!CriticalDmdWin32
      /\ CS!CriticalCode["DmdPosix"] = CS!CriticalDmdPosix
      /\ CS!CriticalCode["GdcWin32"] = CS!CriticalGdcWin32
      /\ CS!CriticalCode["GdcPosix"] = CS!CriticalGdcPosix
      /\ CS!CriticalCode["GdcAlreadyRecursive"] = CS!CriticalGdcAlreadyRecursive
      /\ CS!CriticalCode["LdcWin32"] = CS!CriticalLdcWin32
      /\ CS!CriticalCode["LdcPosix"] = CS!CriticalLdcPosix
      /\ c \in SectionsWin32 \cup SectionsAttr \cup {"GdcAlreadyRecursive"}
  BY DEF CS!CriticalCode, SectionsWin32, SectionsAttr
<1>2. CS!CriticalCode[c] = CS!Critical(SectionInit(c), SectionTerm(c), SectionEnter(c))
  BY <1>1 DEF SectionsWin32, SectionsAttr, SectionInit, SectionTerm, SectionEnter, SectionStart,
              CS!CriticalDmdWin32, CS!CriticalDmdPosix, CS!CriticalGdcWin32, CS!CriticalGdcPosix,
              CS!CriticalGdcAlreadyRecursive, CS!CriticalLdcWin32, CS!CriticalLdcPosix
<1>3. \A i, t, e : /\ SectionForm(CS!Critical(i, t, e), i, t, e)
                   /\ DOMAIN CS!Critical(i, t, e) = {"init", "term", "enter", "exit"}
  BY DEF SectionForm, CS!Critical, CS!Do, Entry
<1> QED  BY <1>1, <1>2, <1>3, Zenon

LEMMA CommonIs ==
    ASSUME NEW c, NEW i, NEW k \in {0, 5, 7},
           c[k + 1] = CS!If("no next", 6), c[k + 2] = CS!Do("lock global"),
           c[k + 3] = CS!If("no next", 3), c[k + 4] = CS!Do("set next"),
           c[k + 5] = CS!Do("set list"), c[k + 6] = CS!Do(i), c[k + 7] = CS!Do("unlock global"),
           c[k + 8] = CS!Do("lock section")
    PROVE  Common(c, k, i)
BY DEF Common, Entry, CS!If, CS!Do

LEMMA PlainSteps ==
    ASSUME NEW i, NEW c, c = CS!Enter(i)
    PROVE  Len(c) = 8 /\ Common(c, 0, i)
<1>1. /\ Len(c) = 8
      /\ c[1] = CS!If("no next", 6) /\ c[2] = CS!Do("lock global") /\ c[3] = CS!If("no next", 3)
      /\ c[4] = CS!Do("set next") /\ c[5] = CS!Do("set list") /\ c[6] = CS!Do(i)
      /\ c[7] = CS!Do("unlock global") /\ c[8] = CS!Do("lock section")
  BY DEF CS!Enter
<1>2. /\ 0 + 1 = 1 /\ 0 + 2 = 2 /\ 0 + 3 = 3 /\ 0 + 4 = 4 /\ 0 + 5 = 5 /\ 0 + 6 = 6 /\ 0 + 7 = 7
      /\ 0 + 8 = 8 /\ 0 \in {0, 5, 7}
  OBVIOUS
<1> QED  BY <1>1, <1>2, CommonIs, Zenon

LEMMA JoinedIs ==
    ASSUME NEW S, NEW a \in Seq(S), NEW b \in Seq(S)
    PROVE  Joins(S, a \o b, a, b)
<1>1. /\ a \o b \in Seq(S) /\ Len(a \o b) = Len(a) + Len(b)
      /\ \A j \in 1 .. Len(a) + Len(b) :
            (a \o b)[j] = IF j <= Len(a) THEN a[j] ELSE b[j - Len(a)]
  BY ConcatProperties, Zenon
<1>2. Len(a) \in Nat /\ Len(b) \in Nat
  BY LenProperties
<1>3. ASSUME NEW j \in 1 .. Len(a) PROVE (a \o b)[j] = a[j]
  BY <1>1, <1>2, <1>3
<1>4. ASSUME NEW j \in 1 .. Len(b) PROVE (a \o b)[Len(a) + j] = b[j]
  <2>1. Len(a) + j \in 1 .. Len(a) + Len(b) /\ ~(Len(a) + j <= Len(a)) /\ Len(a) + j - Len(a) = j
    BY <1>2, <1>4
  <2> QED  BY <1>1, <2>1
<1> QED  BY <1>1, <1>3, <1>4 DEF Joins

LEMMA LazyIs ==
    ASSUME NEW S, NEW h \in S, NEW x \in Seq(S), NEW r \in S, NEW e \in Seq(S), NEW c,
           c = <<h>> \o x \o <<r>> \o e
    PROVE  Lazily(c, h, x, r, e)
<1> DEFINE a == <<h>>
           d == <<r>>
           u == a \o x
           v == u \o d
<1>1. a \in Seq(S) /\ Len(a) = 1 /\ a[1] = h
  OBVIOUS
<1>2. d \in Seq(S) /\ Len(d) = 1 /\ d[1] = r
  OBVIOUS
<1>3. c = v \o e
  OBVIOUS
<1> HIDE DEF a, d
<1>4. Len(x) \in Nat /\ Len(e) \in Nat
  BY LenProperties
<1>5. Joins(S, u, a, x)
  BY <1>1, JoinedIs, Zenon
<1> HIDE DEF u
<1>6. u \in Seq(S)
  BY <1>5 DEF Joins
<1>7. Joins(S, v, u, d)
  BY <1>2, <1>6, JoinedIs, Zenon
<1> HIDE DEF v
<1>8. v \in Seq(S)
  BY <1>7 DEF Joins
<1>9. Joins(S, c, v, e)
  BY <1>3, <1>8, JoinedIs, Zenon
<1>10. Len(u) = Len(x) + 1 /\ Len(v) = Len(x) + 2
  BY <1>1, <1>2, <1>4, <1>5, <1>7 DEF Joins
<1>11. c[1] = h
  BY <1>1, <1>4, <1>5, <1>7, <1>9, <1>10 DEF Joins
<1>12. ASSUME NEW j \in 1 .. Len(x) PROVE c[1 + j] = x[j]
  <2>1. 1 + j \in 1 .. Len(u) /\ 1 + j \in 1 .. Len(v)
    BY <1>4, <1>10, <1>12 DEF Joins
  <2> QED  BY <1>1, <1>5, <1>7, <1>9, <1>12, <2>1 DEF Joins
<1>13. c[Len(x) + 2] = r
  <2>1. Len(x) + 2 \in 1 .. Len(v) /\ Len(x) + 2 = Len(u) + 1 /\ 1 \in 1 .. Len(d)
    BY <1>2, <1>4, <1>10 DEF Joins
  <2> QED  BY <1>2, <1>7, <1>9, <2>1 DEF Joins
<1>14. Len(c) = Len(x) + 2 + Len(e)
  BY <1>4, <1>9, <1>10 DEF Joins
<1>15. \A j \in 1 .. Len(e) : c[(Len(x) + 2) + j] = e[j]
  BY <1>9, <1>10, Zenon DEF Joins
<1> QED  BY <1>11, <1>12, <1>13, <1>14, <1>15, Zenon DEF Lazily

LEMMA LazyAttrSteps ==
    ASSUME NEW i, NEW c, c = CS!LazyEnter(CS!InitAttr, i)
    PROVE  /\ Len(c) = 15 /\ Common(c, 7, i)
           /\ Entry(c, 1, "no list", 6)
           /\ Entry(c, 2, "no list", 4)
           /\ Entry(c, 3, "init attr", 0)
           /\ Entry(c, 4, "set type of attr", 0)
           /\ Entry(c, 5, "init global", 0)
           /\ Entry(c, 6, "list global", 0)
           /\ Entry(c, 7, "atexit", 0)
<1> DEFINE x1 == CS!If("no list", 4)
           x2 == CS!Do("init attr")
           x3 == CS!Do("set type of attr")
           x4 == CS!Do("init global")
           x5 == CS!Do("list global")
           y1 == CS!If("no next", 6)
           y2 == CS!Do("lock global")
           y3 == CS!If("no next", 3)
           y4 == CS!Do("set next")
           y5 == CS!Do("set list")
           y6 == CS!Do(i)
           y7 == CS!Do("unlock global")
           y8 == CS!Do("lock section")
           x == <<x1, x2, x3, x4, x5>>
           e == <<y1, y2, y3, y4, y5, y6, y7, y8>>
           h == CS!If("no list", Len(x) + 1)
           r == CS!Do("atexit")
           S == {h, r, x1, x2, x3, x4, x5, y1, y2, y3, y4, y5, y6, y7, y8}
<1>1. /\ h \in S /\ r \in S /\ x1 \in S /\ x2 \in S /\ x3 \in S /\ x4 \in S /\ x5 \in S
      /\ y1 \in S /\ y2 \in S /\ y3 \in S /\ y4 \in S /\ y5 \in S /\ y6 \in S /\ y7 \in S /\ y8 \in S
  OBVIOUS
<1>2. c = <<h>> \o x \o <<r>> \o e
  BY DEF CS!LazyEnter, CS!InitAttr, CS!Enter
<1> HIDE DEF S, h, r, x1, x2, x3, x4, x5, y1, y2, y3, y4, y5, y6, y7, y8
<1>3. /\ x \in Seq(S) /\ Len(x) = 5
      /\ x[1] = x1 /\ x[2] = x2 /\ x[3] = x3 /\ x[4] = x4 /\ x[5] = x5
  BY <1>1
<1>4. /\ e \in Seq(S) /\ Len(e) = 8
      /\ e[1] = y1 /\ e[2] = y2 /\ e[3] = y3 /\ e[4] = y4 /\ e[5] = y5 /\ e[6] = y6 /\ e[7] = y7 /\ e[8] = y8
  BY <1>1
<1> HIDE DEF x, e
<1>5. Lazily(c, h, x, r, e)
  BY <1>1, <1>2, <1>3, <1>4, LazyIs, Zenon
<1>6. Len(x) + 2 = 7 /\ Len(x) + 2 + Len(e) = 15 /\ Len(x) + 1 = 6
  BY <1>3, <1>4
<1>7. Len(c) = 15 /\ c[2] = x[1] /\ c[3] = x[2] /\ c[4] = x[3] /\ c[5] = x[4] /\ c[6] = x[5] /\ c[7] = r
  BY <1>3, <1>5, <1>6 DEF Lazily
<1>8. \A j \in 1 .. 8 : c[7 + j] = e[j]
  BY <1>3, <1>4, <1>5 DEF Lazily
<1>9. /\ c[7 + 1] = e[1]
      /\ c[7 + 2] = e[2]
      /\ c[7 + 3] = e[3]
      /\ c[7 + 4] = e[4]
      /\ c[7 + 5] = e[5]
      /\ c[7 + 6] = e[6]
      /\ c[7 + 7] = e[7]
      /\ c[7 + 8] = e[8]
  BY <1>8, <1>4
<1>10. /\ c[7 + 1] = CS!If("no next", 6)
       /\ c[7 + 2] = CS!Do("lock global")
       /\ c[7 + 3] = CS!If("no next", 3)
       /\ c[7 + 4] = CS!Do("set next")
       /\ c[7 + 5] = CS!Do("set list")
       /\ c[7 + 6] = CS!Do(i)
       /\ c[7 + 7] = CS!Do("unlock global")
       /\ c[7 + 8] = CS!Do("lock section")
  BY <1>4, <1>9, Zenon DEF y1, y2, y3, y4, y5, y6, y7, y8
<1>11. Common(c, 7, i)
  <2>1. 7 \in {0, 5, 7}
    OBVIOUS
  <2> QED  BY <1>10, <2>1, CommonIs, Zenon
<1>12. /\ h = CS!If("no list", 6)
       /\ r = CS!Do("atexit")
  <2>1. h = CS!If("no list", Len(x) + 1)
    BY Zenon DEF h
  <2> QED  BY <1>6, <2>1, Zenon DEF r
<1>13. /\ c[2] = CS!If("no list", 4)
       /\ c[3] = CS!Do("init attr")
       /\ c[4] = CS!Do("set type of attr")
       /\ c[5] = CS!Do("init global")
       /\ c[6] = CS!Do("list global")
  BY <1>3, <1>7, Zenon DEF x1, x2, x3, x4, x5
<1> QED  BY <1>5, <1>7, <1>11, <1>12, <1>13 DEF Lazily, Entry, CS!If, CS!Do

LEMMA LazyNoAttrSteps ==
    ASSUME NEW i, NEW c, c = CS!LazyEnter(CS!InitNoAttr, i)
    PROVE  /\ Len(c) = 13 /\ Common(c, 5, i)
           /\ Entry(c, 1, "no list", 4)
           /\ Entry(c, 2, "no list", 2)
           /\ Entry(c, 3, "init global", 0)
           /\ Entry(c, 4, "list global", 0)
           /\ Entry(c, 5, "atexit", 0)
<1> DEFINE x1 == CS!If("no list", 2)
           x2 == CS!Do("init global")
           x3 == CS!Do("list global")
           y1 == CS!If("no next", 6)
           y2 == CS!Do("lock global")
           y3 == CS!If("no next", 3)
           y4 == CS!Do("set next")
           y5 == CS!Do("set list")
           y6 == CS!Do(i)
           y7 == CS!Do("unlock global")
           y8 == CS!Do("lock section")
           x == <<x1, x2, x3>>
           e == <<y1, y2, y3, y4, y5, y6, y7, y8>>
           h == CS!If("no list", Len(x) + 1)
           r == CS!Do("atexit")
           S == {h, r, x1, x2, x3, y1, y2, y3, y4, y5, y6, y7, y8}
<1>1. /\ h \in S /\ r \in S /\ x1 \in S /\ x2 \in S /\ x3 \in S
      /\ y1 \in S /\ y2 \in S /\ y3 \in S /\ y4 \in S /\ y5 \in S /\ y6 \in S /\ y7 \in S /\ y8 \in S
  OBVIOUS
<1>2. c = <<h>> \o x \o <<r>> \o e
  BY DEF CS!LazyEnter, CS!InitNoAttr, CS!Enter
<1> HIDE DEF S, h, r, x1, x2, x3, y1, y2, y3, y4, y5, y6, y7, y8
<1>3. /\ x \in Seq(S) /\ Len(x) = 3
      /\ x[1] = x1 /\ x[2] = x2 /\ x[3] = x3
  BY <1>1
<1>4. /\ e \in Seq(S) /\ Len(e) = 8
      /\ e[1] = y1 /\ e[2] = y2 /\ e[3] = y3 /\ e[4] = y4 /\ e[5] = y5 /\ e[6] = y6 /\ e[7] = y7 /\ e[8] = y8
  BY <1>1
<1> HIDE DEF x, e
<1>5. Lazily(c, h, x, r, e)
  BY <1>1, <1>2, <1>3, <1>4, LazyIs, Zenon
<1>6. Len(x) + 2 = 5 /\ Len(x) + 2 + Len(e) = 13 /\ Len(x) + 1 = 4
  BY <1>3, <1>4
<1>7. Len(c) = 13 /\ c[2] = x[1] /\ c[3] = x[2] /\ c[4] = x[3] /\ c[5] = r
  BY <1>3, <1>5, <1>6 DEF Lazily
<1>8. \A j \in 1 .. 8 : c[5 + j] = e[j]
  BY <1>3, <1>4, <1>5 DEF Lazily
<1>9. /\ c[5 + 1] = e[1]
      /\ c[5 + 2] = e[2]
      /\ c[5 + 3] = e[3]
      /\ c[5 + 4] = e[4]
      /\ c[5 + 5] = e[5]
      /\ c[5 + 6] = e[6]
      /\ c[5 + 7] = e[7]
      /\ c[5 + 8] = e[8]
  BY <1>8, <1>4
<1>10. /\ c[5 + 1] = CS!If("no next", 6)
       /\ c[5 + 2] = CS!Do("lock global")
       /\ c[5 + 3] = CS!If("no next", 3)
       /\ c[5 + 4] = CS!Do("set next")
       /\ c[5 + 5] = CS!Do("set list")
       /\ c[5 + 6] = CS!Do(i)
       /\ c[5 + 7] = CS!Do("unlock global")
       /\ c[5 + 8] = CS!Do("lock section")
  BY <1>4, <1>9, Zenon DEF y1, y2, y3, y4, y5, y6, y7, y8
<1>11. Common(c, 5, i)
  <2>1. 5 \in {0, 5, 7}
    OBVIOUS
  <2> QED  BY <1>10, <2>1, CommonIs, Zenon
<1>12. /\ h = CS!If("no list", 4)
       /\ r = CS!Do("atexit")
  <2>1. h = CS!If("no list", Len(x) + 1)
    BY Zenon DEF h
  <2> QED  BY <1>6, <2>1, Zenon DEF r
<1>13. /\ c[2] = CS!If("no list", 2)
       /\ c[3] = CS!Do("init global")
       /\ c[4] = CS!Do("list global")
  BY <1>3, <1>7, Zenon DEF x1, x2, x3
<1> QED  BY <1>5, <1>7, <1>11, <1>12, <1>13 DEF Lazily, Entry, CS!If, CS!Do

LEMMA SectionInitSteps ==
    /\ /\ Len(CS!Init32) = 4
       /\ Entry(CS!Init32, 1, "not inited", 3)
       /\ Entry(CS!Init32, 2, "init global", 0)
       /\ Entry(CS!Init32, 3, "list global", 0)
       /\ Entry(CS!Init32, 4, "set inited", 0)
    /\ /\ Len(CS!InitAttr) = 5
       /\ Entry(CS!InitAttr, 1, "no list", 4)
       /\ Entry(CS!InitAttr, 2, "init attr", 0)
       /\ Entry(CS!InitAttr, 3, "set type of attr", 0)
       /\ Entry(CS!InitAttr, 4, "init global", 0)
       /\ Entry(CS!InitAttr, 5, "list global", 0)
    /\ /\ Len(CS!InitNoAttr) = 3
       /\ Entry(CS!InitNoAttr, 1, "no list", 2)
       /\ Entry(CS!InitNoAttr, 2, "init global", 0)
       /\ Entry(CS!InitNoAttr, 3, "list global", 0)
BY DEF CS!Init32, CS!InitAttr, CS!InitNoAttr, CS!Do, CS!If, Entry

LEMMA SectionTermSteps ==
    /\ /\ Len(CS!Term32) = 5
       /\ Entry(CS!Term32, 1, "inited", 4)
       /\ Entry(CS!Term32, 2, "clear inited", 0)
       /\ Entry(CS!Term32, 3, "list", 2)
       /\ Entry(CS!Term32, 4, "delete head", 0)
       /\ Entry(CS!Term32, 5, "pop list", -3)
    /\ /\ Len(CS!TermPosix) = 4
       /\ Entry(CS!TermPosix, 1, "list", 3)
       /\ Entry(CS!TermPosix, 2, "list", 2)
       /\ Entry(CS!TermPosix, 3, "delete head", 0)
       /\ Entry(CS!TermPosix, 4, "pop list", -3)
<1>1. -(2 + 1) = -3
  OBVIOUS
<1> QED  BY <1>1 DEF CS!Term32, CS!TermPosix, CS!Do, CS!If, CS!Last, Entry

-----------------------------------------------------------------------------
(* What the steps of critical.c do                                         *)

LEMMA SectionGoes ==
    ASSUME SectionCalls, NEW t \in Threads, NEW to, CS!Goes(t, to)
    PROVE  /\ to <= Len(CS!Body(t)) => StepsTo(t, to)
           /\ ~(to <= Len(CS!Body(t))) => Ends(t)
BY DEF SectionCalls, CS!Goes, StepsTo, Ends, Shifts, CS!life

\* One step: what it does and where it goes is told by its name.
LEMMA SectionStepIs ==
    ASSUME NEW t, pc[t] \in Nat, CS!CallStep(t), NEW d, d = CS!Step(t).do
    PROVE  /\ flaw = "none" /\ call[t] # "none"
           /\ d = "inited" => AllKept /\ IF initedC THEN OnTo(t) ELSE JumpTo(t)
           /\ d = "not inited" => AllKept /\ IF ~initedC THEN OnTo(t) ELSE JumpTo(t)
           /\ d = "list" => AllKept /\ IF list # null THEN OnTo(t) ELSE JumpTo(t)
           /\ d = "no list" => AllKept /\ IF list = null THEN OnTo(t) ELSE JumpTo(t)
           /\ d = "no next" => AllKept /\ IF next[dcs[t]] = null THEN OnTo(t) ELSE JumpTo(t)
           /\ d = "set inited" => JumpTo(t) /\ InitedSet
           /\ d = "clear inited" => JumpTo(t) /\ InitedCleared
           /\ d = "init attr" => JumpTo(t) /\ AttrMade
           /\ d = "set type of attr" => JumpTo(t) /\ AttrTyped
           /\ d = "atexit" => JumpTo(t) /\ Registered
           /\ d = "init global" => JumpTo(t) /\ GlobalMade
           /\ d = "list global" => JumpTo(t) /\ GlobalListed
           /\ d = "set list" => JumpTo(t) /\ SectionListed(t)
           /\ d = "pop list" => JumpTo(t) /\ HeadPopped
           /\ d = "set next" => JumpTo(t) /\ NextSet(t)
           /\ d = "delete head" => JumpTo(t) /\ HeadDeleted
           /\ d = "lock global" => JumpTo(t) /\ GlobalTaken(t)
           /\ d = "unlock global" => JumpTo(t) /\ GlobalLeft
           /\ d = "unlock section" => JumpTo(t) /\ SectionUnlocked(t)
           /\ d \in {"init section", "init section of attr"} =>
                 JumpTo(t) /\ (d = SectionStart(copy) => SectionMade(t))
           /\ d = "lock section" => JumpTo(t) /\ (SectionLocked(t) \/ NoMutexLocked(t))
<1>1. flaw = "none" /\ call[t] # "none"
  BY DEF CS!CallStep, CS!Test, CS!Tests, CS!Does, CS!AtStep, CS!Idle, CS!SetInited, CS!SetAttr,
     CS!Register, CS!InitGlobal, CS!SetList, CS!SetNext, CS!DeleteHead, CS!LockGlobal,
     CS!UnlockGlobal, CS!UnlockSection, CS!InitSection, CS!LockSection, CS!LockNoMutex
<1>2. ASSUME CS!Tests(t, "inited", initedC)
      PROVE  d = "inited" /\ AllKept /\ IF initedC THEN OnTo(t) ELSE JumpTo(t)
  <2>1. /\ CS!AtStep(t, "inited")
        /\ CS!Goes(t, pc[t] + 1 + IF initedC THEN 0 ELSE CS!Step(t).skip)
        /\ UNCHANGED <<CS!statics, mutex, CS!held, flaw>>
    BY <1>2 DEF CS!Tests
  <2>2. d = "inited" /\ AllKept
    BY <2>1 DEF CS!AtStep, AllKept, CS!statics, CS!held
  <2>3. initedC => pc[t] + 1 + (IF initedC THEN 0 ELSE CS!Step(t).skip) = pc[t] + 1
    OBVIOUS
  <2>4. ~(initedC) => pc[t] + 1 + (IF initedC THEN 0 ELSE CS!Step(t).skip)
                      = pc[t] + 1 + CS!Step(t).skip
    BY Zenon
  <2> QED  BY <2>1, <2>2, <2>3, <2>4, Zenon DEF OnTo, JumpTo
<1>3. ASSUME CS!Tests(t, "not inited", ~initedC)
      PROVE  d = "not inited" /\ AllKept /\ IF ~initedC THEN OnTo(t) ELSE JumpTo(t)
  <2>1. /\ CS!AtStep(t, "not inited")
        /\ CS!Goes(t, pc[t] + 1 + IF ~initedC THEN 0 ELSE CS!Step(t).skip)
        /\ UNCHANGED <<CS!statics, mutex, CS!held, flaw>>
    BY <1>3 DEF CS!Tests
  <2>2. d = "not inited" /\ AllKept
    BY <2>1 DEF CS!AtStep, AllKept, CS!statics, CS!held
  <2>3. ~initedC => pc[t] + 1 + (IF ~initedC THEN 0 ELSE CS!Step(t).skip) = pc[t] + 1
    OBVIOUS
  <2>4. ~(~initedC) => pc[t] + 1 + (IF ~initedC THEN 0 ELSE CS!Step(t).skip)
                      = pc[t] + 1 + CS!Step(t).skip
    BY Zenon
  <2> QED  BY <2>1, <2>2, <2>3, <2>4, Zenon DEF OnTo, JumpTo
<1>4. ASSUME CS!Tests(t, "list", list # null)
      PROVE  d = "list" /\ AllKept /\ IF list # null THEN OnTo(t) ELSE JumpTo(t)
  <2>1. /\ CS!AtStep(t, "list")
        /\ CS!Goes(t, pc[t] + 1 + IF list # null THEN 0 ELSE CS!Step(t).skip)
        /\ UNCHANGED <<CS!statics, mutex, CS!held, flaw>>
    BY <1>4 DEF CS!Tests
  <2>2. d = "list" /\ AllKept
    BY <2>1 DEF CS!AtStep, AllKept, CS!statics, CS!held
  <2>3. list # null => pc[t] + 1 + (IF list # null THEN 0 ELSE CS!Step(t).skip) = pc[t] + 1
    OBVIOUS
  <2>4. ~(list # null) => pc[t] + 1 + (IF list # null THEN 0 ELSE CS!Step(t).skip)
                      = pc[t] + 1 + CS!Step(t).skip
    BY Zenon
  <2> QED  BY <2>1, <2>2, <2>3, <2>4, Zenon DEF OnTo, JumpTo
<1>5. ASSUME CS!Tests(t, "no list", list = null)
      PROVE  d = "no list" /\ AllKept /\ IF list = null THEN OnTo(t) ELSE JumpTo(t)
  <2>1. /\ CS!AtStep(t, "no list")
        /\ CS!Goes(t, pc[t] + 1 + IF list = null THEN 0 ELSE CS!Step(t).skip)
        /\ UNCHANGED <<CS!statics, mutex, CS!held, flaw>>
    BY <1>5 DEF CS!Tests
  <2>2. d = "no list" /\ AllKept
    BY <2>1 DEF CS!AtStep, AllKept, CS!statics, CS!held
  <2>3. list = null => pc[t] + 1 + (IF list = null THEN 0 ELSE CS!Step(t).skip) = pc[t] + 1
    OBVIOUS
  <2>4. ~(list = null) => pc[t] + 1 + (IF list = null THEN 0 ELSE CS!Step(t).skip)
                      = pc[t] + 1 + CS!Step(t).skip
    BY Zenon
  <2> QED  BY <2>1, <2>2, <2>3, <2>4, Zenon DEF OnTo, JumpTo
<1>6. ASSUME CS!Tests(t, "no next", next[dcs[t]] = null)
      PROVE  d = "no next" /\ AllKept /\ IF next[dcs[t]] = null THEN OnTo(t) ELSE JumpTo(t)
  <2>1. /\ CS!AtStep(t, "no next")
        /\ CS!Goes(t, pc[t] + 1 + IF next[dcs[t]] = null THEN 0 ELSE CS!Step(t).skip)
        /\ UNCHANGED <<CS!statics, mutex, CS!held, flaw>>
    BY <1>6 DEF CS!Tests
  <2>2. d = "no next" /\ AllKept
    BY <2>1 DEF CS!AtStep, AllKept, CS!statics, CS!held
  <2>3. next[dcs[t]] = null => pc[t] + 1 + (IF next[dcs[t]] = null THEN 0 ELSE CS!Step(t).skip) = pc[t] + 1
    OBVIOUS
  <2>4. ~(next[dcs[t]] = null) => pc[t] + 1 + (IF next[dcs[t]] = null THEN 0 ELSE CS!Step(t).skip)
                      = pc[t] + 1 + CS!Step(t).skip
    BY Zenon
  <2> QED  BY <2>1, <2>2, <2>3, <2>4, Zenon DEF OnTo, JumpTo
<1>7. CS!SetInited(t) => JumpTo(t) /\ ((d = "set inited" /\ InitedSet) \/ (d = "clear inited" /\ InitedCleared))
  BY DEF CS!SetInited, CS!Does, CS!AtStep, JumpTo, CS!statics, CS!held, InitedSet, InitedCleared
<1>8. CS!SetAttr(t) => JumpTo(t) /\ ((d = "init attr" /\ AttrMade) \/ (d = "set type of attr" /\ AttrTyped))
  BY DEF CS!SetAttr, CS!Does, CS!AtStep, JumpTo, CS!statics, CS!held, AttrMade, AttrTyped
<1>9. CS!Register(t) => JumpTo(t) /\ ((d = "atexit" /\ Registered))
  BY DEF CS!Register, CS!Does, CS!AtStep, JumpTo, CS!statics, CS!held, Registered
<1>10. CS!InitGlobal(t) => JumpTo(t) /\ ((d = "init global" /\ GlobalMade))
  BY DEF CS!InitGlobal, CS!Does, CS!AtStep, JumpTo, CS!statics, CS!held, GlobalMade
<1>11. CS!SetList(t) => JumpTo(t) /\ ((d = "list global" /\ GlobalListed) \/ (d = "set list" /\ SectionListed(t)) \/ (d = "pop list" /\ HeadPopped))
  BY DEF CS!SetList, CS!Does, CS!AtStep, JumpTo, CS!statics, CS!held, GlobalListed,
     SectionListed, HeadPopped
<1>12. CS!SetNext(t) => JumpTo(t) /\ ((d = "set next" /\ NextSet(t)))
  BY DEF CS!SetNext, CS!Does, CS!AtStep, JumpTo, CS!statics, CS!held, NextSet
<1>13. CS!DeleteHead(t) => JumpTo(t) /\ ((d = "delete head" /\ HeadDeleted))
  BY DEF CS!DeleteHead, CS!Does, CS!AtStep, JumpTo, CS!statics, CS!held, HeadDeleted
<1>14. CS!LockGlobal(t) => JumpTo(t) /\ ((d = "lock global" /\ GlobalTaken(t)))
  BY DEF CS!LockGlobal, CS!Does, CS!AtStep, JumpTo, CS!statics, CS!held, GlobalTaken
<1>15. CS!UnlockGlobal(t) => JumpTo(t) /\ ((d = "unlock global" /\ GlobalLeft))
  BY DEF CS!UnlockGlobal, CS!Does, CS!AtStep, JumpTo, CS!statics, CS!held, GlobalLeft
<1>16. CS!UnlockSection(t) => JumpTo(t) /\ ((d = "unlock section" /\ SectionUnlocked(t)))
  BY DEF CS!UnlockSection, CS!Does, CS!AtStep, JumpTo, CS!statics, CS!held, SectionUnlocked
<1>17. CS!InitSection(t) => /\ d \in {"init section", "init section of attr"} /\ JumpTo(t)
                            /\ (d = SectionStart(copy) => SectionMade(t))
  BY DEF CS!InitSection, CS!Does, CS!AtStep, JumpTo, SectionMade, SectionStart, CS!statics
<1>18. CS!LockSection(t) => d = "lock section" /\ JumpTo(t) /\ SectionLocked(t)
  BY DEF CS!LockSection, CS!Does, CS!AtStep, JumpTo, SectionLocked, CS!statics
<1>19. CS!LockNoMutex(t) => d = "lock section" /\ JumpTo(t) /\ NoMutexLocked(t)
  BY DEF CS!LockNoMutex, CS!Does, CS!AtStep, JumpTo, NoMutexLocked, CS!statics, CS!held
<1>20. \/ CS!Tests(t, "inited", initedC)
       \/ CS!Tests(t, "not inited", ~initedC)
       \/ CS!Tests(t, "list", list # null)
       \/ CS!Tests(t, "no list", list = null)
       \/ CS!Tests(t, "no next", next[dcs[t]] = null)
       \/ CS!SetInited(t)
       \/ CS!SetAttr(t)
       \/ CS!Register(t)
       \/ CS!InitGlobal(t)
       \/ CS!SetList(t)
       \/ CS!SetNext(t)
       \/ CS!DeleteHead(t)
       \/ CS!LockGlobal(t)
       \/ CS!UnlockGlobal(t)
       \/ CS!UnlockSection(t)
       \/ CS!InitSection(t)
       \/ CS!LockSection(t)
       \/ CS!LockNoMutex(t)
  BY DEF CS!CallStep, CS!Test
<1> QED
  <2>1. CASE CS!Tests(t, "inited", initedC)
    BY <1>1, <1>2, <2>1
  <2>2. CASE CS!Tests(t, "not inited", ~initedC)
    BY <1>1, <1>3, <2>2
  <2>3. CASE CS!Tests(t, "list", list # null)
    BY <1>1, <1>4, <2>3
  <2>4. CASE CS!Tests(t, "no list", list = null)
    BY <1>1, <1>5, <2>4
  <2>5. CASE CS!Tests(t, "no next", next[dcs[t]] = null)
    BY <1>1, <1>6, <2>5
  <2>6. CASE CS!SetInited(t)
    BY <1>1, <1>7, <2>6
  <2>7. CASE CS!SetAttr(t)
    BY <1>1, <1>8, <2>7
  <2>8. CASE CS!Register(t)
    BY <1>1, <1>9, <2>8
  <2>9. CASE CS!InitGlobal(t)
    BY <1>1, <1>10, <2>9
  <2>10. CASE CS!SetList(t)
    BY <1>1, <1>11, <2>10
  <2>11. CASE CS!SetNext(t)
    BY <1>1, <1>12, <2>11
  <2>12. CASE CS!DeleteHead(t)
    BY <1>1, <1>13, <2>12
  <2>13. CASE CS!LockGlobal(t)
    BY <1>1, <1>14, <2>13
  <2>14. CASE CS!UnlockGlobal(t)
    BY <1>1, <1>15, <2>14
  <2>15. CASE CS!UnlockSection(t)
    BY <1>1, <1>16, <2>15
  <2>16. CASE CS!InitSection(t)
    BY <1>1, <1>17, <2>16
  <2>17. CASE CS!LockSection(t)
    BY <1>1, <1>18, <2>17
  <2>18. CASE CS!LockNoMutex(t)
    BY <1>1, <1>19, <2>18
  <2> QED  BY <1>20, <2>1, <2>2, <2>3, <2>4, <2>5, <2>6, <2>7, <2>8, <2>9, <2>10, <2>11, <2>12,
              <2>13, <2>14, <2>15, <2>16, <2>17, <2>18

-----------------------------------------------------------------------------
(* Where the functions of critical.c go                                    *)

LEMMA SectionBody ==
    ASSUME SectionCalls, NEW t \in Threads
    PROVE  /\ copy \in SectionsWin32 \cup SectionsAttr \cup {"GdcAlreadyRecursive"}
           /\ call[t] = "init" => CS!Body(t) = SectionInit(copy)
           /\ call[t] = "term" => CS!Body(t) = SectionTerm(copy)
           /\ call[t] = "enter" => CS!Body(t) = SectionEnter(copy)
           /\ call[t] = "exit" => Len(CS!Body(t)) = 1 /\ Entry(CS!Body(t), 1, "unlock section", 0)
<1>1. copy \in DOMAIN CS!CriticalCode
  BY DEF SectionCalls
<1>2. /\ copy \in SectionsWin32 \cup SectionsAttr \cup {"GdcAlreadyRecursive"}
      /\ SectionForm(CS!CriticalCode[copy], SectionInit(copy), SectionTerm(copy), SectionEnter(copy))
  BY <1>1, SectionCopiesAre
<1> QED  BY <1>2, Zenon DEF SectionForm, CS!Body

LEMMA SectionEntry ==
    ASSUME NEW t, NEW w, NEW k, Entry(CS!Body(t), pc[t], w, k)
    PROVE  CS!Step(t).do = w /\ CS!Step(t).skip = k
<1>1. CS!Step(t) = [do |-> w, skip |-> k]
  BY Zenon DEF Entry, CS!Step
<1> QED  BY <1>1

\* _STI_critical_init
LEMMA InitWin32Step ==
    ASSUME SectionCalls, NEW t \in Threads, call[t] = "init", copy \in SectionsWin32, CS!CallStep(t)
    PROVE  /\ flaw = "none" /\ SGoes(t)
           /\ \/ pc[t] = 1 /\ ~initedC /\ StepsTo(t, 2) /\ AllKept
              \/ pc[t] = 1 /\ initedC /\ Ends(t) /\ AllKept
              \/ pc[t] = 2 /\ GlobalMade /\ StepsTo(t, 3)
              \/ pc[t] = 3 /\ GlobalListed /\ StepsTo(t, 4)
              \/ pc[t] = 4 /\ InitedSet /\ Ends(t)
<1>1. SInCode(t) /\ pc[t] \in Nat /\ Len(CS!Body(t)) = 4 /\ pc[t] \in 1 .. 4
  <2>1. call[t] # "none" /\ pc[t] \in Nat
    BY DEF SectionCalls
  <2>2. SInCode(t)
    BY <2>1 DEF SectionCalls
  <2>3. Len(CS!Body(t)) = 4
    BY SectionBody, SectionInitSteps DEF SectionInit
  <2> QED  BY <2>1, <2>2, <2>3 DEF SInCode
<1>2. /\ Entry(CS!Body(t), 1, "not inited", 3)
      /\ Entry(CS!Body(t), 2, "init global", 0)
      /\ Entry(CS!Body(t), 3, "list global", 0)
      /\ Entry(CS!Body(t), 4, "set inited", 0)
  BY SectionBody, SectionInitSteps DEF SectionInit
<1>3. \A i : CS!Goes(t, i) => (i <= 4 => StepsTo(t, i)) /\ (~(i <= 4) => Ends(t))
  BY <1>1, SectionGoes
<1>4. flaw = "none"
  BY <1>1, SectionStepIs
<1>5. CASE pc[t] = 1
  <2>1. CS!Step(t).do = "not inited" /\ CS!Step(t).skip = 3
    BY <1>2, <1>5, SectionEntry, Zenon
  <2>2. AllKept /\ IF ~initedC THEN OnTo(t) ELSE JumpTo(t)
    BY <1>1, <2>1, SectionStepIs
  <2>3. OnTo(t) => StepsTo(t, 2)
    BY <1>3, <1>5 DEF OnTo
  <2>4. pc[t] + 1 + CS!Step(t).skip = 1 + 1 + 3
    BY <1>5, <2>1, Zenon
  <2>5. JumpTo(t) => Ends(t)
    BY <1>3, <2>4 DEF JumpTo
  <2>6. SGoes(t)
    BY <1>1, <2>2, <2>5, <2>3 DEF SGoes
  <2> QED  BY <1>5, <1>4, <2>2, <2>5, <2>3, <2>6, Zenon
<1>6. CASE pc[t] = 2
  <2>1. CS!Step(t).do = "init global" /\ CS!Step(t).skip = 0
    BY <1>2, <1>6, SectionEntry, Zenon
  <2>2. GlobalMade /\ JumpTo(t)
    BY <1>1, <2>1, SectionStepIs
  <2>4. pc[t] + 1 + CS!Step(t).skip = 2 + 1 + 0
    BY <1>6, <2>1, Zenon
  <2>5. JumpTo(t) => StepsTo(t, 3)
    BY <1>3, <2>4 DEF JumpTo
  <2>6. SGoes(t)
    BY <1>1, <2>2, <2>5 DEF SGoes
  <2> QED  BY <1>6, <1>4, <2>2, <2>5, <2>6, Zenon
<1>7. CASE pc[t] = 3
  <2>1. CS!Step(t).do = "list global" /\ CS!Step(t).skip = 0
    BY <1>2, <1>7, SectionEntry, Zenon
  <2>2. GlobalListed /\ JumpTo(t)
    BY <1>1, <2>1, SectionStepIs
  <2>4. pc[t] + 1 + CS!Step(t).skip = 3 + 1 + 0
    BY <1>7, <2>1, Zenon
  <2>5. JumpTo(t) => StepsTo(t, 4)
    BY <1>3, <2>4 DEF JumpTo
  <2>6. SGoes(t)
    BY <1>1, <2>2, <2>5 DEF SGoes
  <2> QED  BY <1>7, <1>4, <2>2, <2>5, <2>6, Zenon
<1>8. CASE pc[t] = 4
  <2>1. CS!Step(t).do = "set inited" /\ CS!Step(t).skip = 0
    BY <1>2, <1>8, SectionEntry, Zenon
  <2>2. InitedSet /\ JumpTo(t)
    BY <1>1, <2>1, SectionStepIs
  <2>4. pc[t] + 1 + CS!Step(t).skip = 4 + 1 + 0
    BY <1>8, <2>1, Zenon
  <2>5. JumpTo(t) => Ends(t)
    BY <1>3, <2>4 DEF JumpTo
  <2>6. SGoes(t)
    BY <1>1, <2>2, <2>5 DEF SGoes
  <2> QED  BY <1>8, <1>4, <2>2, <2>5, <2>6, Zenon
<1>9. pc[t] = 1 \/ pc[t] = 2 \/ pc[t] = 3 \/ pc[t] = 4
  BY <1>1
<1> QED
  BY <1>5, <1>6, <1>7, <1>8, <1>9, Zenon

LEMMA InitAttrStep ==
    ASSUME SectionCalls, NEW t \in Threads, call[t] = "init", copy \in SectionsAttr, CS!CallStep(t)
    PROVE  /\ flaw = "none" /\ SGoes(t)
           /\ \/ pc[t] = 1 /\ list = null /\ StepsTo(t, 2) /\ AllKept
              \/ pc[t] = 1 /\ list # null /\ Ends(t) /\ AllKept
              \/ pc[t] = 2 /\ AttrMade /\ StepsTo(t, 3)
              \/ pc[t] = 3 /\ AttrTyped /\ StepsTo(t, 4)
              \/ pc[t] = 4 /\ GlobalMade /\ StepsTo(t, 5)
              \/ pc[t] = 5 /\ GlobalListed /\ Ends(t)
<1>1. SInCode(t) /\ pc[t] \in Nat /\ Len(CS!Body(t)) = 5 /\ pc[t] \in 1 .. 5
  <2>1. call[t] # "none" /\ pc[t] \in Nat
    BY DEF SectionCalls
  <2>2. SInCode(t)
    BY <2>1 DEF SectionCalls
  <2>3. Len(CS!Body(t)) = 5
    BY SectionBody, SectionInitSteps DEF SectionInit, SectionsWin32, SectionsAttr
  <2> QED  BY <2>1, <2>2, <2>3 DEF SInCode
<1>2. /\ Entry(CS!Body(t), 1, "no list", 4)
      /\ Entry(CS!Body(t), 2, "init attr", 0)
      /\ Entry(CS!Body(t), 3, "set type of attr", 0)
      /\ Entry(CS!Body(t), 4, "init global", 0)
      /\ Entry(CS!Body(t), 5, "list global", 0)
  BY SectionBody, SectionInitSteps DEF SectionInit, SectionsWin32, SectionsAttr
<1>3. \A i : CS!Goes(t, i) => (i <= 5 => StepsTo(t, i)) /\ (~(i <= 5) => Ends(t))
  BY <1>1, SectionGoes
<1>4. flaw = "none"
  BY <1>1, SectionStepIs
<1>5. CASE pc[t] = 1
  <2>1. CS!Step(t).do = "no list" /\ CS!Step(t).skip = 4
    BY <1>2, <1>5, SectionEntry, Zenon
  <2>2. AllKept /\ IF list = null THEN OnTo(t) ELSE JumpTo(t)
    BY <1>1, <2>1, SectionStepIs
  <2>3. OnTo(t) => StepsTo(t, 2)
    BY <1>3, <1>5 DEF OnTo
  <2>4. pc[t] + 1 + CS!Step(t).skip = 1 + 1 + 4
    BY <1>5, <2>1, Zenon
  <2>5. JumpTo(t) => Ends(t)
    BY <1>3, <2>4 DEF JumpTo
  <2>6. SGoes(t)
    BY <1>1, <2>2, <2>5, <2>3 DEF SGoes
  <2> QED  BY <1>5, <1>4, <2>2, <2>5, <2>3, <2>6, Zenon
<1>6. CASE pc[t] = 2
  <2>1. CS!Step(t).do = "init attr" /\ CS!Step(t).skip = 0
    BY <1>2, <1>6, SectionEntry, Zenon
  <2>2. AttrMade /\ JumpTo(t)
    BY <1>1, <2>1, SectionStepIs
  <2>4. pc[t] + 1 + CS!Step(t).skip = 2 + 1 + 0
    BY <1>6, <2>1, Zenon
  <2>5. JumpTo(t) => StepsTo(t, 3)
    BY <1>3, <2>4 DEF JumpTo
  <2>6. SGoes(t)
    BY <1>1, <2>2, <2>5 DEF SGoes
  <2> QED  BY <1>6, <1>4, <2>2, <2>5, <2>6, Zenon
<1>7. CASE pc[t] = 3
  <2>1. CS!Step(t).do = "set type of attr" /\ CS!Step(t).skip = 0
    BY <1>2, <1>7, SectionEntry, Zenon
  <2>2. AttrTyped /\ JumpTo(t)
    BY <1>1, <2>1, SectionStepIs
  <2>4. pc[t] + 1 + CS!Step(t).skip = 3 + 1 + 0
    BY <1>7, <2>1, Zenon
  <2>5. JumpTo(t) => StepsTo(t, 4)
    BY <1>3, <2>4 DEF JumpTo
  <2>6. SGoes(t)
    BY <1>1, <2>2, <2>5 DEF SGoes
  <2> QED  BY <1>7, <1>4, <2>2, <2>5, <2>6, Zenon
<1>8. CASE pc[t] = 4
  <2>1. CS!Step(t).do = "init global" /\ CS!Step(t).skip = 0
    BY <1>2, <1>8, SectionEntry, Zenon
  <2>2. GlobalMade /\ JumpTo(t)
    BY <1>1, <2>1, SectionStepIs
  <2>4. pc[t] + 1 + CS!Step(t).skip = 4 + 1 + 0
    BY <1>8, <2>1, Zenon
  <2>5. JumpTo(t) => StepsTo(t, 5)
    BY <1>3, <2>4 DEF JumpTo
  <2>6. SGoes(t)
    BY <1>1, <2>2, <2>5 DEF SGoes
  <2> QED  BY <1>8, <1>4, <2>2, <2>5, <2>6, Zenon
<1>9. CASE pc[t] = 5
  <2>1. CS!Step(t).do = "list global" /\ CS!Step(t).skip = 0
    BY <1>2, <1>9, SectionEntry, Zenon
  <2>2. GlobalListed /\ JumpTo(t)
    BY <1>1, <2>1, SectionStepIs
  <2>4. pc[t] + 1 + CS!Step(t).skip = 5 + 1 + 0
    BY <1>9, <2>1, Zenon
  <2>5. JumpTo(t) => Ends(t)
    BY <1>3, <2>4 DEF JumpTo
  <2>6. SGoes(t)
    BY <1>1, <2>2, <2>5 DEF SGoes
  <2> QED  BY <1>9, <1>4, <2>2, <2>5, <2>6, Zenon
<1>10. pc[t] = 1 \/ pc[t] = 2 \/ pc[t] = 3 \/ pc[t] = 4 \/ pc[t] = 5
  BY <1>1
<1> QED
  BY <1>5, <1>6, <1>7, <1>8, <1>9, <1>10, Zenon

LEMMA InitNoAttrStep ==
    ASSUME SectionCalls, NEW t \in Threads, call[t] = "init",
           copy \notin SectionsWin32 \cup SectionsAttr, CS!CallStep(t)
    PROVE  /\ flaw = "none" /\ SGoes(t)
           /\ \/ pc[t] = 1 /\ list = null /\ StepsTo(t, 2) /\ AllKept
              \/ pc[t] = 1 /\ list # null /\ Ends(t) /\ AllKept
              \/ pc[t] = 2 /\ GlobalMade /\ StepsTo(t, 3)
              \/ pc[t] = 3 /\ GlobalListed /\ Ends(t)
<1>1. SInCode(t) /\ pc[t] \in Nat /\ Len(CS!Body(t)) = 3 /\ pc[t] \in 1 .. 3
  <2>1. call[t] # "none" /\ pc[t] \in Nat
    BY DEF SectionCalls
  <2>2. SInCode(t)
    BY <2>1 DEF SectionCalls
  <2>3. Len(CS!Body(t)) = 3
    BY SectionBody, SectionInitSteps DEF SectionInit
  <2> QED  BY <2>1, <2>2, <2>3 DEF SInCode
<1>2. /\ Entry(CS!Body(t), 1, "no list", 2)
      /\ Entry(CS!Body(t), 2, "init global", 0)
      /\ Entry(CS!Body(t), 3, "list global", 0)
  BY SectionBody, SectionInitSteps DEF SectionInit
<1>3. \A i : CS!Goes(t, i) => (i <= 3 => StepsTo(t, i)) /\ (~(i <= 3) => Ends(t))
  BY <1>1, SectionGoes
<1>4. flaw = "none"
  BY <1>1, SectionStepIs
<1>5. CASE pc[t] = 1
  <2>1. CS!Step(t).do = "no list" /\ CS!Step(t).skip = 2
    BY <1>2, <1>5, SectionEntry, Zenon
  <2>2. AllKept /\ IF list = null THEN OnTo(t) ELSE JumpTo(t)
    BY <1>1, <2>1, SectionStepIs
  <2>3. OnTo(t) => StepsTo(t, 2)
    BY <1>3, <1>5 DEF OnTo
  <2>4. pc[t] + 1 + CS!Step(t).skip = 1 + 1 + 2
    BY <1>5, <2>1, Zenon
  <2>5. JumpTo(t) => Ends(t)
    BY <1>3, <2>4 DEF JumpTo
  <2>6. SGoes(t)
    BY <1>1, <2>2, <2>5, <2>3 DEF SGoes
  <2> QED  BY <1>5, <1>4, <2>2, <2>5, <2>3, <2>6, Zenon
<1>6. CASE pc[t] = 2
  <2>1. CS!Step(t).do = "init global" /\ CS!Step(t).skip = 0
    BY <1>2, <1>6, SectionEntry, Zenon
  <2>2. GlobalMade /\ JumpTo(t)
    BY <1>1, <2>1, SectionStepIs
  <2>4. pc[t] + 1 + CS!Step(t).skip = 2 + 1 + 0
    BY <1>6, <2>1, Zenon
  <2>5. JumpTo(t) => StepsTo(t, 3)
    BY <1>3, <2>4 DEF JumpTo
  <2>6. SGoes(t)
    BY <1>1, <2>2, <2>5 DEF SGoes
  <2> QED  BY <1>6, <1>4, <2>2, <2>5, <2>6, Zenon
<1>7. CASE pc[t] = 3
  <2>1. CS!Step(t).do = "list global" /\ CS!Step(t).skip = 0
    BY <1>2, <1>7, SectionEntry, Zenon
  <2>2. GlobalListed /\ JumpTo(t)
    BY <1>1, <2>1, SectionStepIs
  <2>4. pc[t] + 1 + CS!Step(t).skip = 3 + 1 + 0
    BY <1>7, <2>1, Zenon
  <2>5. JumpTo(t) => Ends(t)
    BY <1>3, <2>4 DEF JumpTo
  <2>6. SGoes(t)
    BY <1>1, <2>2, <2>5 DEF SGoes
  <2> QED  BY <1>7, <1>4, <2>2, <2>5, <2>6, Zenon
<1>8. pc[t] = 1 \/ pc[t] = 2 \/ pc[t] = 3
  BY <1>1
<1> QED
  BY <1>5, <1>6, <1>7, <1>8, Zenon

\* _STD_critical_term
LEMMA TermWin32Step ==
    ASSUME SectionCalls, NEW t \in Threads, call[t] = "term", copy \in SectionsWin32, CS!CallStep(t)
    PROVE  /\ flaw = "none" /\ SGoes(t)
           /\ \/ pc[t] = 1 /\ initedC /\ StepsTo(t, 2) /\ AllKept
              \/ pc[t] = 1 /\ ~initedC /\ Ends(t) /\ AllKept
              \/ pc[t] = 2 /\ InitedCleared /\ StepsTo(t, 3)
              \/ pc[t] = 3 /\ list # null /\ StepsTo(t, 4) /\ AllKept
              \/ pc[t] = 3 /\ list = null /\ Ends(t) /\ AllKept
              \/ pc[t] = 4 /\ HeadDeleted /\ StepsTo(t, 5)
              \/ pc[t] = 5 /\ HeadPopped /\ StepsTo(t, 3)
<1>1. SInCode(t) /\ pc[t] \in Nat /\ Len(CS!Body(t)) = 5 /\ pc[t] \in 1 .. 5
  <2>1. call[t] # "none" /\ pc[t] \in Nat
    BY DEF SectionCalls
  <2>2. SInCode(t)
    BY <2>1 DEF SectionCalls
  <2>3. Len(CS!Body(t)) = 5
    BY SectionBody, SectionTermSteps DEF SectionTerm
  <2> QED  BY <2>1, <2>2, <2>3 DEF SInCode
<1>2. /\ Entry(CS!Body(t), 1, "inited", 4)
      /\ Entry(CS!Body(t), 2, "clear inited", 0)
      /\ Entry(CS!Body(t), 3, "list", 2)
      /\ Entry(CS!Body(t), 4, "delete head", 0)
      /\ Entry(CS!Body(t), 5, "pop list", -3)
  BY SectionBody, SectionTermSteps DEF SectionTerm
<1>3. \A i : CS!Goes(t, i) => (i <= 5 => StepsTo(t, i)) /\ (~(i <= 5) => Ends(t))
  BY <1>1, SectionGoes
<1>4. flaw = "none"
  BY <1>1, SectionStepIs
<1>5. CASE pc[t] = 1
  <2>1. CS!Step(t).do = "inited" /\ CS!Step(t).skip = 4
    BY <1>2, <1>5, SectionEntry, Zenon
  <2>2. AllKept /\ IF initedC THEN OnTo(t) ELSE JumpTo(t)
    BY <1>1, <2>1, SectionStepIs
  <2>3. OnTo(t) => StepsTo(t, 2)
    BY <1>3, <1>5 DEF OnTo
  <2>4. pc[t] + 1 + CS!Step(t).skip = 1 + 1 + 4
    BY <1>5, <2>1, Zenon
  <2>5. JumpTo(t) => Ends(t)
    BY <1>3, <2>4 DEF JumpTo
  <2>6. SGoes(t)
    BY <1>1, <2>2, <2>5, <2>3 DEF SGoes
  <2> QED  BY <1>5, <1>4, <2>2, <2>5, <2>3, <2>6, Zenon
<1>6. CASE pc[t] = 2
  <2>1. CS!Step(t).do = "clear inited" /\ CS!Step(t).skip = 0
    BY <1>2, <1>6, SectionEntry, Zenon
  <2>2. InitedCleared /\ JumpTo(t)
    BY <1>1, <2>1, SectionStepIs
  <2>4. pc[t] + 1 + CS!Step(t).skip = 2 + 1 + 0
    BY <1>6, <2>1, Zenon
  <2>5. JumpTo(t) => StepsTo(t, 3)
    BY <1>3, <2>4 DEF JumpTo
  <2>6. SGoes(t)
    BY <1>1, <2>2, <2>5 DEF SGoes
  <2> QED  BY <1>6, <1>4, <2>2, <2>5, <2>6, Zenon
<1>7. CASE pc[t] = 3
  <2>1. CS!Step(t).do = "list" /\ CS!Step(t).skip = 2
    BY <1>2, <1>7, SectionEntry, Zenon
  <2>2. AllKept /\ IF list # null THEN OnTo(t) ELSE JumpTo(t)
    BY <1>1, <2>1, SectionStepIs
  <2>3. OnTo(t) => StepsTo(t, 4)
    BY <1>3, <1>7 DEF OnTo
  <2>4. pc[t] + 1 + CS!Step(t).skip = 3 + 1 + 2
    BY <1>7, <2>1, Zenon
  <2>5. JumpTo(t) => Ends(t)
    BY <1>3, <2>4 DEF JumpTo
  <2>6. SGoes(t)
    BY <1>1, <2>2, <2>5, <2>3 DEF SGoes
  <2> QED  BY <1>7, <1>4, <2>2, <2>5, <2>3, <2>6, Zenon
<1>8. CASE pc[t] = 4
  <2>1. CS!Step(t).do = "delete head" /\ CS!Step(t).skip = 0
    BY <1>2, <1>8, SectionEntry, Zenon
  <2>2. HeadDeleted /\ JumpTo(t)
    BY <1>1, <2>1, SectionStepIs
  <2>4. pc[t] + 1 + CS!Step(t).skip = 4 + 1 + 0
    BY <1>8, <2>1, Zenon
  <2>5. JumpTo(t) => StepsTo(t, 5)
    BY <1>3, <2>4 DEF JumpTo
  <2>6. SGoes(t)
    BY <1>1, <2>2, <2>5 DEF SGoes
  <2> QED  BY <1>8, <1>4, <2>2, <2>5, <2>6, Zenon
<1>9. CASE pc[t] = 5
  <2>1. CS!Step(t).do = "pop list" /\ CS!Step(t).skip = -3
    BY <1>2, <1>9, SectionEntry, Zenon
  <2>2. HeadPopped /\ JumpTo(t)
    BY <1>1, <2>1, SectionStepIs
  <2>4. pc[t] + 1 + CS!Step(t).skip = 5 + 1 + (-3)
    BY <1>9, <2>1, Zenon
  <2>5. JumpTo(t) => StepsTo(t, 3)
    BY <1>3, <2>4 DEF JumpTo
  <2>6. SGoes(t)
    BY <1>1, <2>2, <2>5 DEF SGoes
  <2> QED  BY <1>9, <1>4, <2>2, <2>5, <2>6, Zenon
<1>10. pc[t] = 1 \/ pc[t] = 2 \/ pc[t] = 3 \/ pc[t] = 4 \/ pc[t] = 5
  BY <1>1
<1> QED
  BY <1>5, <1>6, <1>7, <1>8, <1>9, <1>10, Zenon

LEMMA TermPosixStep ==
    ASSUME SectionCalls, NEW t \in Threads, call[t] = "term", copy \notin SectionsWin32,
           CS!CallStep(t)
    PROVE  /\ flaw = "none" /\ SGoes(t)
           /\ \/ pc[t] = 1 /\ list # null /\ StepsTo(t, 2) /\ AllKept
              \/ pc[t] = 1 /\ list = null /\ Ends(t) /\ AllKept
              \/ pc[t] = 2 /\ list # null /\ StepsTo(t, 3) /\ AllKept
              \/ pc[t] = 2 /\ list = null /\ Ends(t) /\ AllKept
              \/ pc[t] = 3 /\ HeadDeleted /\ StepsTo(t, 4)
              \/ pc[t] = 4 /\ HeadPopped /\ StepsTo(t, 2)
<1>1. SInCode(t) /\ pc[t] \in Nat /\ Len(CS!Body(t)) = 4 /\ pc[t] \in 1 .. 4
  <2>1. call[t] # "none" /\ pc[t] \in Nat
    BY DEF SectionCalls
  <2>2. SInCode(t)
    BY <2>1 DEF SectionCalls
  <2>3. Len(CS!Body(t)) = 4
    BY SectionBody, SectionTermSteps DEF SectionTerm
  <2> QED  BY <2>1, <2>2, <2>3 DEF SInCode
<1>2. /\ Entry(CS!Body(t), 1, "list", 3)
      /\ Entry(CS!Body(t), 2, "list", 2)
      /\ Entry(CS!Body(t), 3, "delete head", 0)
      /\ Entry(CS!Body(t), 4, "pop list", -3)
  BY SectionBody, SectionTermSteps DEF SectionTerm
<1>3. \A i : CS!Goes(t, i) => (i <= 4 => StepsTo(t, i)) /\ (~(i <= 4) => Ends(t))
  BY <1>1, SectionGoes
<1>4. flaw = "none"
  BY <1>1, SectionStepIs
<1>5. CASE pc[t] = 1
  <2>1. CS!Step(t).do = "list" /\ CS!Step(t).skip = 3
    BY <1>2, <1>5, SectionEntry, Zenon
  <2>2. AllKept /\ IF list # null THEN OnTo(t) ELSE JumpTo(t)
    BY <1>1, <2>1, SectionStepIs
  <2>3. OnTo(t) => StepsTo(t, 2)
    BY <1>3, <1>5 DEF OnTo
  <2>4. pc[t] + 1 + CS!Step(t).skip = 1 + 1 + 3
    BY <1>5, <2>1, Zenon
  <2>5. JumpTo(t) => Ends(t)
    BY <1>3, <2>4 DEF JumpTo
  <2>6. SGoes(t)
    BY <1>1, <2>2, <2>5, <2>3 DEF SGoes
  <2> QED  BY <1>5, <1>4, <2>2, <2>5, <2>3, <2>6, Zenon
<1>6. CASE pc[t] = 2
  <2>1. CS!Step(t).do = "list" /\ CS!Step(t).skip = 2
    BY <1>2, <1>6, SectionEntry, Zenon
  <2>2. AllKept /\ IF list # null THEN OnTo(t) ELSE JumpTo(t)
    BY <1>1, <2>1, SectionStepIs
  <2>3. OnTo(t) => StepsTo(t, 3)
    BY <1>3, <1>6 DEF OnTo
  <2>4. pc[t] + 1 + CS!Step(t).skip = 2 + 1 + 2
    BY <1>6, <2>1, Zenon
  <2>5. JumpTo(t) => Ends(t)
    BY <1>3, <2>4 DEF JumpTo
  <2>6. SGoes(t)
    BY <1>1, <2>2, <2>5, <2>3 DEF SGoes
  <2> QED  BY <1>6, <1>4, <2>2, <2>5, <2>3, <2>6, Zenon
<1>7. CASE pc[t] = 3
  <2>1. CS!Step(t).do = "delete head" /\ CS!Step(t).skip = 0
    BY <1>2, <1>7, SectionEntry, Zenon
  <2>2. HeadDeleted /\ JumpTo(t)
    BY <1>1, <2>1, SectionStepIs
  <2>4. pc[t] + 1 + CS!Step(t).skip = 3 + 1 + 0
    BY <1>7, <2>1, Zenon
  <2>5. JumpTo(t) => StepsTo(t, 4)
    BY <1>3, <2>4 DEF JumpTo
  <2>6. SGoes(t)
    BY <1>1, <2>2, <2>5 DEF SGoes
  <2> QED  BY <1>7, <1>4, <2>2, <2>5, <2>6, Zenon
<1>8. CASE pc[t] = 4
  <2>1. CS!Step(t).do = "pop list" /\ CS!Step(t).skip = -3
    BY <1>2, <1>8, SectionEntry, Zenon
  <2>2. HeadPopped /\ JumpTo(t)
    BY <1>1, <2>1, SectionStepIs
  <2>4. pc[t] + 1 + CS!Step(t).skip = 4 + 1 + (-3)
    BY <1>8, <2>1, Zenon
  <2>5. JumpTo(t) => StepsTo(t, 2)
    BY <1>3, <2>4 DEF JumpTo
  <2>6. SGoes(t)
    BY <1>1, <2>2, <2>5 DEF SGoes
  <2> QED  BY <1>8, <1>4, <2>2, <2>5, <2>6, Zenon
<1>9. pc[t] = 1 \/ pc[t] = 2 \/ pc[t] = 3 \/ pc[t] = 4
  BY <1>1
<1> QED
  BY <1>5, <1>6, <1>7, <1>8, <1>9, Zenon

\* _d_criticalexit
LEMMA ExitStep ==
    ASSUME SectionCalls, NEW t \in Threads, call[t] = "exit", CS!CallStep(t)
    PROVE  /\ flaw = "none" /\ SGoes(t)
           /\ \/ pc[t] = 1 /\ SectionUnlocked(t) /\ Ends(t)
<1>1. SInCode(t) /\ pc[t] \in Nat /\ Len(CS!Body(t)) = 1 /\ pc[t] \in 1 .. 1
  <2>1. call[t] # "none" /\ pc[t] \in Nat
    BY DEF SectionCalls
  <2>2. SInCode(t)
    BY <2>1 DEF SectionCalls
  <2>3. Len(CS!Body(t)) = 1
    BY SectionBody
  <2> QED  BY <2>1, <2>2, <2>3 DEF SInCode
<1>2. Entry(CS!Body(t), 1, "unlock section", 0)
  BY SectionBody
<1>3. \A i : CS!Goes(t, i) => (i <= 1 => StepsTo(t, i)) /\ (~(i <= 1) => Ends(t))
  BY <1>1, SectionGoes
<1>4. flaw = "none"
  BY <1>1, SectionStepIs
<1>5. CASE pc[t] = 1
  <2>1. CS!Step(t).do = "unlock section" /\ CS!Step(t).skip = 0
    BY <1>2, <1>5, SectionEntry, Zenon
  <2>2. SectionUnlocked(t) /\ JumpTo(t)
    BY <1>1, <2>1, SectionStepIs
  <2>4. pc[t] + 1 + CS!Step(t).skip = 1 + 1 + 0
    BY <1>5, <2>1, Zenon
  <2>5. JumpTo(t) => Ends(t)
    BY <1>3, <2>4 DEF JumpTo
  <2>6. SGoes(t)
    BY <1>1, <2>2, <2>5 DEF SGoes
  <2> QED  BY <1>5, <1>4, <2>2, <2>5, <2>6, Zenon
<1>6. pc[t] = 1
  BY <1>1
<1> QED
  BY <1>5, <1>6, Zenon

\* _d_criticalenter
LEMMA EnterBody ==
    ASSUME SectionCalls, NEW t \in Threads, call[t] = "enter", NEW k, k = Prelude(copy)
    PROVE  /\ k \in {0, 5, 7}
           /\ Len(CS!Body(t)) = k + 8
           /\ Common(CS!Body(t), k, SectionStart(copy))
<1>1. CS!Body(t) = SectionEnter(copy)
  BY SectionBody
<1>2. CASE copy \in SectionsWin32
  <2>1. CS!Body(t) = CS!Enter(SectionStart(copy)) /\ k = 0
    BY <1>1, <1>2 DEF SectionEnter, Prelude
  <2>2. Len(CS!Body(t)) = 8 /\ Common(CS!Body(t), 0, SectionStart(copy))
    BY <2>1, PlainSteps
  <2> QED  BY <2>1, <2>2
<1>3. CASE copy \notin SectionsWin32 /\ copy \in SectionsAttr
  <2>1. CS!Body(t) = CS!LazyEnter(CS!InitAttr, SectionStart(copy)) /\ k = 7
    BY <1>1, <1>3 DEF SectionEnter, SectionInit, Prelude
  <2>2. Len(CS!Body(t)) = 15 /\ Common(CS!Body(t), 7, SectionStart(copy))
    BY <2>1, LazyAttrSteps
  <2> QED  BY <2>1, <2>2
<1>4. CASE copy \notin SectionsWin32 /\ copy \notin SectionsAttr
  <2>1. CS!Body(t) = CS!LazyEnter(CS!InitNoAttr, SectionStart(copy)) /\ k = 5
    BY <1>1, <1>4 DEF SectionEnter, SectionInit, Prelude
  <2>2. Len(CS!Body(t)) = 13 /\ Common(CS!Body(t), 5, SectionStart(copy))
    BY <2>1, LazyNoAttrSteps
  <2> QED  BY <2>1, <2>2
<1> QED  BY <1>2, <1>3, <1>4

LEMMA EarlyAttrBody ==
    ASSUME SectionCalls, NEW t \in Threads, call[t] = "enter", copy \in SectionsAttr
    PROVE  /\ Len(CS!Body(t)) = 15
           /\ Entry(CS!Body(t), 1, "no list", 6)
           /\ Entry(CS!Body(t), 2, "no list", 4)
           /\ Entry(CS!Body(t), 3, "init attr", 0)
           /\ Entry(CS!Body(t), 4, "set type of attr", 0)
           /\ Entry(CS!Body(t), 5, "init global", 0)
           /\ Entry(CS!Body(t), 6, "list global", 0)
           /\ Entry(CS!Body(t), 7, "atexit", 0)
<1>1. copy \notin SectionsWin32
  BY DEF SectionsWin32, SectionsAttr
<1>2. CS!Body(t) = CS!LazyEnter(CS!InitAttr, SectionStart(copy))
  BY <1>1, SectionBody, Zenon DEF SectionEnter, SectionInit
<1> QED  BY <1>2, LazyAttrSteps

LEMMA EarlyNoAttrBody ==
    ASSUME SectionCalls, NEW t \in Threads, call[t] = "enter",
           copy \notin SectionsWin32 \cup SectionsAttr
    PROVE  /\ Len(CS!Body(t)) = 13
           /\ Entry(CS!Body(t), 1, "no list", 4)
           /\ Entry(CS!Body(t), 2, "no list", 2)
           /\ Entry(CS!Body(t), 3, "init global", 0)
           /\ Entry(CS!Body(t), 4, "list global", 0)
           /\ Entry(CS!Body(t), 5, "atexit", 0)
<1>1. CS!Body(t) = CS!LazyEnter(CS!InitNoAttr, SectionStart(copy))
  <2>1. copy \notin SectionsWin32 /\ copy \notin SectionsAttr
    OBVIOUS
  <2> QED  BY <2>1, SectionBody, Zenon DEF SectionEnter, SectionInit
<1> QED  BY <1>1, LazyNoAttrSteps

\* Its start, where pthreads are used.
LEMMA EarlyAttrStep ==
    ASSUME SectionCalls, NEW t \in Threads, call[t] = "enter", copy \in SectionsAttr, pc[t] <= 7,
           CS!CallStep(t)
    PROVE  /\ flaw = "none" /\ SGoes(t)
           /\ \/ pc[t] = 1 /\ list = null /\ StepsTo(t, 2) /\ AllKept
              \/ pc[t] = 1 /\ list # null /\ StepsTo(t, 8) /\ AllKept
              \/ pc[t] = 2 /\ list = null /\ StepsTo(t, 3) /\ AllKept
              \/ pc[t] = 2 /\ list # null /\ StepsTo(t, 7) /\ AllKept
              \/ pc[t] = 3 /\ AttrMade /\ StepsTo(t, 4)
              \/ pc[t] = 4 /\ AttrTyped /\ StepsTo(t, 5)
              \/ pc[t] = 5 /\ GlobalMade /\ StepsTo(t, 6)
              \/ pc[t] = 6 /\ GlobalListed /\ StepsTo(t, 7)
              \/ pc[t] = 7 /\ Registered /\ StepsTo(t, 8)
<1>1. SInCode(t) /\ pc[t] \in Nat /\ Len(CS!Body(t)) = 15 /\ pc[t] \in 1 .. 7
  <2>1. call[t] # "none" /\ pc[t] \in Nat
    BY DEF SectionCalls
  <2>2. SInCode(t)
    BY <2>1 DEF SectionCalls
  <2>3. Len(CS!Body(t)) = 15
    BY EarlyAttrBody
  <2> QED  BY <2>1, <2>2, <2>3 DEF SInCode
<1>2. /\ Entry(CS!Body(t), 1, "no list", 6)
      /\ Entry(CS!Body(t), 2, "no list", 4)
      /\ Entry(CS!Body(t), 3, "init attr", 0)
      /\ Entry(CS!Body(t), 4, "set type of attr", 0)
      /\ Entry(CS!Body(t), 5, "init global", 0)
      /\ Entry(CS!Body(t), 6, "list global", 0)
      /\ Entry(CS!Body(t), 7, "atexit", 0)
  BY EarlyAttrBody
<1>3. \A i : CS!Goes(t, i) => (i <= 15 => StepsTo(t, i)) /\ (~(i <= 15) => Ends(t))
  BY <1>1, SectionGoes
<1>4. flaw = "none"
  BY <1>1, SectionStepIs
<1>5. CASE pc[t] = 1
  <2>1. CS!Step(t).do = "no list" /\ CS!Step(t).skip = 6
    BY <1>2, <1>5, SectionEntry, Zenon
  <2>2. AllKept /\ IF list = null THEN OnTo(t) ELSE JumpTo(t)
    BY <1>1, <2>1, SectionStepIs
  <2>3. OnTo(t) => StepsTo(t, 2)
    BY <1>3, <1>5 DEF OnTo
  <2>4. pc[t] + 1 + CS!Step(t).skip = 1 + 1 + 6
    BY <1>5, <2>1, Zenon
  <2>5. JumpTo(t) => StepsTo(t, 8)
    BY <1>3, <2>4 DEF JumpTo
  <2>6. SGoes(t)
    BY <1>1, <2>2, <2>5, <2>3 DEF SGoes
  <2> QED  BY <1>5, <1>4, <2>2, <2>5, <2>3, <2>6, Zenon
<1>6. CASE pc[t] = 2
  <2>1. CS!Step(t).do = "no list" /\ CS!Step(t).skip = 4
    BY <1>2, <1>6, SectionEntry, Zenon
  <2>2. AllKept /\ IF list = null THEN OnTo(t) ELSE JumpTo(t)
    BY <1>1, <2>1, SectionStepIs
  <2>3. OnTo(t) => StepsTo(t, 3)
    BY <1>3, <1>6 DEF OnTo
  <2>4. pc[t] + 1 + CS!Step(t).skip = 2 + 1 + 4
    BY <1>6, <2>1, Zenon
  <2>5. JumpTo(t) => StepsTo(t, 7)
    BY <1>3, <2>4 DEF JumpTo
  <2>6. SGoes(t)
    BY <1>1, <2>2, <2>5, <2>3 DEF SGoes
  <2> QED  BY <1>6, <1>4, <2>2, <2>5, <2>3, <2>6, Zenon
<1>7. CASE pc[t] = 3
  <2>1. CS!Step(t).do = "init attr" /\ CS!Step(t).skip = 0
    BY <1>2, <1>7, SectionEntry, Zenon
  <2>2. AttrMade /\ JumpTo(t)
    BY <1>1, <2>1, SectionStepIs
  <2>4. pc[t] + 1 + CS!Step(t).skip = 3 + 1 + 0
    BY <1>7, <2>1, Zenon
  <2>5. JumpTo(t) => StepsTo(t, 4)
    BY <1>3, <2>4 DEF JumpTo
  <2>6. SGoes(t)
    BY <1>1, <2>2, <2>5 DEF SGoes
  <2> QED  BY <1>7, <1>4, <2>2, <2>5, <2>6, Zenon
<1>8. CASE pc[t] = 4
  <2>1. CS!Step(t).do = "set type of attr" /\ CS!Step(t).skip = 0
    BY <1>2, <1>8, SectionEntry, Zenon
  <2>2. AttrTyped /\ JumpTo(t)
    BY <1>1, <2>1, SectionStepIs
  <2>4. pc[t] + 1 + CS!Step(t).skip = 4 + 1 + 0
    BY <1>8, <2>1, Zenon
  <2>5. JumpTo(t) => StepsTo(t, 5)
    BY <1>3, <2>4 DEF JumpTo
  <2>6. SGoes(t)
    BY <1>1, <2>2, <2>5 DEF SGoes
  <2> QED  BY <1>8, <1>4, <2>2, <2>5, <2>6, Zenon
<1>9. CASE pc[t] = 5
  <2>1. CS!Step(t).do = "init global" /\ CS!Step(t).skip = 0
    BY <1>2, <1>9, SectionEntry, Zenon
  <2>2. GlobalMade /\ JumpTo(t)
    BY <1>1, <2>1, SectionStepIs
  <2>4. pc[t] + 1 + CS!Step(t).skip = 5 + 1 + 0
    BY <1>9, <2>1, Zenon
  <2>5. JumpTo(t) => StepsTo(t, 6)
    BY <1>3, <2>4 DEF JumpTo
  <2>6. SGoes(t)
    BY <1>1, <2>2, <2>5 DEF SGoes
  <2> QED  BY <1>9, <1>4, <2>2, <2>5, <2>6, Zenon
<1>10. CASE pc[t] = 6
  <2>1. CS!Step(t).do = "list global" /\ CS!Step(t).skip = 0
    BY <1>2, <1>10, SectionEntry, Zenon
  <2>2. GlobalListed /\ JumpTo(t)
    BY <1>1, <2>1, SectionStepIs
  <2>4. pc[t] + 1 + CS!Step(t).skip = 6 + 1 + 0
    BY <1>10, <2>1, Zenon
  <2>5. JumpTo(t) => StepsTo(t, 7)
    BY <1>3, <2>4 DEF JumpTo
  <2>6. SGoes(t)
    BY <1>1, <2>2, <2>5 DEF SGoes
  <2> QED  BY <1>10, <1>4, <2>2, <2>5, <2>6, Zenon
<1>11. CASE pc[t] = 7
  <2>1. CS!Step(t).do = "atexit" /\ CS!Step(t).skip = 0
    BY <1>2, <1>11, SectionEntry, Zenon
  <2>2. Registered /\ JumpTo(t)
    BY <1>1, <2>1, SectionStepIs
  <2>4. pc[t] + 1 + CS!Step(t).skip = 7 + 1 + 0
    BY <1>11, <2>1, Zenon
  <2>5. JumpTo(t) => StepsTo(t, 8)
    BY <1>3, <2>4 DEF JumpTo
  <2>6. SGoes(t)
    BY <1>1, <2>2, <2>5 DEF SGoes
  <2> QED  BY <1>11, <1>4, <2>2, <2>5, <2>6, Zenon
<1>12. pc[t] = 1 \/ pc[t] = 2 \/ pc[t] = 3 \/ pc[t] = 4 \/ pc[t] = 5 \/ pc[t] = 6 \/ pc[t] = 7
  BY <1>1
<1> QED
  BY <1>5, <1>6, <1>7, <1>8, <1>9, <1>10, <1>11, <1>12, Zenon

LEMMA EarlyNoAttrStep ==
    ASSUME SectionCalls, NEW t \in Threads, call[t] = "enter",
           copy \notin SectionsWin32 \cup SectionsAttr, pc[t] <= 5, CS!CallStep(t)
    PROVE  /\ flaw = "none" /\ SGoes(t)
           /\ \/ pc[t] = 1 /\ list = null /\ StepsTo(t, 2) /\ AllKept
              \/ pc[t] = 1 /\ list # null /\ StepsTo(t, 6) /\ AllKept
              \/ pc[t] = 2 /\ list = null /\ StepsTo(t, 3) /\ AllKept
              \/ pc[t] = 2 /\ list # null /\ StepsTo(t, 5) /\ AllKept
              \/ pc[t] = 3 /\ GlobalMade /\ StepsTo(t, 4)
              \/ pc[t] = 4 /\ GlobalListed /\ StepsTo(t, 5)
              \/ pc[t] = 5 /\ Registered /\ StepsTo(t, 6)
<1>1. SInCode(t) /\ pc[t] \in Nat /\ Len(CS!Body(t)) = 13 /\ pc[t] \in 1 .. 5
  <2>1. call[t] # "none" /\ pc[t] \in Nat
    BY DEF SectionCalls
  <2>2. SInCode(t)
    BY <2>1 DEF SectionCalls
  <2>3. Len(CS!Body(t)) = 13
    BY EarlyNoAttrBody
  <2> QED  BY <2>1, <2>2, <2>3 DEF SInCode
<1>2. /\ Entry(CS!Body(t), 1, "no list", 4)
      /\ Entry(CS!Body(t), 2, "no list", 2)
      /\ Entry(CS!Body(t), 3, "init global", 0)
      /\ Entry(CS!Body(t), 4, "list global", 0)
      /\ Entry(CS!Body(t), 5, "atexit", 0)
  BY EarlyNoAttrBody
<1>3. \A i : CS!Goes(t, i) => (i <= 13 => StepsTo(t, i)) /\ (~(i <= 13) => Ends(t))
  BY <1>1, SectionGoes
<1>4. flaw = "none"
  BY <1>1, SectionStepIs
<1>5. CASE pc[t] = 1
  <2>1. CS!Step(t).do = "no list" /\ CS!Step(t).skip = 4
    BY <1>2, <1>5, SectionEntry, Zenon
  <2>2. AllKept /\ IF list = null THEN OnTo(t) ELSE JumpTo(t)
    BY <1>1, <2>1, SectionStepIs
  <2>3. OnTo(t) => StepsTo(t, 2)
    BY <1>3, <1>5 DEF OnTo
  <2>4. pc[t] + 1 + CS!Step(t).skip = 1 + 1 + 4
    BY <1>5, <2>1, Zenon
  <2>5. JumpTo(t) => StepsTo(t, 6)
    BY <1>3, <2>4 DEF JumpTo
  <2>6. SGoes(t)
    BY <1>1, <2>2, <2>5, <2>3 DEF SGoes
  <2> QED  BY <1>5, <1>4, <2>2, <2>5, <2>3, <2>6, Zenon
<1>6. CASE pc[t] = 2
  <2>1. CS!Step(t).do = "no list" /\ CS!Step(t).skip = 2
    BY <1>2, <1>6, SectionEntry, Zenon
  <2>2. AllKept /\ IF list = null THEN OnTo(t) ELSE JumpTo(t)
    BY <1>1, <2>1, SectionStepIs
  <2>3. OnTo(t) => StepsTo(t, 3)
    BY <1>3, <1>6 DEF OnTo
  <2>4. pc[t] + 1 + CS!Step(t).skip = 2 + 1 + 2
    BY <1>6, <2>1, Zenon
  <2>5. JumpTo(t) => StepsTo(t, 5)
    BY <1>3, <2>4 DEF JumpTo
  <2>6. SGoes(t)
    BY <1>1, <2>2, <2>5, <2>3 DEF SGoes
  <2> QED  BY <1>6, <1>4, <2>2, <2>5, <2>3, <2>6, Zenon
<1>7. CASE pc[t] = 3
  <2>1. CS!Step(t).do = "init global" /\ CS!Step(t).skip = 0
    BY <1>2, <1>7, SectionEntry, Zenon
  <2>2. GlobalMade /\ JumpTo(t)
    BY <1>1, <2>1, SectionStepIs
  <2>4. pc[t] + 1 + CS!Step(t).skip = 3 + 1 + 0
    BY <1>7, <2>1, Zenon
  <2>5. JumpTo(t) => StepsTo(t, 4)
    BY <1>3, <2>4 DEF JumpTo
  <2>6. SGoes(t)
    BY <1>1, <2>2, <2>5 DEF SGoes
  <2> QED  BY <1>7, <1>4, <2>2, <2>5, <2>6, Zenon
<1>8. CASE pc[t] = 4
  <2>1. CS!Step(t).do = "list global" /\ CS!Step(t).skip = 0
    BY <1>2, <1>8, SectionEntry, Zenon
  <2>2. GlobalListed /\ JumpTo(t)
    BY <1>1, <2>1, SectionStepIs
  <2>4. pc[t] + 1 + CS!Step(t).skip = 4 + 1 + 0
    BY <1>8, <2>1, Zenon
  <2>5. JumpTo(t) => StepsTo(t, 5)
    BY <1>3, <2>4 DEF JumpTo
  <2>6. SGoes(t)
    BY <1>1, <2>2, <2>5 DEF SGoes
  <2> QED  BY <1>8, <1>4, <2>2, <2>5, <2>6, Zenon
<1>9. CASE pc[t] = 5
  <2>1. CS!Step(t).do = "atexit" /\ CS!Step(t).skip = 0
    BY <1>2, <1>9, SectionEntry, Zenon
  <2>2. Registered /\ JumpTo(t)
    BY <1>1, <2>1, SectionStepIs
  <2>4. pc[t] + 1 + CS!Step(t).skip = 5 + 1 + 0
    BY <1>9, <2>1, Zenon
  <2>5. JumpTo(t) => StepsTo(t, 6)
    BY <1>3, <2>4 DEF JumpTo
  <2>6. SGoes(t)
    BY <1>1, <2>2, <2>5 DEF SGoes
  <2> QED  BY <1>9, <1>4, <2>2, <2>5, <2>6, Zenon
<1>10. pc[t] = 1 \/ pc[t] = 2 \/ pc[t] = 3 \/ pc[t] = 4 \/ pc[t] = 5
  BY <1>1
<1> QED
  BY <1>5, <1>6, <1>7, <1>8, <1>9, <1>10, Zenon

\* Its steps from where all copies are alike.
LEMMA CommonStep ==
    ASSUME SectionCalls, NEW t \in Threads, call[t] = "enter", CS!CallStep(t),
           NEW k, k = Prelude(copy), ~(pc[t] <= k)
    PROVE  /\ flaw = "none" /\ SGoes(t) /\ k \in {0, 5, 7}
           /\ \/ pc[t] = k + 1 /\ next[dcs[t]] = null /\ StepsTo(t, k + 2) /\ AllKept
              \/ pc[t] = k + 1 /\ next[dcs[t]] # null /\ StepsTo(t, k + 8) /\ AllKept
              \/ pc[t] = k + 2 /\ GlobalTaken(t) /\ StepsTo(t, k + 3)
              \/ pc[t] = k + 3 /\ next[dcs[t]] = null /\ StepsTo(t, k + 4) /\ AllKept
              \/ pc[t] = k + 3 /\ next[dcs[t]] # null /\ StepsTo(t, k + 7) /\ AllKept
              \/ pc[t] = k + 4 /\ NextSet(t) /\ StepsTo(t, k + 5)
              \/ pc[t] = k + 5 /\ SectionListed(t) /\ StepsTo(t, k + 6)
              \/ pc[t] = k + 6 /\ SectionMade(t) /\ StepsTo(t, k + 7)
              \/ pc[t] = k + 7 /\ GlobalLeft /\ StepsTo(t, k + 8)
              \/ pc[t] = k + 8 /\ (SectionLocked(t) \/ NoMutexLocked(t)) /\ Ends(t)
<1>1. SInCode(t) /\ pc[t] \in Nat
  <2>1. call[t] # "none" /\ pc[t] \in Nat
    BY DEF SectionCalls
  <2> QED  BY <2>1 DEF SectionCalls
<1>2. /\ k \in {0, 5, 7}
      /\ Len(CS!Body(t)) = k + 8
      /\ Common(CS!Body(t), k, SectionStart(copy))
  BY EnterBody
<1>3. \A i : CS!Goes(t, i) => (i <= k + 8 => StepsTo(t, i)) /\ (~(i <= k + 8) => Ends(t))
  BY <1>1, <1>2, SectionGoes
<1>4. flaw = "none"
  BY <1>1, SectionStepIs
<1>5. CASE pc[t] = k + 1
  <2>1. CS!Step(t).do = "no next" /\ CS!Step(t).skip = 6
    <3>1. Entry(CS!Body(t), pc[t], "no next", 6)
      BY <1>2, <1>5, Zenon DEF Common
    <3> QED  BY <3>1, SectionEntry, Zenon
  <2>2. AllKept /\ IF next[dcs[t]] = null THEN OnTo(t) ELSE JumpTo(t)
    BY <1>1, <2>1, SectionStepIs
  <2>3. OnTo(t) => StepsTo(t, k + 2)
    <3>1. pc[t] + 1 = k + 2 /\ k + 2 <= k + 8
      BY <1>2, <1>5
    <3> QED  BY <1>3, <3>1, Zenon DEF OnTo
  <2>4. pc[t] + 1 + CS!Step(t).skip = k + 8 /\ k + 8 <= k + 8
    <3>1. pc[t] + 1 + CS!Step(t).skip = (k + 1) + 1 + 6
      BY <1>5, <2>1, Zenon
    <3> QED  BY <1>2, <3>1
  <2>5. JumpTo(t) => StepsTo(t, k + 8)
    BY <1>3, <2>4, Zenon DEF JumpTo
  <2>6. SGoes(t)
    BY <1>2, <2>2, <2>5, <2>3 DEF SGoes
  <2> QED  BY <1>5, <1>2, <1>4, <2>2, <2>5, <2>3, <2>6, Zenon
<1>6. CASE pc[t] = k + 2
  <2>1. CS!Step(t).do = "lock global" /\ CS!Step(t).skip = 0
    <3>1. Entry(CS!Body(t), pc[t], "lock global", 0)
      BY <1>2, <1>6, Zenon DEF Common
    <3> QED  BY <3>1, SectionEntry, Zenon
  <2>2. GlobalTaken(t) /\ JumpTo(t)
    BY <1>1, <2>1, SectionStepIs
  <2>4. pc[t] + 1 + CS!Step(t).skip = k + 3 /\ k + 3 <= k + 8
    <3>1. pc[t] + 1 + CS!Step(t).skip = (k + 2) + 1 + 0
      BY <1>6, <2>1, Zenon
    <3> QED  BY <1>2, <3>1
  <2>5. JumpTo(t) => StepsTo(t, k + 3)
    BY <1>3, <2>4, Zenon DEF JumpTo
  <2>6. SGoes(t)
    BY <1>2, <2>2, <2>5 DEF SGoes
  <2> QED  BY <1>6, <1>2, <1>4, <2>2, <2>5, <2>6, Zenon
<1>7. CASE pc[t] = k + 3
  <2>1. CS!Step(t).do = "no next" /\ CS!Step(t).skip = 3
    <3>1. Entry(CS!Body(t), pc[t], "no next", 3)
      BY <1>2, <1>7, Zenon DEF Common
    <3> QED  BY <3>1, SectionEntry, Zenon
  <2>2. AllKept /\ IF next[dcs[t]] = null THEN OnTo(t) ELSE JumpTo(t)
    BY <1>1, <2>1, SectionStepIs
  <2>3. OnTo(t) => StepsTo(t, k + 4)
    <3>1. pc[t] + 1 = k + 4 /\ k + 4 <= k + 8
      BY <1>2, <1>7
    <3> QED  BY <1>3, <3>1, Zenon DEF OnTo
  <2>4. pc[t] + 1 + CS!Step(t).skip = k + 7 /\ k + 7 <= k + 8
    <3>1. pc[t] + 1 + CS!Step(t).skip = (k + 3) + 1 + 3
      BY <1>7, <2>1, Zenon
    <3> QED  BY <1>2, <3>1
  <2>5. JumpTo(t) => StepsTo(t, k + 7)
    BY <1>3, <2>4, Zenon DEF JumpTo
  <2>6. SGoes(t)
    BY <1>2, <2>2, <2>5, <2>3 DEF SGoes
  <2> QED  BY <1>7, <1>2, <1>4, <2>2, <2>5, <2>3, <2>6, Zenon
<1>8. CASE pc[t] = k + 4
  <2>1. CS!Step(t).do = "set next" /\ CS!Step(t).skip = 0
    <3>1. Entry(CS!Body(t), pc[t], "set next", 0)
      BY <1>2, <1>8, Zenon DEF Common
    <3> QED  BY <3>1, SectionEntry, Zenon
  <2>2. NextSet(t) /\ JumpTo(t)
    BY <1>1, <2>1, SectionStepIs
  <2>4. pc[t] + 1 + CS!Step(t).skip = k + 5 /\ k + 5 <= k + 8
    <3>1. pc[t] + 1 + CS!Step(t).skip = (k + 4) + 1 + 0
      BY <1>8, <2>1, Zenon
    <3> QED  BY <1>2, <3>1
  <2>5. JumpTo(t) => StepsTo(t, k + 5)
    BY <1>3, <2>4, Zenon DEF JumpTo
  <2>6. SGoes(t)
    BY <1>2, <2>2, <2>5 DEF SGoes
  <2> QED  BY <1>8, <1>2, <1>4, <2>2, <2>5, <2>6, Zenon
<1>9. CASE pc[t] = k + 5
  <2>1. CS!Step(t).do = "set list" /\ CS!Step(t).skip = 0
    <3>1. Entry(CS!Body(t), pc[t], "set list", 0)
      BY <1>2, <1>9, Zenon DEF Common
    <3> QED  BY <3>1, SectionEntry, Zenon
  <2>2. SectionListed(t) /\ JumpTo(t)
    BY <1>1, <2>1, SectionStepIs
  <2>4. pc[t] + 1 + CS!Step(t).skip = k + 6 /\ k + 6 <= k + 8
    <3>1. pc[t] + 1 + CS!Step(t).skip = (k + 5) + 1 + 0
      BY <1>9, <2>1, Zenon
    <3> QED  BY <1>2, <3>1
  <2>5. JumpTo(t) => StepsTo(t, k + 6)
    BY <1>3, <2>4, Zenon DEF JumpTo
  <2>6. SGoes(t)
    BY <1>2, <2>2, <2>5 DEF SGoes
  <2> QED  BY <1>9, <1>2, <1>4, <2>2, <2>5, <2>6, Zenon
<1>10. CASE pc[t] = k + 6
  <2>1. CS!Step(t).do = SectionStart(copy) /\ CS!Step(t).skip = 0
    <3>1. Entry(CS!Body(t), pc[t], SectionStart(copy), 0)
      BY <1>2, <1>10, Zenon DEF Common
    <3> QED  BY <3>1, SectionEntry, Zenon
  <2>2. SectionMade(t) /\ JumpTo(t)
    <3>1. SectionStart(copy) \in {"init section", "init section of attr"}
      BY DEF SectionStart
    <3> QED  BY <1>1, <2>1, <3>1, SectionStepIs
  <2>4. pc[t] + 1 + CS!Step(t).skip = k + 7 /\ k + 7 <= k + 8
    <3>1. pc[t] + 1 + CS!Step(t).skip = (k + 6) + 1 + 0
      BY <1>10, <2>1, Zenon
    <3> QED  BY <1>2, <3>1
  <2>5. JumpTo(t) => StepsTo(t, k + 7)
    BY <1>3, <2>4, Zenon DEF JumpTo
  <2>6. SGoes(t)
    BY <1>2, <2>2, <2>5 DEF SGoes
  <2> QED  BY <1>10, <1>2, <1>4, <2>2, <2>5, <2>6, Zenon
<1>11. CASE pc[t] = k + 7
  <2>1. CS!Step(t).do = "unlock global" /\ CS!Step(t).skip = 0
    <3>1. Entry(CS!Body(t), pc[t], "unlock global", 0)
      BY <1>2, <1>11, Zenon DEF Common
    <3> QED  BY <3>1, SectionEntry, Zenon
  <2>2. GlobalLeft /\ JumpTo(t)
    BY <1>1, <2>1, SectionStepIs
  <2>4. pc[t] + 1 + CS!Step(t).skip = k + 8 /\ k + 8 <= k + 8
    <3>1. pc[t] + 1 + CS!Step(t).skip = (k + 7) + 1 + 0
      BY <1>11, <2>1, Zenon
    <3> QED  BY <1>2, <3>1
  <2>5. JumpTo(t) => StepsTo(t, k + 8)
    BY <1>3, <2>4, Zenon DEF JumpTo
  <2>6. SGoes(t)
    BY <1>2, <2>2, <2>5 DEF SGoes
  <2> QED  BY <1>11, <1>2, <1>4, <2>2, <2>5, <2>6, Zenon
<1>12. CASE pc[t] = k + 8
  <2>1. CS!Step(t).do = "lock section" /\ CS!Step(t).skip = 0
    <3>1. Entry(CS!Body(t), pc[t], "lock section", 0)
      BY <1>2, <1>12, Zenon DEF Common
    <3> QED  BY <3>1, SectionEntry, Zenon
  <2>2. (SectionLocked(t) \/ NoMutexLocked(t)) /\ JumpTo(t)
    BY <1>1, <2>1, SectionStepIs
  <2>4. pc[t] + 1 + CS!Step(t).skip = k + 9 /\ ~(k + 9 <= k + 8)
    <3>1. pc[t] + 1 + CS!Step(t).skip = (k + 8) + 1 + 0
      BY <1>12, <2>1, Zenon
    <3> QED  BY <1>2, <3>1
  <2>5. JumpTo(t) => Ends(t)
    BY <1>3, <2>4, Zenon DEF JumpTo
  <2>6. SGoes(t)
    BY <1>2, <2>2, <2>5 DEF SGoes
  <2> QED  BY <1>12, <1>2, <1>4, <2>2, <2>5, <2>6, Zenon
<1>13. pc[t] = k + 1 \/ pc[t] = k + 2 \/ pc[t] = k + 3 \/ pc[t] = k + 4 \/ pc[t] = k + 5 \/ pc[t] = k + 6 \/ pc[t] = k + 7 \/ pc[t] = k + 8
  BY <1>1, <1>2 DEF SInCode
<1> QED
  BY <1>5, <1>6, <1>7, <1>8, <1>9, <1>10, <1>11, <1>12, <1>13, Zenon

-----------------------------------------------------------------------------
(* Places in critical.c                                                    *)

LEMMA ShiftsIs ==
    ASSUME SectionCalls, NEW t \in Threads, NEW f, NEW i, NEW s, Shifts(t, f, i, s)
    PROVE  /\ SOthers(t)
           /\ call'[t] = f /\ pc'[t] = i /\ dcs'[t] = s
           /\ dmain' = dmain /\ stops' = stops
BY DEF SectionCalls, Shifts, SOthers

LEMMA ShiftsKeepCalls ==
    ASSUME SectionCalls, NEW t \in Threads, NEW f, NEW i \in Nat, NEW s \in Sections \cup {null},
           \/ f = "none"
           \/ /\ f \in {"init", "term", "enter", "exit"}
              /\ i \in 1 .. Len(CS!CriticalCode[copy][f]),
           copy' = copy,
           call' = [call EXCEPT ![t] = f],
           pc' = [pc EXCEPT ![t] = i],
           dcs' = [dcs EXCEPT ![t] = s]
    PROVE  SectionCalls'
<1>1. /\ copy' \in DOMAIN CS!CriticalCode
      /\ call' \in [Threads -> {"none", "init", "term", "enter", "exit"}]
      /\ pc' \in [Threads -> Nat]
      /\ dcs' \in [Threads -> Sections \cup {null}]
  BY DEF SectionCalls
<1>2. ASSUME NEW u \in Threads, call'[u] # "none"
      PROVE  SInCode(u)'
  <2>1. CASE u = t
    <3>1. call'[t] = f /\ pc'[t] = i
      BY DEF SectionCalls
    <3> QED  BY <1>2, <2>1, <3>1 DEF SInCode, CS!Body
  <2>2. CASE u # t
    <3>1. call'[u] = call[u] /\ pc'[u] = pc[u]
      BY <2>2 DEF SectionCalls
    <3>2. SInCode(u)
      BY <1>2, <3>1 DEF SectionCalls
    <3> QED  BY <3>1, <3>2 DEF SInCode, CS!Body
  <2> QED  BY <2>1, <2>2
<1> QED  BY <1>1, <1>2 DEF SectionCalls

LEMMA SectionCallsKept ==
    ASSUME SectionCalls, NEW t \in Threads, SGoes(t)
    PROVE  SectionCalls'
<1>1. /\ call[t] \in {"init", "term", "enter", "exit"}
      /\ dcs[t] \in Sections \cup {null}
  BY DEF SectionCalls, SGoes, SInCode
<1>2. CASE Ends(t)
  <2>1. null \in Sections \cup {null} /\ 1 \in Nat
    OBVIOUS
  <2>2. /\ copy' = copy /\ call' = [call EXCEPT ![t] = "none"]
        /\ pc' = [pc EXCEPT ![t] = 1] /\ dcs' = [dcs EXCEPT ![t] = null]
    BY <1>2 DEF Ends, Shifts
  <2> QED  BY <2>1, <2>2, ShiftsKeepCalls, Zenon
<1>3. ASSUME NEW i \in 1 .. Len(CS!Body(t)), StepsTo(t, i) PROVE SectionCalls'
  <2>1. i \in Nat /\ i \in 1 .. Len(CS!CriticalCode[copy][call[t]])
    BY <1>3 DEF CS!Body
  <2>2. /\ copy' = copy /\ call' = [call EXCEPT ![t] = call[t]]
        /\ pc' = [pc EXCEPT ![t] = i] /\ dcs' = [dcs EXCEPT ![t] = dcs[t]]
    BY <1>3 DEF StepsTo, Shifts
  <2> QED  BY <1>1, <2>1, <2>2, ShiftsKeepCalls, Zenon
<1> QED  BY <1>2, <1>3 DEF SGoes

LEMMA SOthersStay ==
    ASSUME NEW t, SOthers(t)
    PROVE  /\ Prelude(copy)' = Prelude(copy)
           /\ \A u \in Threads \ {t} :
                 /\ Inner(u)' <=> Inner(u)
                 /\ New(u)' <=> New(u)
                 /\ Listed(u)' <=> Listed(u)
                 /\ Half(u)' <=> Half(u)
                 /\ Early(u)' <=> Early(u)
                 /\ Exiting(u)' <=> Exiting(u)
<1>1. Prelude(copy)' = Prelude(copy)
  BY DEF SOthers, Prelude
<1>2. ASSUME NEW u \in Threads \ {t}, NEW n
      PROVE  AtEnter(u, n)' <=> AtEnter(u, n)
  BY <1>1 DEF SOthers, AtEnter
<1> QED  BY <1>1, <1>2 DEF SOthers, Inner, New, Listed, Half, Early, Exiting

LEMMA StandsAt ==
    ASSUME NEW t, call[t] = "enter", NEW k \in {0, 5, 7}, k = Prelude(copy), NEW n \in 1 .. 8,
           pc[t] = k + n
    PROVE  Stands(t, n)
<1>1. \A m \in 1 .. 8 : AtEnter(t, m) <=> m = n
  BY DEF AtEnter
<1>2. ~Early(t) /\ ~Exiting(t)
  BY DEF Early, Exiting
<1> QED  BY <1>1, <1>2 DEF Stands, Inner, New, Listed, Half

LEMMA StandsAtNext ==
    ASSUME NEW t, call'[t] = "enter", NEW k \in {0, 5, 7}, k = Prelude(copy)', NEW n \in 1 .. 8,
           pc'[t] = k + n
    PROVE  Stands(t, n)'
<1>1. \A m \in 1 .. 8 : AtEnter(t, m)' <=> m = n
  BY DEF AtEnter
<1>2. ~Early(t)' /\ ~Exiting(t)'
  BY DEF Early, Exiting
<1> QED  BY <1>1, <1>2 DEF Stands, Inner, New, Listed, Half

LEMMA OutsideIs ==
    ASSUME NEW t
    PROVE  /\ call[t] \in {"none", "init", "term"} => Outside(t) /\ ~Early(t)
           /\ call'[t] \in {"none", "init", "term"} => Outside(t)' /\ ~Early(t)'
           /\ call[t] = "exit" => ~Inner(t) /\ ~New(t) /\ ~Listed(t) /\ ~Half(t) /\ ~Early(t) /\ Exiting(t)
BY DEF Outside, Inner, New, Listed, Half, Exiting, Early, AtEnter

LEMMA OutsideEarly ==
    ASSUME NEW t, call[t] = "enter", pc[t] \in Nat, pc[t] <= Prelude(copy)
    PROVE  Outside(t)
<1>1. Prelude(copy) \in {0, 5, 7}
  BY DEF Prelude
<1>2. \A m \in 1 .. 8 : ~AtEnter(t, m)
  BY <1>1 DEF AtEnter
<1> QED  BY <1>2 DEF Outside, Inner, New, Listed, Half, Exiting

LEMMA OutsideEarlyNext ==
    ASSUME NEW t, call'[t] = "enter", pc'[t] \in Nat, pc'[t] <= Prelude(copy)' + 1
    PROVE  Outside(t)'
<1>1. Prelude(copy)' \in {0, 5, 7}
  BY DEF Prelude
<1>2. \A m \in 2 .. 8 : ~AtEnter(t, m)'
  BY <1>1 DEF AtEnter
<1> QED  BY <1>2 DEF Outside, Inner, New, Listed, Half, Exiting

-----------------------------------------------------------------------------
(* What keeps the data of critical.c                                       *)

LEMMA NextKnownKept ==
    ASSUME SectionCalls, NextKnown, NEW t \in Threads, SOthers(t), Placed(t),
           \A u \in Threads \ {t} : dcs[u] \in Sections =>
               /\ New(u) => next'[dcs[u]] = next[dcs[u]]
               /\ Listed(u) => next'[dcs[u]] # null
               /\ Half(u) => mutex'[dcs[u]] = mutex[dcs[u]],
           \A u \in Threads : call[u] = "enter" => dcs[u] \in Sections
    PROVE  NextKnown'
<1>1. ASSUME NEW u \in Threads \ {t}
      PROVE  /\ New(u)' => next'[dcs'[u]] = null
             /\ Listed(u)' => next'[dcs'[u]] # null
             /\ Half(u)' => mutex'[dcs'[u]] = "raw"
  <2>1. dcs'[u] = dcs[u] /\ (New(u)' <=> New(u)) /\ (Listed(u)' <=> Listed(u)) /\ (Half(u)' <=> Half(u))
    BY SOthersStay DEF SOthers
  <2>2. New(u) \/ Listed(u) \/ Half(u) => dcs[u] \in Sections
    BY DEF New, Listed, Half, AtEnter
  <2> QED  BY <2>1, <2>2 DEF NextKnown
<1> QED  BY <1>1 DEF NextKnown, Placed

LEMMA DataStays ==
    ASSUME SectionCalls, SectionTypes, SectionArguments, SectionData,
           NEW t \in Threads, SOthers(t), SectionsStay, Placed(t), StopsKnown,
           flaw = "none", list' = list \/ list' = global, ~Half(t), ~Half(t)'
    PROVE  SectionData'
<1>1. Chained'
  BY SectionParameters DEF Chained, SectionData, SectionsStay, CS!Parameters
<1>2. NextKnown'
  <2>1. \A u \in Threads : call[u] = "enter" => dcs[u] \in Sections
    BY DEF SectionArguments
  <2> QED  BY <2>1, NextKnownKept DEF SectionData, SectionsStay, NextKnown
<1>3. MutexKnown'
  <2>1. ASSUME NEW s \in Sections, NEW u \in Threads, dcs[u] = s, Half(u)
        PROVE  dcs'[u] = s /\ Half(u)'
    BY <2>1, SOthersStay DEF SOthers
  <2> QED  BY <2>1 DEF MutexKnown, SectionData, SectionsStay
<1>4. Stopped'
  BY DEF Stopped, SectionData, SectionsStay, StopsKnown
<1>5. InsideKept'
  <2>1. ASSUME NEW u \in Threads, Exiting(u)'
        PROVE  inside'[u][dcs'[u]] > 0
    BY <2>1, SOthersStay DEF SOthers, InsideKept, SectionData, SectionsStay, Placed
  <2>2. ASSUME NEW s \in Sections
        PROVE  /\ \A u \in Threads : inside'[u][s] = IF holder'[s] = u THEN count'[s] ELSE 0
               /\ holder'[s] = null => count'[s] = 0
               /\ holder'[s] # null => count'[s] > 0 /\ mutex'[s] = "recursive"
    BY DEF InsideKept, SectionData, SectionsStay
  <2> QED  BY <2>1, <2>2 DEF InsideKept
<1>6. FlawsNamed'
  BY DEF FlawsNamed, SectionsStay
<1> QED  BY <1>1, <1>2, <1>3, <1>4, <1>5, <1>6 DEF SectionData

LEMMA InnerAlone ==
    ASSUME GlobalHeld, NEW t \in Threads, NEW u \in Threads, Inner(t), Inner(u)
    PROVE  t = u
BY DEF GlobalHeld

LEMMA NextSetKeeps ==
    ASSUME SectionCalls, SectionTypes, SectionArguments, GlobalHeld, SectionData,
           NEW t \in Threads, SOthers(t), StopsKnown, dcs[t] \in Sections, dcs'[t] = dcs[t],
           Stands(t, 4), Stands(t, 5)', list # null, flaw = "none", NextSet(t)
    PROVE  SectionData'
<1> DEFINE s == dcs[t]
<1>1. /\ next'[s] = list /\ \A x \in Sections \cup {global} : x # s => next'[x] = next[x]
      /\ list' = list /\ mutex' = mutex /\ holder' = holder /\ count' = count
      /\ inside' = inside /\ flaw' = flaw
  BY DEF NextSet, SectionTypes
<1>2. s # global /\ s \in Sections
  BY SectionParameters DEF CS!Parameters
<1>3. /\ Inner(t) /\ New(t) /\ ~Listed(t) /\ ~Half(t)
      /\ Listed(t)' /\ Half(t)' /\ ~New(t)' /\ ~Exiting(t)'
  BY DEF Stands
<1>4. next[s] = null /\ mutex[s] = "raw"
  BY <1>2, <1>3 DEF SectionData, NextKnown, MutexKnown
<1>5. Chained'
  <2>1. next'[global] = null
    BY <1>1, <1>2 DEF SectionData, Chained
  <2>2. ASSUME NEW x \in Sections, list' = x \/ \E y \in Sections : next'[y] = x
        PROVE  next'[x] # null
    <3>1. list = x \/ \E y \in Sections : next[y] = x
      BY <1>1, <2>2
    <3>2. next[x] # null
      BY <3>1 DEF SectionData, Chained
    <3> QED  BY <1>1, <3>2
  <2> QED  BY <2>1, <2>2 DEF Chained
<1>6. NextKnown'
  <2>1. \A u \in Threads : call[u] = "enter" => dcs[u] \in Sections
    BY DEF SectionArguments
  <2>2. Placed(t)
    BY <1>1, <1>3, <1>4 DEF Placed
  <2>3. ASSUME NEW u \in Threads \ {t}, dcs[u] \in Sections
        PROVE  /\ New(u) => next'[dcs[u]] = next[dcs[u]]
               /\ Listed(u) => next'[dcs[u]] # null
               /\ Half(u) => mutex'[dcs[u]] = mutex[dcs[u]]
    <3>1. ~New(u)
      BY <1>3, InnerAlone DEF New, Inner
    <3>2. Listed(u) => next[dcs[u]] # null
      BY DEF SectionData, NextKnown
    <3> QED  BY <1>1, <2>3, <3>1, <3>2
  <2>4. NextKnown
    BY DEF SectionData
  <2> QED  BY <2>1, <2>2, <2>3, <2>4, NextKnownKept
<1>7. MutexKnown'
  <2>1. ASSUME NEW x \in Sections, x # s, next[x] # null, mutex[x] = "raw"
        PROVE  \E u \in Threads : dcs'[u] = x /\ Half(u)'
    <3>1. PICK u \in Threads : dcs[u] = x /\ Half(u)
      BY <2>1 DEF SectionData, MutexKnown
    <3> QED  BY <2>1, <3>1, SOthersStay DEF SOthers
  <2>2. dcs'[t] = s /\ Half(t)'
    BY <1>3
  <2>3. \A x \in Sections : mutex[x] # "plain" /\ (next[x] = null => mutex[x] = "raw")
    BY DEF SectionData, MutexKnown
  <2>4. ASSUME NEW x \in Sections
        PROVE  /\ mutex'[x] # "plain"
               /\ next'[x] = null => mutex'[x] = "raw"
               /\ next'[x] # null /\ mutex'[x] = "raw" => \E u \in Threads : dcs'[u] = x /\ Half(u)'
    <3>1. CASE x = s
      BY <1>1, <1>4, <2>2, <2>3, <3>1
    <3>2. CASE x # s
      BY <1>1, <2>1, <2>3, <3>2
    <3> QED  BY <3>1, <3>2
  <2> QED  BY <2>4 DEF MutexKnown
<1>8. Stopped'
  BY <1>1 DEF Stopped, SectionData, StopsKnown
<1>9. InsideKept'
  <2>1. ASSUME NEW u \in Threads, Exiting(u)'
        PROVE  inside'[u][dcs'[u]] > 0
    BY <1>1, <1>3, <2>1, SOthersStay DEF SOthers, InsideKept, SectionData
  <2> QED  BY <1>1, <2>1 DEF InsideKept, SectionData
<1>10. FlawsNamed'
  BY <1>1 DEF FlawsNamed
<1> QED  BY <1>5, <1>6, <1>7, <1>8, <1>9, <1>10 DEF SectionData

LEMMA SectionListedKeeps ==
    ASSUME SectionCalls, SectionTypes, SectionArguments, SectionData,
           NEW t \in Threads, SOthers(t), StopsKnown, dcs[t] \in Sections, dcs'[t] = dcs[t],
           Stands(t, 5), Stands(t, 6)', flaw = "none", SectionListed(t)
    PROVE  SectionData'
<1> DEFINE s == dcs[t]
<1>1. /\ list' = s /\ next' = next /\ mutex' = mutex /\ holder' = holder /\ count' = count
      /\ inside' = inside /\ flaw' = flaw
  BY DEF SectionListed
<1>2. /\ Listed(t) /\ Half(t) /\ Listed(t)' /\ Half(t)' /\ ~New(t)' /\ ~Exiting(t)'
  BY DEF Stands
<1>3. next[s] # null /\ mutex[s] = "raw"
  BY <1>2 DEF SectionData, NextKnown
<1>4. Chained'
  BY <1>1, <1>3 DEF Chained, SectionData
<1>5. NextKnown'
  <2>1. \A u \in Threads : call[u] = "enter" => dcs[u] \in Sections
    BY DEF SectionArguments
  <2>2. Placed(t)
    BY <1>1, <1>2, <1>3 DEF Placed
  <2> QED  BY <1>1, <2>1, <2>2, NextKnownKept DEF SectionData, NextKnown
<1>6. MutexKnown'
  <2>1. ASSUME NEW x \in Sections, NEW u \in Threads, dcs[u] = x, Half(u)
        PROVE  dcs'[u] = x /\ Half(u)'
    BY <1>2, <2>1, SOthersStay DEF SOthers
  <2> QED  BY <1>1, <2>1 DEF MutexKnown, SectionData
<1>7. Stopped'
  BY <1>1 DEF Stopped, SectionData, StopsKnown
<1>8. InsideKept'
  <2>1. ASSUME NEW u \in Threads, Exiting(u)'
        PROVE  inside'[u][dcs'[u]] > 0
    BY <1>1, <1>2, <2>1, SOthersStay DEF SOthers, InsideKept, SectionData
  <2> QED  BY <1>1, <2>1 DEF InsideKept, SectionData
<1>9. FlawsNamed'
  BY <1>1 DEF FlawsNamed
<1> QED  BY <1>4, <1>5, <1>6, <1>7, <1>8, <1>9 DEF SectionData

LEMMA SectionMadeKeeps ==
    ASSUME SectionCalls, SectionTypes, SectionArguments, GlobalHeld, SectionAttr, SectionData,
           NEW t \in Threads, SOthers(t), StopsKnown, dcs[t] \in Sections, dcs'[t] = dcs[t],
           Stands(t, 6), Stands(t, 7)', list # null, flaw = "none", SectionMade(t)
    PROVE  SectionData'
<1> DEFINE s == dcs[t]
<1>1. /\ Inner(t) /\ Listed(t) /\ Half(t) /\ Listed(t)' /\ ~Half(t)' /\ ~New(t)' /\ ~Exiting(t)'
  BY DEF Stands
<1>2. next[s] # null /\ mutex[s] = "raw"
  BY <1>1 DEF SectionData, NextKnown
<1>3. holder[s] = null /\ count[s] = 0
  BY <1>2 DEF SectionData, InsideKept
<1>4. CS!Initialise(s, "recursive")
  <2>1. copy \in SectionsAttr => attrC = "recursive"
    BY DEF SectionAttr
  <2> QED  BY <2>1 DEF SectionMade
<1>5. /\ mutex'[s] = "recursive" /\ \A x \in Sections : x # s => mutex'[x] = mutex[x]
      /\ list' = list /\ next' = next /\ inside' = inside /\ flaw' = flaw
      /\ \A x \in Sections : holder'[x] = holder[x] /\ count'[x] = count[x]
  BY <1>3, <1>4 DEF CS!Initialise, SectionMade, SectionTypes
<1>6. Chained'
  BY <1>5 DEF Chained, SectionData
<1>7. NextKnown'
  <2>1. \A u \in Threads : call[u] = "enter" => dcs[u] \in Sections
    BY DEF SectionArguments
  <2>2. Placed(t)
    BY <1>1, <1>2, <1>5 DEF Placed
  <2>3. ASSUME NEW u \in Threads \ {t} PROVE ~Half(u)
    BY <1>1, InnerAlone DEF Half, Inner
  <2> QED  BY <1>5, <2>1, <2>2, <2>3, NextKnownKept DEF SectionData, NextKnown
<1>8. MutexKnown'
  <2>1. ASSUME NEW x \in Sections, x # s, next[x] # null, mutex[x] = "raw"
        PROVE  \E u \in Threads : dcs'[u] = x /\ Half(u)'
    <3>1. PICK u \in Threads : dcs[u] = x /\ Half(u)
      BY <2>1 DEF SectionData, MutexKnown
    <3> QED  BY <2>1, <3>1, SOthersStay DEF SOthers
  <2>2. \A x \in Sections : mutex[x] # "plain" /\ (next[x] = null => mutex[x] = "raw")
    BY DEF SectionData, MutexKnown
  <2>3. ASSUME NEW x \in Sections
        PROVE  /\ mutex'[x] # "plain"
               /\ next'[x] = null => mutex'[x] = "raw"
               /\ next'[x] # null /\ mutex'[x] = "raw" => \E u \in Threads : dcs'[u] = x /\ Half(u)'
    <3>1. CASE x = s
      BY <1>2, <1>5, <3>1
    <3>2. CASE x # s
      BY <1>5, <2>1, <2>2, <3>2
    <3> QED  BY <3>1, <3>2
  <2> QED  BY <2>3 DEF MutexKnown
<1>9. Stopped'
  BY <1>5 DEF Stopped, SectionData, StopsKnown
<1>10. InsideKept'
  <2>1. ASSUME NEW u \in Threads, Exiting(u)'
        PROVE  inside'[u][dcs'[u]] > 0
    BY <1>1, <1>5, <2>1, SOthersStay DEF SOthers, InsideKept, SectionData
  <2> QED  BY <1>3, <1>5, <2>1 DEF InsideKept, SectionData
<1>11. FlawsNamed'
  BY <1>5 DEF FlawsNamed
<1> QED  BY <1>6, <1>7, <1>8, <1>9, <1>10, <1>11 DEF SectionData

LEMMA SectionLockedKeeps ==
    ASSUME SectionCalls, SectionTypes, SectionArguments, SectionData,
           NEW t \in Threads, SOthers(t), StopsKnown, dcs[t] \in Sections,
           Stands(t, 8), Outside(t)', flaw = "none", SectionLocked(t)
    PROVE  SectionData'
<1> DEFINE s == dcs[t]
<1>1. /\ (holder[s] = null \/ holder[s] = t) /\ mutex[s] \in {"plain", "recursive"}
      /\ holder'[s] = t /\ count'[s] = count[s] + 1 /\ inside'[t][s] = inside[t][s] + 1
      /\ \A x \in Sections : x # s => holder'[x] = holder[x] /\ count'[x] = count[x]
      /\ \A u \in Threads, x \in Sections : u # t \/ x # s => inside'[u][x] = inside[u][x]
      /\ list' = list /\ next' = next /\ mutex' = mutex /\ flaw' = flaw
  BY DEF SectionLocked, SectionTypes
<1>2. ~Half(t) /\ ~Half(t)' /\ ~New(t)' /\ ~Listed(t)' /\ ~Exiting(t)'
  BY DEF Stands, Outside
<1>3. mutex[s] = "recursive" /\ count[s] \in Nat
  BY <1>1 DEF SectionData, MutexKnown, SectionTypes
<1>4. Chained'
  BY <1>1 DEF Chained, SectionData
<1>5. NextKnown'
  <2>1. \A u \in Threads : call[u] = "enter" => dcs[u] \in Sections
    BY DEF SectionArguments
  <2>2. Placed(t)
    BY <1>2 DEF Placed
  <2> QED  BY <1>1, <2>1, <2>2, NextKnownKept DEF SectionData, NextKnown
<1>6. MutexKnown'
  <2>1. ASSUME NEW x \in Sections, NEW u \in Threads, dcs[u] = x, Half(u)
        PROVE  dcs'[u] = x /\ Half(u)'
    BY <1>2, <2>1, SOthersStay DEF SOthers
  <2> QED  BY <1>1, <2>1 DEF MutexKnown, SectionData
<1>7. Stopped'
  BY <1>1 DEF Stopped, SectionData, StopsKnown
<1>8. InsideKept'
  <2>1. ASSUME NEW u \in Threads, Exiting(u)'
        PROVE  inside'[u][dcs'[u]] > 0
    <3>1. u # t /\ Exiting(u) /\ dcs'[u] = dcs[u]
      BY <1>2, <2>1, SOthersStay DEF SOthers
    <3>2. dcs[u] \in Sections /\ inside[u][dcs[u]] > 0
      BY <3>1 DEF SectionArguments, Exiting, SectionData, InsideKept
    <3> QED  BY <1>1, <3>1, <3>2
  <2>2. \A u \in Threads : inside[u][s] = IF holder[s] = u THEN count[s] ELSE 0
    BY DEF SectionData, InsideKept
  <2>3. holder[s] = null => count[s] = 0
    BY DEF SectionData, InsideKept
  <2>4. t # null
    BY SectionParameters DEF CS!Parameters
  <2>5. \A u \in Threads : inside'[u][s] = IF holder'[s] = u THEN count'[s] ELSE 0
    BY <1>1, <2>2, <2>3, <2>4
  <2>6. ASSUME NEW x \in Sections
        PROVE  /\ \A u \in Threads : inside'[u][x] = IF holder'[x] = u THEN count'[x] ELSE 0
               /\ holder'[x] = null => count'[x] = 0
               /\ holder'[x] # null => count'[x] > 0 /\ mutex'[x] = "recursive"
    <3>1. CASE x = s
      BY <1>1, <1>3, <2>4, <2>5, <3>1
    <3>2. CASE x # s
      BY <1>1, <3>2 DEF SectionData, InsideKept
    <3> QED  BY <3>1, <3>2
  <2> QED  BY <2>1, <2>6 DEF InsideKept
<1>9. FlawsNamed'
  BY <1>1 DEF FlawsNamed
<1> QED  BY <1>4, <1>5, <1>6, <1>7, <1>8, <1>9 DEF SectionData

LEMMA NoMutexLockedKeeps ==
    ASSUME SectionCalls, SectionTypes, SectionArguments, SectionData,
           NEW t \in Threads, SOthers(t), StopsKnown, dcs[t] \in Sections,
           Stands(t, 8), Outside(t)', NoMutexLocked(t)
    PROVE  SectionData'
<1> DEFINE s == dcs[t]
<1>1. /\ list' = list /\ next' = next /\ mutex' = mutex /\ holder' = holder /\ count' = count
      /\ inside' = inside /\ flaw' = mutex[s] /\ mutex[s] \in {"raw", "deleted"}
  BY DEF NoMutexLocked
<1>2. ~Half(t) /\ ~Half(t)' /\ ~New(t)' /\ ~Listed(t)' /\ ~Exiting(t)' /\ Listed(t)
  BY DEF Stands, Outside
<1>3. ASSUME NEW u \in Threads, Half(u)
      PROVE  dcs'[u] = dcs[u] /\ Half(u)'
  BY <1>2, <1>3, SOthersStay DEF SOthers
<1>4. Chained'
  BY <1>1 DEF Chained, SectionData
<1>5. NextKnown'
  <2>1. \A u \in Threads : call[u] = "enter" => dcs[u] \in Sections
    BY DEF SectionArguments
  <2>2. Placed(t)
    BY <1>2 DEF Placed
  <2> QED  BY <1>1, <2>1, <2>2, NextKnownKept DEF SectionData, NextKnown
<1>6. MutexKnown'
  BY <1>1, <1>3 DEF MutexKnown, SectionData
<1>7. Stopped'
  BY <1>1 DEF Stopped, SectionData, StopsKnown
<1>8. InsideKept'
  <2>1. ASSUME NEW u \in Threads, Exiting(u)'
        PROVE  inside'[u][dcs'[u]] > 0
    BY <1>1, <1>2, <2>1, SOthersStay DEF SOthers, InsideKept, SectionData
  <2> QED  BY <1>1, <2>1 DEF InsideKept, SectionData
<1>9. FlawsNamed'
  <2>1. ASSUME mutex[s] = "raw"
        PROVE  \E u \in Threads : Half(u)' /\ mutex'[dcs'[u]] = "raw"
    <3>1. next[s] # null
      BY <1>2 DEF SectionData, NextKnown
    <3>2. PICK u \in Threads : dcs[u] = s /\ Half(u)
      BY <2>1, <3>1 DEF SectionData, MutexKnown
    <3> QED  BY <1>1, <1>3, <2>1, <3>2
  <2>2. mutex[s] = "deleted" => stops' > 0
    BY DEF SectionData, Stopped, StopsKnown
  <2> QED  BY <1>1, <2>1, <2>2 DEF FlawsNamed
<1> QED  BY <1>4, <1>5, <1>6, <1>7, <1>8, <1>9 DEF SectionData

LEMMA SectionUnlockedKeeps ==
    ASSUME SectionCalls, SectionTypes, SectionArguments, SectionData,
           NEW t \in Threads, SOthers(t), StopsKnown, dcs[t] \in Sections,
           Exiting(t), ~Half(t), Outside(t)', flaw = "none", SectionUnlocked(t)
    PROVE  SectionData'
<1> DEFINE s == dcs[t]
<1>1. /\ holder'[s] = (IF count[s] = 1 THEN null ELSE holder[s])
      /\ count'[s] = count[s] - 1 /\ inside'[t][s] = inside[t][s] - 1
      /\ \A x \in Sections : x # s => holder'[x] = holder[x] /\ count'[x] = count[x]
      /\ \A u \in Threads, x \in Sections : u # t \/ x # s => inside'[u][x] = inside[u][x]
      /\ list' = list /\ next' = next /\ mutex' = mutex /\ flaw' = flaw
  BY DEF SectionUnlocked, SectionTypes
<1>2. ~Half(t)' /\ ~New(t)' /\ ~Listed(t)' /\ ~Exiting(t)'
  BY DEF Outside
<1>3. Chained'
  BY <1>1 DEF Chained, SectionData
<1>4. NextKnown'
  <2>1. \A u \in Threads : call[u] = "enter" => dcs[u] \in Sections
    BY DEF SectionArguments
  <2>2. Placed(t)
    BY <1>2 DEF Placed
  <2> QED  BY <1>1, <2>1, <2>2, NextKnownKept DEF SectionData, NextKnown
<1>5. MutexKnown'
  <2>1. ASSUME NEW x \in Sections, NEW u \in Threads, dcs[u] = x, Half(u)
        PROVE  dcs'[u] = x /\ Half(u)'
    BY <1>2, <2>1, SOthersStay DEF SOthers
  <2> QED  BY <1>1, <2>1 DEF MutexKnown, SectionData
<1>6. Stopped'
  BY <1>1 DEF Stopped, SectionData, StopsKnown
<1>7. InsideKept'
  <2>1. ASSUME NEW u \in Threads, Exiting(u)'
        PROVE  inside'[u][dcs'[u]] > 0
    <3>1. u # t /\ Exiting(u) /\ dcs'[u] = dcs[u]
      BY <1>2, <2>1, SOthersStay DEF SOthers
    <3>2. dcs[u] \in Sections /\ inside[u][dcs[u]] > 0
      BY <3>1 DEF SectionArguments, Exiting, SectionData, InsideKept
    <3> QED  BY <1>1, <3>1, <3>2
  <2>2. inside[t][s] > 0
    BY DEF SectionData, InsideKept
  <2>3. \A u \in Threads : inside[u][s] = IF holder[s] = u THEN count[s] ELSE 0
    BY DEF SectionData, InsideKept
  <2>4. t # null /\ count[s] \in Nat
    BY SectionParameters DEF CS!Parameters, SectionTypes
  <2>5. holder[s] = t /\ count[s] > 0 /\ mutex[s] = "recursive"
    BY <2>2, <2>3, <2>4 DEF SectionData, InsideKept
  <2>6. \A u \in Threads : inside'[u][s] = IF holder'[s] = u THEN count'[s] ELSE 0
    BY <1>1, <2>3, <2>4, <2>5
  <2>7. ASSUME NEW x \in Sections
        PROVE  /\ \A u \in Threads : inside'[u][x] = IF holder'[x] = u THEN count'[x] ELSE 0
               /\ holder'[x] = null => count'[x] = 0
               /\ holder'[x] # null => count'[x] > 0 /\ mutex'[x] = "recursive"
    <3>1. CASE x = s
      BY <1>1, <2>4, <2>5, <2>6, <3>1
    <3>2. CASE x # s
      BY <1>1, <3>2 DEF SectionData, InsideKept
    <3> QED  BY <3>1, <3>2
  <2> QED  BY <2>1, <2>7 DEF InsideKept
<1>8. FlawsNamed'
  BY <1>1 DEF FlawsNamed
<1> QED  BY <1>3, <1>4, <1>5, <1>6, <1>7, <1>8 DEF SectionData

\* The end of the program: nobody else is in a function or in a section.
LEMMA HeadDeletedKeeps ==
    ASSUME SectionCalls, SectionTypes, SectionArguments, SectionsQuiet, SectionData,
           SOthers(Main), StopsKnown, call[Main] = "term", Outside(Main)',
           list # null, flaw = "none", HeadDeleted
    PROVE  SectionData'
<1>1. /\ mutex' = [mutex EXCEPT ![list] = "deleted"]
      /\ list' = list /\ next' = next /\ holder' = holder /\ count' = count
      /\ inside' = inside /\ flaw' = flaw
  BY DEF HeadDeleted
<1>2. Main \in Threads /\ null \notin Threads
  BY SectionParameters DEF CS!Parameters
<1>3. /\ \A u \in Threads : ~New(u) /\ ~Listed(u) /\ ~Half(u) /\ ~Exiting(u)
      /\ \A u \in Threads, x \in Sections : inside[u][x] = 0
  BY OutsideIs DEF SectionsQuiet, Outside
<1>4. \A u \in Threads : ~New(u)' /\ ~Listed(u)' /\ ~Half(u)' /\ ~Exiting(u)'
  BY <1>2, <1>3, SOthersStay DEF Outside
<1>5. stops > 0
  BY DEF SectionData, Stopped
<1>6. Chained'
  BY <1>1 DEF Chained, SectionData
<1>7. NextKnown'
  BY <1>4 DEF NextKnown
<1>8. MutexKnown'
  <2>1. ASSUME NEW x \in Sections PROVE mutex[x] # "plain" /\ (next[x] = null <=> mutex[x] = "raw")
    BY <1>3 DEF SectionData, MutexKnown
  <2>2. list \in Sections => next[list] # null
    BY DEF SectionData, Chained
  <2>3. \A x \in Sections : mutex'[x] = IF x = list THEN "deleted" ELSE mutex[x]
    BY <1>1 DEF SectionTypes
  <2> QED  BY <1>1, <2>1, <2>2, <2>3 DEF MutexKnown
<1>9. Stopped'
  BY <1>5 DEF Stopped, StopsKnown
<1>10. InsideKept'
  <2>1. ASSUME NEW x \in Sections PROVE holder[x] = null
    BY <1>3 DEF SectionData, InsideKept, SectionTypes
  <2> QED  BY <1>1, <1>4, <2>1 DEF InsideKept, SectionData
<1>11. FlawsNamed'
  BY <1>1 DEF FlawsNamed
<1> QED  BY <1>6, <1>7, <1>8, <1>9, <1>10, <1>11 DEF SectionData

LEMMA HeadPoppedKeeps ==
    ASSUME SectionCalls, SectionTypes, SectionArguments, SectionData,
           NEW t \in Threads, SOthers(t), StopsKnown, Outside(t), Outside(t)',
           list # null, flaw = "none", HeadPopped
    PROVE  SectionData'
<1>1. /\ list' = next[list] /\ next' = next /\ mutex' = mutex /\ holder' = holder
      /\ count' = count /\ inside' = inside /\ flaw' = flaw
  BY DEF HeadPopped
<1>2. ~Half(t) /\ ~Half(t)' /\ ~New(t)' /\ ~Listed(t)' /\ ~Exiting(t)'
  BY DEF Outside
<1>3. Chained'
  <2>1. list \in Sections \/ (list = global /\ next[list] = null)
    BY DEF SectionData, Chained, SectionTypes
  <2>2. null \notin Sections
    BY SectionParameters DEF CS!Parameters
  <2> QED  BY <1>1, <2>1, <2>2 DEF Chained, SectionData
<1>4. NextKnown'
  <2>1. \A u \in Threads : call[u] = "enter" => dcs[u] \in Sections
    BY DEF SectionArguments
  <2>2. Placed(t)
    BY <1>2 DEF Placed
  <2> QED  BY <1>1, <2>1, <2>2, NextKnownKept DEF SectionData, NextKnown
<1>5. MutexKnown'
  <2>1. ASSUME NEW x \in Sections, NEW u \in Threads, dcs[u] = x, Half(u)
        PROVE  dcs'[u] = x /\ Half(u)'
    BY <1>2, <2>1, SOthersStay DEF SOthers
  <2> QED  BY <1>1, <2>1 DEF MutexKnown, SectionData
<1>6. Stopped'
  BY <1>1 DEF Stopped, SectionData, StopsKnown
<1>7. InsideKept'
  <2>1. ASSUME NEW u \in Threads, Exiting(u)'
        PROVE  inside'[u][dcs'[u]] > 0
    BY <1>1, <1>2, <2>1, SOthersStay DEF SOthers, InsideKept, SectionData
  <2> QED  BY <1>1, <2>1 DEF InsideKept, SectionData
<1>8. FlawsNamed'
  BY <1>1 DEF FlawsNamed
<1> QED  BY <1>3, <1>4, <1>5, <1>6, <1>7, <1>8 DEF SectionData

-----------------------------------------------------------------------------
(* The steps of critical.c keep its types                                  *)

LEMMA SectionTypesKept ==
    ASSUME SectionTypes, NEW t \in Threads, dmain' = dmain, stops' = stops
    PROVE  /\ AllKept \/ AttrMade \/ AttrTyped \/ InitedSet \/ InitedCleared \/ Registered => SectionTypes'
           /\ GlobalMade \/ GlobalListed \/ (HeadPopped /\ list # null) => SectionTypes'
           /\ HeadDeleted \/ GlobalTaken(t) \/ GlobalLeft => SectionTypes'
<1>1. AllKept \/ AttrMade \/ AttrTyped \/ InitedSet \/ InitedCleared \/ Registered => SectionTypes'
  BY DEF SectionTypes, AllKept, AttrMade, AttrTyped, InitedSet, InitedCleared, Registered
<1>2. GlobalMade => SectionTypes'
  BY DEF SectionTypes, GlobalMade, CS!Initialise
<1>3. GlobalListed \/ (HeadPopped /\ list # null) => SectionTypes'
  BY DEF SectionTypes, GlobalListed, HeadPopped
<1>4. HeadDeleted => SectionTypes'
  BY DEF SectionTypes, HeadDeleted
<1>5. GlobalTaken(t) => SectionTypes'
  BY DEF SectionTypes, GlobalTaken
<1>6. GlobalLeft => SectionTypes'
  BY DEF SectionTypes, GlobalLeft
<1> QED  BY <1>1, <1>2, <1>3, <1>4, <1>5, <1>6

LEMMA SectionStepTypesKept ==
    ASSUME SectionTypes, NEW t \in Threads, dmain' = dmain, stops' = stops, dcs[t] \in Sections
    PROVE  /\ SectionMade(t) \/ SectionListed(t) \/ NextSet(t) => SectionTypes'
           /\ SectionLocked(t) \/ NoMutexLocked(t) => SectionTypes'
           /\ SectionUnlocked(t) /\ count[dcs[t]] > 0 /\ inside[t][dcs[t]] > 0 => SectionTypes'
<1>1. SectionMade(t) => SectionTypes'
  BY DEF SectionTypes, SectionMade, CS!Initialise
<1>2. SectionListed(t) \/ NextSet(t) => SectionTypes'
  BY DEF SectionTypes, SectionListed, NextSet
<1>3. SectionLocked(t) => SectionTypes'
  <2> SUFFICES ASSUME SectionLocked(t) PROVE SectionTypes'
    OBVIOUS
  <2>1. inside' \in [Threads -> [Sections -> Nat]]
    BY DEF SectionTypes, SectionLocked
  <2>2. count' \in [Sections \cup {global} -> Nat] /\ holder' \in [Sections \cup {global} -> Threads \cup {null}]
    BY DEF SectionTypes, SectionLocked
  <2> QED  BY <2>1, <2>2 DEF SectionTypes, SectionLocked
<1>4. NoMutexLocked(t) => SectionTypes'
  BY DEF SectionTypes, NoMutexLocked
<1>5. ASSUME SectionUnlocked(t), count[dcs[t]] > 0, inside[t][dcs[t]] > 0
      PROVE  SectionTypes'
  <2>1. inside' \in [Threads -> [Sections -> Nat]]
    BY <1>5 DEF SectionTypes, SectionUnlocked
  <2>2. count' \in [Sections \cup {global} -> Nat] /\ holder' \in [Sections \cup {global} -> Threads \cup {null}]
    BY <1>5 DEF SectionTypes, SectionUnlocked
  <2> QED  BY <1>5, <2>1, <2>2 DEF SectionTypes, SectionUnlocked
<1> QED  BY <1>1, <1>2, <1>3, <1>4, <1>5

-----------------------------------------------------------------------------
(* The functions of critical.c keep what is said of them                   *)

LEMMA SGoesIs ==
    ASSUME SectionCalls, SectionTypes, SectionData, NEW t \in Threads, SGoes(t)
    PROVE  /\ SOthers(t) /\ dmain' = dmain /\ stops' = stops
           /\ call'[t] \in {call[t], "none"}
           /\ call'[t] = call[t] => dcs'[t] = dcs[t]
           /\ call'[t] = "none" => dcs'[t] = null /\ pc'[t] = 1
           /\ t = Main => call'[Main] \in {call[Main], "none"}
           /\ StopsKnown
<1>1. Main \in Threads
  BY SectionParameters DEF CS!Parameters
<1>2. /\ SOthers(t) /\ dmain' = dmain /\ stops' = stops
      /\ \/ call'[t] = "none" /\ dcs'[t] = null /\ pc'[t] = 1
         \/ call'[t] = call[t] /\ dcs'[t] = dcs[t]
  BY ShiftsIs DEF SGoes, Ends, StepsTo
<1>3. call[t] # "none"
  BY DEF SGoes
<1>4. call'[Main] = "term" => call[Main] = "term"
  BY <1>1, <1>2 DEF SOthers
<1>5. StopsKnown
  BY <1>2, <1>4 DEF StopsKnown, SectionTypes, SectionData, Stopped
<1> QED  BY <1>2, <1>3, <1>5

LEMMA ArgumentsKept ==
    ASSUME SectionCalls, SectionTypes, SectionData, SectionArguments, NEW t \in Threads, SGoes(t)
    PROVE  SectionArguments'
<1>1. /\ SOthers(t)
      /\ call[t] # "none"
      /\ \/ call'[t] = "none" /\ dcs'[t] = null /\ pc'[t] = 1
         \/ call'[t] = call[t] /\ dcs'[t] = dcs[t]
  BY SGoesIs DEF SGoes
<1>2. ASSUME NEW u \in Threads
      PROVE  /\ call'[u] = "none" => pc'[u] = 1
             /\ call'[u] \in {"none", "init", "term"} => dcs'[u] = null
             /\ call'[u] \in {"init", "term"} => u = Main
             /\ call'[u] \in {"enter", "exit"} => dcs'[u] \in Sections
  BY <1>1, <1>2 DEF SOthers, SectionArguments
<1> QED  BY <1>2 DEF SectionArguments

LEMMA GlobalHeldStays ==
    ASSUME GlobalHeld, NEW t \in Threads, SOthers(t), holder'[global] = holder[global],
           Inner(t)' <=> Inner(t)
    PROVE  GlobalHeld'
BY SOthersStay DEF GlobalHeld

LEMMA AsideKeeps ==
    ASSUME SectionCalls, SectionTypes, SectionArguments, GlobalHeld, SectionData,
           NEW t \in Threads, SGoes(t), Outside(t), Outside(t)', flaw = "none", Aside
    PROVE  /\ SectionCalls' /\ SectionTypes' /\ SectionArguments' /\ GlobalHeld' /\ SectionData'
           /\ inside' = inside
<1>1. SOthers(t) /\ dmain' = dmain /\ stops' = stops /\ StopsKnown
  BY SGoesIs
<1>2. SectionTypes'
  BY <1>1, SectionTypesKept DEF Aside
<1>3. SectionsStay /\ holder' = holder /\ (list' = list \/ list' = global)
  BY DEF Aside, SectionsStay, AllKept, AttrMade, AttrTyped, InitedSet, InitedCleared, Registered,
         GlobalListed
<1>4. GlobalHeld'
  BY <1>1, <1>3, GlobalHeldStays DEF Outside
<1>5. Placed(t) /\ ~Half(t) /\ ~Half(t)'
  BY DEF Placed, Outside
<1>6. SectionData'
  BY <1>1, <1>3, <1>5, DataStays
<1> QED  BY <1>2, <1>3, <1>4, <1>6, ArgumentsKept, SectionCallsKept DEF SectionsStay

LEMMA GlobalMadeKeeps ==
    ASSUME SectionCalls, SectionTypes, SectionArguments, SectionsQuiet, GlobalHeld, SectionData,
           NEW t \in Threads, t = Main, SGoes(t), Outside(t), Outside(t)', flaw = "none", list = null,
           GlobalMade
    PROVE  /\ SectionCalls' /\ SectionTypes' /\ SectionArguments' /\ GlobalHeld' /\ SectionData'
           /\ inside' = inside
<1>1. SOthers(t) /\ dmain' = dmain /\ stops' = stops /\ StopsKnown
  BY SGoesIs
<1>2. SectionTypes'
  BY <1>1, SectionTypesKept
<1>3. global \notin Sections /\ null \notin Threads
  BY SectionParameters DEF CS!Parameters
<1>4. SectionsStay /\ list' = list /\ holder'[global] = null
  BY <1>3 DEF GlobalMade, CS!Initialise, SectionsStay, SectionTypes
<1>5. GlobalHeld'
  <2>1. ASSUME NEW u \in Threads PROVE ~Inner(u)'
    <3>1. CASE u = t
      BY <3>1 DEF Outside
    <3>2. CASE u # t
      <4>1. call[u] = "none"
        BY <3>2 DEF SectionsQuiet
      <4> QED  BY <3>2, <4>1, <1>1, SOthersStay, OutsideIs DEF Outside
    <3> QED  BY <3>1, <3>2
  <2> QED  BY <1>3, <1>4, <2>1 DEF GlobalHeld
<1>6. Placed(t) /\ ~Half(t) /\ ~Half(t)'
  BY DEF Placed, Outside
<1>7. SectionData'
  BY <1>1, <1>4, <1>6, DataStays
<1> QED  BY <1>2, <1>4, <1>5, <1>7, ArgumentsKept, SectionCallsKept DEF SectionsStay

LEMMA HeadStepsKeep ==
    ASSUME SectionCalls, SectionTypes, SectionArguments, SectionsQuiet, GlobalHeld, SectionData,
           NEW t \in Threads, t = Main, SGoes(t), call[t] = "term", call'[t] = "term",
           flaw = "none", list # null, HeadDeleted \/ HeadPopped
    PROVE  /\ SectionCalls' /\ SectionTypes' /\ SectionArguments' /\ GlobalHeld' /\ SectionData'
           /\ inside' = inside
<1>1. SOthers(t) /\ dmain' = dmain /\ stops' = stops /\ StopsKnown
  BY SGoesIs
<1>2. SectionTypes'
  BY <1>1, SectionTypesKept
<1>3. Outside(t) /\ Outside(t)'
  BY OutsideIs
<1>4. holder' = holder /\ inside' = inside
  BY DEF HeadDeleted, HeadPopped
<1>5. GlobalHeld'
  BY <1>1, <1>3, <1>4, GlobalHeldStays DEF Outside
<1>6. SectionData'
  BY <1>1, <1>3, HeadDeletedKeeps, HeadPoppedKeeps
<1> QED  BY <1>2, <1>4, <1>5, <1>6, ArgumentsKept, SectionCallsKept

\* _STI_critical_init
LEMMA InitWin32Keeps ==
    ASSUME SectionInv, NEW t \in Threads, call[t] = "init", copy \in SectionsWin32, CS!CallStep(t)
    PROVE  SectionInv'
<1>1. /\ SectionCalls /\ SectionTypes /\ SectionArguments /\ SectionsQuiet /\ Beginning
      /\ SectionAttr /\ GlobalHeld /\ SectionData
  BY DEF SectionInv, SectionControl
<1>2. flaw = "none" /\ SGoes(t)
  BY <1>1, InitWin32Step
<1>3. SOthers(t) /\ SectionCalls' /\ SectionArguments'
  BY <1>1, <1>2, SGoesIs, SectionCallsKept, ArgumentsKept
<1>4. copy \in SectionsWin32 /\ copy \notin SectionsAttr /\ Prelude(copy) = 0
  BY DEF SectionsWin32, SectionsAttr, Prelude
<1>5. /\ Prelude(copy)' = Prelude(copy) /\ copy' = copy
      /\ \A u \in Threads \ {t} : (Early(u)' <=> Early(u)) /\ call'[u] = call[u] /\ pc'[u] = pc[u]
  BY <1>3, SOthersStay DEF SOthers
<1>6. t = Main /\ Outside(t)
  BY <1>1, OutsideIs DEF SectionArguments
<1>7. ASSUME pc[t] = 1, ~initedC, StepsTo(t, 2), AllKept
      PROVE  SectionInv'
  <2>1. call'[t] = call[t] /\ pc'[t] = 2
    BY <1>1, <1>7, ShiftsIs DEF StepsTo
  <2>2. Outside(t)' /\ t = Main
    BY <1>6, <2>1, OutsideIs
  <2>3. Aside
    BY <1>7 DEF Aside
  <2>4. /\ SectionTypes' /\ GlobalHeld' /\ SectionData' /\ inside' = inside
    BY <1>1, <1>2, <1>6, <2>2, <2>3, AsideKeeps
  <2>5. SectionsQuiet' /\ Beginning' /\ SectionAttr'
    BY <1>1, <1>3, <1>4, <1>5, <1>7, <2>1, <2>2, <2>3, <2>4, SectionParameters
       DEF SectionsQuiet, Beginning, Early, SectionAttr, AllKept, CS!Parameters
  <2> QED  BY <1>3, <2>4, <2>5 DEF SectionInv, SectionControl
<1>8. ASSUME pc[t] = 1, initedC, Ends(t), AllKept
      PROVE  SectionInv'
  <2>1. call'[t] = "none" /\ pc'[t] = 1
    BY <1>1, <1>8, ShiftsIs DEF Ends
  <2>2. Outside(t)' /\ t = Main
    BY <1>6, <2>1, OutsideIs
  <2>3. Aside
    BY <1>8 DEF Aside
  <2>4. /\ SectionTypes' /\ GlobalHeld' /\ SectionData' /\ inside' = inside
    BY <1>1, <1>2, <1>6, <2>2, <2>3, AsideKeeps
  <2>5. SectionsQuiet' /\ Beginning' /\ SectionAttr'
    BY <1>1, <1>3, <1>4, <1>5, <1>8, <2>1, <2>2, <2>3, <2>4, SectionParameters
       DEF SectionsQuiet, Beginning, Early, SectionAttr, AllKept, CS!Parameters
  <2> QED  BY <1>3, <2>4, <2>5 DEF SectionInv, SectionControl
<1>9. ASSUME pc[t] = 2, GlobalMade, StepsTo(t, 3)
      PROVE  SectionInv'
  <2>1. call'[t] = call[t] /\ pc'[t] = 3
    BY <1>1, <1>9, ShiftsIs DEF StepsTo
  <2>2. Outside(t)' /\ t = Main
    BY <1>6, <2>1, OutsideIs
  <2>3. list = null
    BY <1>1, <1>4, <1>9, <1>6, <2>2 DEF Beginning
  <2>4. /\ SectionTypes' /\ GlobalHeld' /\ SectionData' /\ inside' = inside
    BY <1>1, <1>2, <1>9, <1>6, <2>2, <2>3, GlobalMadeKeeps
  <2>5. SectionsQuiet' /\ Beginning' /\ SectionAttr'
    BY <1>1, <1>3, <1>4, <1>5, <1>9, <2>1, <2>2, <2>3, <2>4, SectionParameters
       DEF SectionsQuiet, Beginning, Early, SectionAttr, GlobalMade, CS!Parameters
  <2> QED  BY <1>3, <2>4, <2>5 DEF SectionInv, SectionControl
<1>10. ASSUME pc[t] = 3, GlobalListed, StepsTo(t, 4)
      PROVE  SectionInv'
  <2>1. call'[t] = call[t] /\ pc'[t] = 4
    BY <1>1, <1>10, ShiftsIs DEF StepsTo
  <2>2. Outside(t)' /\ t = Main
    BY <1>6, <2>1, OutsideIs
  <2>3. Aside
    BY <1>10 DEF Aside
  <2>4. /\ SectionTypes' /\ GlobalHeld' /\ SectionData' /\ inside' = inside
    BY <1>1, <1>2, <1>6, <2>2, <2>3, AsideKeeps
  <2>5. SectionsQuiet' /\ Beginning' /\ SectionAttr'
    BY <1>1, <1>3, <1>4, <1>5, <1>10, <2>1, <2>2, <2>3, <2>4, SectionParameters
       DEF SectionsQuiet, Beginning, Early, SectionAttr, GlobalListed, CS!Parameters
  <2> QED  BY <1>3, <2>4, <2>5 DEF SectionInv, SectionControl
<1>11. ASSUME pc[t] = 4, InitedSet, Ends(t)
      PROVE  SectionInv'
  <2>1. call'[t] = "none" /\ pc'[t] = 1
    BY <1>1, <1>11, ShiftsIs DEF Ends
  <2>2. Outside(t)' /\ t = Main
    BY <1>6, <2>1, OutsideIs
  <2>3. Aside
    BY <1>11 DEF Aside
  <2>4. /\ SectionTypes' /\ GlobalHeld' /\ SectionData' /\ inside' = inside
    BY <1>1, <1>2, <1>6, <2>2, <2>3, AsideKeeps
  <2>5. SectionsQuiet' /\ Beginning' /\ SectionAttr'
    BY <1>1, <1>3, <1>4, <1>5, <1>11, <2>1, <2>2, <2>3, <2>4, SectionParameters
       DEF SectionsQuiet, Beginning, Early, SectionAttr, InitedSet, CS!Parameters
  <2> QED  BY <1>3, <2>4, <2>5 DEF SectionInv, SectionControl
<1>12. \/ pc[t] = 1 /\ ~initedC /\ StepsTo(t, 2) /\ AllKept
       \/ pc[t] = 1 /\ initedC /\ Ends(t) /\ AllKept
       \/ pc[t] = 2 /\ GlobalMade /\ StepsTo(t, 3)
       \/ pc[t] = 3 /\ GlobalListed /\ StepsTo(t, 4)
       \/ pc[t] = 4 /\ InitedSet /\ Ends(t)
  BY <1>1, InitWin32Step
<1> QED  BY <1>7, <1>8, <1>9, <1>10, <1>11, <1>12, Zenon

LEMMA InitAttrKeeps ==
    ASSUME SectionInv, NEW t \in Threads, call[t] = "init", copy \in SectionsAttr, CS!CallStep(t)
    PROVE  SectionInv'
<1>1. /\ SectionCalls /\ SectionTypes /\ SectionArguments /\ SectionsQuiet /\ Beginning
      /\ SectionAttr /\ GlobalHeld /\ SectionData
  BY DEF SectionInv, SectionControl
<1>2. flaw = "none" /\ SGoes(t)
  BY <1>1, InitAttrStep
<1>3. SOthers(t) /\ SectionCalls' /\ SectionArguments'
  BY <1>1, <1>2, SGoesIs, SectionCallsKept, ArgumentsKept
<1>4. copy \in SectionsAttr /\ copy \notin SectionsWin32 /\ Prelude(copy) = 7
  BY DEF SectionsWin32, SectionsAttr, Prelude
<1>5. /\ Prelude(copy)' = Prelude(copy) /\ copy' = copy
      /\ \A u \in Threads \ {t} : (Early(u)' <=> Early(u)) /\ call'[u] = call[u] /\ pc'[u] = pc[u]
  BY <1>3, SOthersStay DEF SOthers
<1>6. t = Main /\ Outside(t)
  BY <1>1, OutsideIs DEF SectionArguments
<1>7. ASSUME pc[t] = 1, list = null, StepsTo(t, 2), AllKept
      PROVE  SectionInv'
  <2>1. call'[t] = call[t] /\ pc'[t] = 2
    BY <1>1, <1>7, ShiftsIs DEF StepsTo
  <2>2. Outside(t)' /\ t = Main
    BY <1>6, <2>1, OutsideIs
  <2>3. Aside
    BY <1>7 DEF Aside
  <2>4. /\ SectionTypes' /\ GlobalHeld' /\ SectionData' /\ inside' = inside
    BY <1>1, <1>2, <1>6, <2>2, <2>3, AsideKeeps
  <2>5. SectionsQuiet' /\ Beginning' /\ SectionAttr'
    BY <1>1, <1>3, <1>4, <1>5, <1>7, <2>1, <2>2, <2>3, <2>4, SectionParameters
       DEF SectionsQuiet, Beginning, Early, SectionAttr, AllKept, CS!Parameters
  <2> QED  BY <1>3, <2>4, <2>5 DEF SectionInv, SectionControl
<1>8. ASSUME pc[t] = 1, list # null, Ends(t), AllKept
      PROVE  SectionInv'
  <2>1. call'[t] = "none" /\ pc'[t] = 1
    BY <1>1, <1>8, ShiftsIs DEF Ends
  <2>2. Outside(t)' /\ t = Main
    BY <1>6, <2>1, OutsideIs
  <2>3. Aside
    BY <1>8 DEF Aside
  <2>4. /\ SectionTypes' /\ GlobalHeld' /\ SectionData' /\ inside' = inside
    BY <1>1, <1>2, <1>6, <2>2, <2>3, AsideKeeps
  <2>5. SectionsQuiet' /\ Beginning' /\ SectionAttr'
    BY <1>1, <1>3, <1>4, <1>5, <1>8, <2>1, <2>2, <2>3, <2>4, SectionParameters
       DEF SectionsQuiet, Beginning, Early, SectionAttr, AllKept, CS!Parameters
  <2> QED  BY <1>3, <2>4, <2>5 DEF SectionInv, SectionControl
<1>9. ASSUME pc[t] = 2, AttrMade, StepsTo(t, 3)
      PROVE  SectionInv'
  <2>1. call'[t] = call[t] /\ pc'[t] = 3
    BY <1>1, <1>9, ShiftsIs DEF StepsTo
  <2>2. Outside(t)' /\ t = Main
    BY <1>6, <2>1, OutsideIs
  <2>3. Aside /\ list = null
    BY <1>1, <1>4, <1>9, <1>6, <2>2 DEF Aside, Beginning
  <2>4. /\ SectionTypes' /\ GlobalHeld' /\ SectionData' /\ inside' = inside
    BY <1>1, <1>2, <1>6, <2>2, <2>3, AsideKeeps
  <2>5. SectionsQuiet' /\ Beginning' /\ SectionAttr'
    BY <1>1, <1>3, <1>4, <1>5, <1>9, <2>1, <2>2, <2>3, <2>4, SectionParameters
       DEF SectionsQuiet, Beginning, Early, SectionAttr, AttrMade, CS!Parameters
  <2> QED  BY <1>3, <2>4, <2>5 DEF SectionInv, SectionControl
<1>10. ASSUME pc[t] = 3, AttrTyped, StepsTo(t, 4)
      PROVE  SectionInv'
  <2>1. call'[t] = call[t] /\ pc'[t] = 4
    BY <1>1, <1>10, ShiftsIs DEF StepsTo
  <2>2. Outside(t)' /\ t = Main
    BY <1>6, <2>1, OutsideIs
  <2>3. Aside
    BY <1>10 DEF Aside
  <2>4. /\ SectionTypes' /\ GlobalHeld' /\ SectionData' /\ inside' = inside
    BY <1>1, <1>2, <1>6, <2>2, <2>3, AsideKeeps
  <2>5. SectionsQuiet' /\ Beginning' /\ SectionAttr'
    BY <1>1, <1>3, <1>4, <1>5, <1>10, <2>1, <2>2, <2>3, <2>4, SectionParameters
       DEF SectionsQuiet, Beginning, Early, SectionAttr, AttrTyped, CS!Parameters
  <2> QED  BY <1>3, <2>4, <2>5 DEF SectionInv, SectionControl
<1>11. ASSUME pc[t] = 4, GlobalMade, StepsTo(t, 5)
      PROVE  SectionInv'
  <2>1. call'[t] = call[t] /\ pc'[t] = 5
    BY <1>1, <1>11, ShiftsIs DEF StepsTo
  <2>2. Outside(t)' /\ t = Main
    BY <1>6, <2>1, OutsideIs
  <2>3. list = null
    BY <1>1, <1>4, <1>11, <1>6, <2>2 DEF Beginning
  <2>4. /\ SectionTypes' /\ GlobalHeld' /\ SectionData' /\ inside' = inside
    BY <1>1, <1>2, <1>11, <1>6, <2>2, <2>3, GlobalMadeKeeps
  <2>5. SectionsQuiet' /\ Beginning' /\ SectionAttr'
    BY <1>1, <1>3, <1>4, <1>5, <1>11, <2>1, <2>2, <2>3, <2>4, SectionParameters
       DEF SectionsQuiet, Beginning, Early, SectionAttr, GlobalMade, CS!Parameters
  <2> QED  BY <1>3, <2>4, <2>5 DEF SectionInv, SectionControl
<1>12. ASSUME pc[t] = 5, GlobalListed, Ends(t)
      PROVE  SectionInv'
  <2>1. call'[t] = "none" /\ pc'[t] = 1
    BY <1>1, <1>12, ShiftsIs DEF Ends
  <2>2. Outside(t)' /\ t = Main
    BY <1>6, <2>1, OutsideIs
  <2>3. Aside
    BY <1>12 DEF Aside
  <2>4. /\ SectionTypes' /\ GlobalHeld' /\ SectionData' /\ inside' = inside
    BY <1>1, <1>2, <1>6, <2>2, <2>3, AsideKeeps
  <2>5. SectionsQuiet' /\ Beginning' /\ SectionAttr'
    BY <1>1, <1>3, <1>4, <1>5, <1>12, <2>1, <2>2, <2>3, <2>4, SectionParameters
       DEF SectionsQuiet, Beginning, Early, SectionAttr, GlobalListed, CS!Parameters
  <2> QED  BY <1>3, <2>4, <2>5 DEF SectionInv, SectionControl
<1>13. \/ pc[t] = 1 /\ list = null /\ StepsTo(t, 2) /\ AllKept
       \/ pc[t] = 1 /\ list # null /\ Ends(t) /\ AllKept
       \/ pc[t] = 2 /\ AttrMade /\ StepsTo(t, 3)
       \/ pc[t] = 3 /\ AttrTyped /\ StepsTo(t, 4)
       \/ pc[t] = 4 /\ GlobalMade /\ StepsTo(t, 5)
       \/ pc[t] = 5 /\ GlobalListed /\ Ends(t)
  BY <1>1, InitAttrStep
<1> QED  BY <1>7, <1>8, <1>9, <1>10, <1>11, <1>12, <1>13, Zenon

LEMMA InitNoAttrKeeps ==
    ASSUME SectionInv, NEW t \in Threads, call[t] = "init",
           copy \notin SectionsWin32 \cup SectionsAttr, CS!CallStep(t)
    PROVE  SectionInv'
<1>1. /\ SectionCalls /\ SectionTypes /\ SectionArguments /\ SectionsQuiet /\ Beginning
      /\ SectionAttr /\ GlobalHeld /\ SectionData
  BY DEF SectionInv, SectionControl
<1>2. flaw = "none" /\ SGoes(t)
  BY <1>1, InitNoAttrStep
<1>3. SOthers(t) /\ SectionCalls' /\ SectionArguments'
  BY <1>1, <1>2, SGoesIs, SectionCallsKept, ArgumentsKept
<1>4. copy \notin SectionsAttr /\ copy \notin SectionsWin32 /\ Prelude(copy) = 5
  BY DEF SectionsWin32, SectionsAttr, Prelude
<1>5. /\ Prelude(copy)' = Prelude(copy) /\ copy' = copy
      /\ \A u \in Threads \ {t} : (Early(u)' <=> Early(u)) /\ call'[u] = call[u] /\ pc'[u] = pc[u]
  BY <1>3, SOthersStay DEF SOthers
<1>6. t = Main /\ Outside(t)
  BY <1>1, OutsideIs DEF SectionArguments
<1>7. ASSUME pc[t] = 1, list = null, StepsTo(t, 2), AllKept
      PROVE  SectionInv'
  <2>1. call'[t] = call[t] /\ pc'[t] = 2
    BY <1>1, <1>7, ShiftsIs DEF StepsTo
  <2>2. Outside(t)' /\ t = Main
    BY <1>6, <2>1, OutsideIs
  <2>3. Aside
    BY <1>7 DEF Aside
  <2>4. /\ SectionTypes' /\ GlobalHeld' /\ SectionData' /\ inside' = inside
    BY <1>1, <1>2, <1>6, <2>2, <2>3, AsideKeeps
  <2>5. SectionsQuiet' /\ Beginning' /\ SectionAttr'
    BY <1>1, <1>3, <1>4, <1>5, <1>7, <2>1, <2>2, <2>3, <2>4, SectionParameters
       DEF SectionsQuiet, Beginning, Early, SectionAttr, AllKept, CS!Parameters
  <2> QED  BY <1>3, <2>4, <2>5 DEF SectionInv, SectionControl
<1>8. ASSUME pc[t] = 1, list # null, Ends(t), AllKept
      PROVE  SectionInv'
  <2>1. call'[t] = "none" /\ pc'[t] = 1
    BY <1>1, <1>8, ShiftsIs DEF Ends
  <2>2. Outside(t)' /\ t = Main
    BY <1>6, <2>1, OutsideIs
  <2>3. Aside
    BY <1>8 DEF Aside
  <2>4. /\ SectionTypes' /\ GlobalHeld' /\ SectionData' /\ inside' = inside
    BY <1>1, <1>2, <1>6, <2>2, <2>3, AsideKeeps
  <2>5. SectionsQuiet' /\ Beginning' /\ SectionAttr'
    BY <1>1, <1>3, <1>4, <1>5, <1>8, <2>1, <2>2, <2>3, <2>4, SectionParameters
       DEF SectionsQuiet, Beginning, Early, SectionAttr, AllKept, CS!Parameters
  <2> QED  BY <1>3, <2>4, <2>5 DEF SectionInv, SectionControl
<1>9. ASSUME pc[t] = 2, GlobalMade, StepsTo(t, 3)
      PROVE  SectionInv'
  <2>1. call'[t] = call[t] /\ pc'[t] = 3
    BY <1>1, <1>9, ShiftsIs DEF StepsTo
  <2>2. Outside(t)' /\ t = Main
    BY <1>6, <2>1, OutsideIs
  <2>3. list = null
    BY <1>1, <1>4, <1>9, <1>6, <2>2 DEF Beginning
  <2>4. /\ SectionTypes' /\ GlobalHeld' /\ SectionData' /\ inside' = inside
    BY <1>1, <1>2, <1>9, <1>6, <2>2, <2>3, GlobalMadeKeeps
  <2>5. SectionsQuiet' /\ Beginning' /\ SectionAttr'
    BY <1>1, <1>3, <1>4, <1>5, <1>9, <2>1, <2>2, <2>3, <2>4, SectionParameters
       DEF SectionsQuiet, Beginning, Early, SectionAttr, GlobalMade, CS!Parameters
  <2> QED  BY <1>3, <2>4, <2>5 DEF SectionInv, SectionControl
<1>10. ASSUME pc[t] = 3, GlobalListed, Ends(t)
      PROVE  SectionInv'
  <2>1. call'[t] = "none" /\ pc'[t] = 1
    BY <1>1, <1>10, ShiftsIs DEF Ends
  <2>2. Outside(t)' /\ t = Main
    BY <1>6, <2>1, OutsideIs
  <2>3. Aside
    BY <1>10 DEF Aside
  <2>4. /\ SectionTypes' /\ GlobalHeld' /\ SectionData' /\ inside' = inside
    BY <1>1, <1>2, <1>6, <2>2, <2>3, AsideKeeps
  <2>5. SectionsQuiet' /\ Beginning' /\ SectionAttr'
    BY <1>1, <1>3, <1>4, <1>5, <1>10, <2>1, <2>2, <2>3, <2>4, SectionParameters
       DEF SectionsQuiet, Beginning, Early, SectionAttr, GlobalListed, CS!Parameters
  <2> QED  BY <1>3, <2>4, <2>5 DEF SectionInv, SectionControl
<1>11. \/ pc[t] = 1 /\ list = null /\ StepsTo(t, 2) /\ AllKept
       \/ pc[t] = 1 /\ list # null /\ Ends(t) /\ AllKept
       \/ pc[t] = 2 /\ GlobalMade /\ StepsTo(t, 3)
       \/ pc[t] = 3 /\ GlobalListed /\ Ends(t)
  BY <1>1, InitNoAttrStep
<1> QED  BY <1>7, <1>8, <1>9, <1>10, <1>11, Zenon

\* _STD_critical_term
LEMMA TermWin32Keeps ==
    ASSUME SectionInv, NEW t \in Threads, call[t] = "term", copy \in SectionsWin32, CS!CallStep(t)
    PROVE  SectionInv'
<1>1. /\ SectionCalls /\ SectionTypes /\ SectionArguments /\ SectionsQuiet /\ Beginning
      /\ SectionAttr /\ GlobalHeld /\ SectionData
  BY DEF SectionInv, SectionControl
<1>2. flaw = "none" /\ SGoes(t)
  BY <1>1, TermWin32Step
<1>3. SOthers(t) /\ SectionCalls' /\ SectionArguments'
  BY <1>1, <1>2, SGoesIs, SectionCallsKept, ArgumentsKept
<1>4. copy \in SectionsWin32 /\ copy \notin SectionsAttr /\ Prelude(copy) = 0
  BY DEF SectionsWin32, SectionsAttr, Prelude
<1>5. /\ Prelude(copy)' = Prelude(copy) /\ copy' = copy
      /\ \A u \in Threads \ {t} : (Early(u)' <=> Early(u)) /\ call'[u] = call[u] /\ pc'[u] = pc[u]
  BY <1>3, SOthersStay DEF SOthers
<1>6. t = Main /\ Outside(t)
  BY <1>1, OutsideIs DEF SectionArguments
<1>7. ASSUME pc[t] = 1, initedC, StepsTo(t, 2), AllKept
      PROVE  SectionInv'
  <2>1. call'[t] = call[t] /\ pc'[t] = 2
    BY <1>1, <1>7, ShiftsIs DEF StepsTo
  <2>2. Outside(t)' /\ t = Main
    BY <1>6, <2>1, OutsideIs
  <2>3. Aside
    BY <1>7 DEF Aside
  <2>4. /\ SectionTypes' /\ GlobalHeld' /\ SectionData' /\ inside' = inside
    BY <1>1, <1>2, <1>6, <2>2, <2>3, AsideKeeps
  <2>5. SectionsQuiet' /\ Beginning' /\ SectionAttr'
    BY <1>1, <1>3, <1>4, <1>5, <1>7, <2>1, <2>2, <2>3, <2>4, SectionParameters
       DEF SectionsQuiet, Beginning, Early, SectionAttr, AllKept, CS!Parameters
  <2> QED  BY <1>3, <2>4, <2>5 DEF SectionInv, SectionControl
<1>8. ASSUME pc[t] = 1, ~initedC, Ends(t), AllKept
      PROVE  SectionInv'
  <2>1. call'[t] = "none" /\ pc'[t] = 1
    BY <1>1, <1>8, ShiftsIs DEF Ends
  <2>2. Outside(t)' /\ t = Main
    BY <1>6, <2>1, OutsideIs
  <2>3. Aside
    BY <1>8 DEF Aside
  <2>4. /\ SectionTypes' /\ GlobalHeld' /\ SectionData' /\ inside' = inside
    BY <1>1, <1>2, <1>6, <2>2, <2>3, AsideKeeps
  <2>5. SectionsQuiet' /\ Beginning' /\ SectionAttr'
    BY <1>1, <1>3, <1>4, <1>5, <1>8, <2>1, <2>2, <2>3, <2>4, SectionParameters
       DEF SectionsQuiet, Beginning, Early, SectionAttr, AllKept, CS!Parameters
  <2> QED  BY <1>3, <2>4, <2>5 DEF SectionInv, SectionControl
<1>9. ASSUME pc[t] = 2, InitedCleared, StepsTo(t, 3)
      PROVE  SectionInv'
  <2>1. call'[t] = call[t] /\ pc'[t] = 3
    BY <1>1, <1>9, ShiftsIs DEF StepsTo
  <2>2. Outside(t)' /\ t = Main
    BY <1>6, <2>1, OutsideIs
  <2>3. Aside
    BY <1>9 DEF Aside
  <2>4. /\ SectionTypes' /\ GlobalHeld' /\ SectionData' /\ inside' = inside
    BY <1>1, <1>2, <1>6, <2>2, <2>3, AsideKeeps
  <2>5. SectionsQuiet' /\ Beginning' /\ SectionAttr'
    BY <1>1, <1>3, <1>4, <1>5, <1>9, <2>1, <2>2, <2>3, <2>4, SectionParameters
       DEF SectionsQuiet, Beginning, Early, SectionAttr, InitedCleared, CS!Parameters
  <2> QED  BY <1>3, <2>4, <2>5 DEF SectionInv, SectionControl
<1>10. ASSUME pc[t] = 3, list # null, StepsTo(t, 4), AllKept
      PROVE  SectionInv'
  <2>1. call'[t] = call[t] /\ pc'[t] = 4
    BY <1>1, <1>10, ShiftsIs DEF StepsTo
  <2>2. Outside(t)' /\ t = Main
    BY <1>6, <2>1, OutsideIs
  <2>3. Aside
    BY <1>10 DEF Aside
  <2>4. /\ SectionTypes' /\ GlobalHeld' /\ SectionData' /\ inside' = inside
    BY <1>1, <1>2, <1>6, <2>2, <2>3, AsideKeeps
  <2>5. SectionsQuiet' /\ Beginning' /\ SectionAttr'
    BY <1>1, <1>3, <1>4, <1>5, <1>10, <2>1, <2>2, <2>3, <2>4, SectionParameters
       DEF SectionsQuiet, Beginning, Early, SectionAttr, AllKept, CS!Parameters
  <2> QED  BY <1>3, <2>4, <2>5 DEF SectionInv, SectionControl
<1>11. ASSUME pc[t] = 3, list = null, Ends(t), AllKept
      PROVE  SectionInv'
  <2>1. call'[t] = "none" /\ pc'[t] = 1
    BY <1>1, <1>11, ShiftsIs DEF Ends
  <2>2. Outside(t)' /\ t = Main
    BY <1>6, <2>1, OutsideIs
  <2>3. Aside
    BY <1>11 DEF Aside
  <2>4. /\ SectionTypes' /\ GlobalHeld' /\ SectionData' /\ inside' = inside
    BY <1>1, <1>2, <1>6, <2>2, <2>3, AsideKeeps
  <2>5. SectionsQuiet' /\ Beginning' /\ SectionAttr'
    BY <1>1, <1>3, <1>4, <1>5, <1>11, <2>1, <2>2, <2>3, <2>4, SectionParameters
       DEF SectionsQuiet, Beginning, Early, SectionAttr, AllKept, CS!Parameters
  <2> QED  BY <1>3, <2>4, <2>5 DEF SectionInv, SectionControl
<1>12. ASSUME pc[t] = 4, HeadDeleted, StepsTo(t, 5)
      PROVE  SectionInv'
  <2>1. call'[t] = call[t] /\ pc'[t] = 5
    BY <1>1, <1>12, ShiftsIs DEF StepsTo
  <2>2. Outside(t)' /\ t = Main
    BY <1>6, <2>1, OutsideIs
  <2>3. list # null
    BY <1>1, <1>4, <1>12, <1>6, <2>2 DEF Beginning
  <2>4. /\ SectionTypes' /\ GlobalHeld' /\ SectionData' /\ inside' = inside
    BY <1>1, <1>2, <1>12, <2>1, <2>2, <2>3, HeadStepsKeep
  <2>5. SectionsQuiet' /\ Beginning' /\ SectionAttr'
    BY <1>1, <1>3, <1>4, <1>5, <1>12, <2>1, <2>2, <2>3, <2>4, SectionParameters
       DEF SectionsQuiet, Beginning, Early, SectionAttr, HeadDeleted, CS!Parameters
  <2> QED  BY <1>3, <2>4, <2>5 DEF SectionInv, SectionControl
<1>13. ASSUME pc[t] = 5, HeadPopped, StepsTo(t, 3)
      PROVE  SectionInv'
  <2>1. call'[t] = call[t] /\ pc'[t] = 3
    BY <1>1, <1>13, ShiftsIs DEF StepsTo
  <2>2. Outside(t)' /\ t = Main
    BY <1>6, <2>1, OutsideIs
  <2>3. list # null
    BY <1>1, <1>4, <1>13, <1>6, <2>2 DEF Beginning
  <2>4. /\ SectionTypes' /\ GlobalHeld' /\ SectionData' /\ inside' = inside
    BY <1>1, <1>2, <1>13, <2>1, <2>2, <2>3, HeadStepsKeep
  <2>5. SectionsQuiet' /\ Beginning' /\ SectionAttr'
    BY <1>1, <1>3, <1>4, <1>5, <1>13, <2>1, <2>2, <2>3, <2>4, SectionParameters
       DEF SectionsQuiet, Beginning, Early, SectionAttr, HeadPopped, CS!Parameters
  <2> QED  BY <1>3, <2>4, <2>5 DEF SectionInv, SectionControl
<1>14. \/ pc[t] = 1 /\ initedC /\ StepsTo(t, 2) /\ AllKept
       \/ pc[t] = 1 /\ ~initedC /\ Ends(t) /\ AllKept
       \/ pc[t] = 2 /\ InitedCleared /\ StepsTo(t, 3)
       \/ pc[t] = 3 /\ list # null /\ StepsTo(t, 4) /\ AllKept
       \/ pc[t] = 3 /\ list = null /\ Ends(t) /\ AllKept
       \/ pc[t] = 4 /\ HeadDeleted /\ StepsTo(t, 5)
       \/ pc[t] = 5 /\ HeadPopped /\ StepsTo(t, 3)
  BY <1>1, TermWin32Step
<1> QED  BY <1>7, <1>8, <1>9, <1>10, <1>11, <1>12, <1>13, <1>14, Zenon

LEMMA TermPosixKeeps ==
    ASSUME SectionInv, NEW t \in Threads, call[t] = "term", copy \notin SectionsWin32,
           CS!CallStep(t)
    PROVE  SectionInv'
<1>1. /\ SectionCalls /\ SectionTypes /\ SectionArguments /\ SectionsQuiet /\ Beginning
      /\ SectionAttr /\ GlobalHeld /\ SectionData
  BY DEF SectionInv, SectionControl
<1>2. flaw = "none" /\ SGoes(t)
  BY <1>1, TermPosixStep
<1>3. SOthers(t) /\ SectionCalls' /\ SectionArguments'
  BY <1>1, <1>2, SGoesIs, SectionCallsKept, ArgumentsKept
<1>4. copy \notin SectionsWin32
  BY DEF SectionsWin32, SectionsAttr, Prelude
<1>5. /\ Prelude(copy)' = Prelude(copy) /\ copy' = copy
      /\ \A u \in Threads \ {t} : (Early(u)' <=> Early(u)) /\ call'[u] = call[u] /\ pc'[u] = pc[u]
  BY <1>3, SOthersStay DEF SOthers
<1>6. t = Main /\ Outside(t)
  BY <1>1, OutsideIs DEF SectionArguments
<1>7. ASSUME pc[t] = 1, list # null, StepsTo(t, 2), AllKept
      PROVE  SectionInv'
  <2>1. call'[t] = call[t] /\ pc'[t] = 2
    BY <1>1, <1>7, ShiftsIs DEF StepsTo
  <2>2. Outside(t)' /\ t = Main
    BY <1>6, <2>1, OutsideIs
  <2>3. Aside
    BY <1>7 DEF Aside
  <2>4. /\ SectionTypes' /\ GlobalHeld' /\ SectionData' /\ inside' = inside
    BY <1>1, <1>2, <1>6, <2>2, <2>3, AsideKeeps
  <2>5. SectionsQuiet' /\ Beginning' /\ SectionAttr'
    BY <1>1, <1>3, <1>4, <1>5, <1>7, <2>1, <2>2, <2>3, <2>4, SectionParameters
       DEF SectionsQuiet, Beginning, Early, SectionAttr, AllKept, CS!Parameters
  <2> QED  BY <1>3, <2>4, <2>5 DEF SectionInv, SectionControl
<1>8. ASSUME pc[t] = 1, list = null, Ends(t), AllKept
      PROVE  SectionInv'
  <2>1. call'[t] = "none" /\ pc'[t] = 1
    BY <1>1, <1>8, ShiftsIs DEF Ends
  <2>2. Outside(t)' /\ t = Main
    BY <1>6, <2>1, OutsideIs
  <2>3. Aside
    BY <1>8 DEF Aside
  <2>4. /\ SectionTypes' /\ GlobalHeld' /\ SectionData' /\ inside' = inside
    BY <1>1, <1>2, <1>6, <2>2, <2>3, AsideKeeps
  <2>5. SectionsQuiet' /\ Beginning' /\ SectionAttr'
    BY <1>1, <1>3, <1>4, <1>5, <1>8, <2>1, <2>2, <2>3, <2>4, SectionParameters
       DEF SectionsQuiet, Beginning, Early, SectionAttr, AllKept, CS!Parameters
  <2> QED  BY <1>3, <2>4, <2>5 DEF SectionInv, SectionControl
<1>9. ASSUME pc[t] = 2, list # null, StepsTo(t, 3), AllKept
      PROVE  SectionInv'
  <2>1. call'[t] = call[t] /\ pc'[t] = 3
    BY <1>1, <1>9, ShiftsIs DEF StepsTo
  <2>2. Outside(t)' /\ t = Main
    BY <1>6, <2>1, OutsideIs
  <2>3. Aside
    BY <1>9 DEF Aside
  <2>4. /\ SectionTypes' /\ GlobalHeld' /\ SectionData' /\ inside' = inside
    BY <1>1, <1>2, <1>6, <2>2, <2>3, AsideKeeps
  <2>5. SectionsQuiet' /\ Beginning' /\ SectionAttr'
    BY <1>1, <1>3, <1>4, <1>5, <1>9, <2>1, <2>2, <2>3, <2>4, SectionParameters
       DEF SectionsQuiet, Beginning, Early, SectionAttr, AllKept, CS!Parameters
  <2> QED  BY <1>3, <2>4, <2>5 DEF SectionInv, SectionControl
<1>10. ASSUME pc[t] = 2, list = null, Ends(t), AllKept
      PROVE  SectionInv'
  <2>1. call'[t] = "none" /\ pc'[t] = 1
    BY <1>1, <1>10, ShiftsIs DEF Ends
  <2>2. Outside(t)' /\ t = Main
    BY <1>6, <2>1, OutsideIs
  <2>3. Aside
    BY <1>10 DEF Aside
  <2>4. /\ SectionTypes' /\ GlobalHeld' /\ SectionData' /\ inside' = inside
    BY <1>1, <1>2, <1>6, <2>2, <2>3, AsideKeeps
  <2>5. SectionsQuiet' /\ Beginning' /\ SectionAttr'
    BY <1>1, <1>3, <1>4, <1>5, <1>10, <2>1, <2>2, <2>3, <2>4, SectionParameters
       DEF SectionsQuiet, Beginning, Early, SectionAttr, AllKept, CS!Parameters
  <2> QED  BY <1>3, <2>4, <2>5 DEF SectionInv, SectionControl
<1>11. ASSUME pc[t] = 3, HeadDeleted, StepsTo(t, 4)
      PROVE  SectionInv'
  <2>1. call'[t] = call[t] /\ pc'[t] = 4
    BY <1>1, <1>11, ShiftsIs DEF StepsTo
  <2>2. Outside(t)' /\ t = Main
    BY <1>6, <2>1, OutsideIs
  <2>3. list # null
    BY <1>1, <1>4, <1>11, <1>6, <2>2 DEF Beginning
  <2>4. /\ SectionTypes' /\ GlobalHeld' /\ SectionData' /\ inside' = inside
    BY <1>1, <1>2, <1>11, <2>1, <2>2, <2>3, HeadStepsKeep
  <2>5. SectionsQuiet' /\ Beginning' /\ SectionAttr'
    BY <1>1, <1>3, <1>4, <1>5, <1>11, <2>1, <2>2, <2>3, <2>4, SectionParameters
       DEF SectionsQuiet, Beginning, Early, SectionAttr, HeadDeleted, CS!Parameters
  <2> QED  BY <1>3, <2>4, <2>5 DEF SectionInv, SectionControl
<1>12. ASSUME pc[t] = 4, HeadPopped, StepsTo(t, 2)
      PROVE  SectionInv'
  <2>1. call'[t] = call[t] /\ pc'[t] = 2
    BY <1>1, <1>12, ShiftsIs DEF StepsTo
  <2>2. Outside(t)' /\ t = Main
    BY <1>6, <2>1, OutsideIs
  <2>3. list # null
    BY <1>1, <1>4, <1>12, <1>6, <2>2 DEF Beginning
  <2>4. /\ SectionTypes' /\ GlobalHeld' /\ SectionData' /\ inside' = inside
    BY <1>1, <1>2, <1>12, <2>1, <2>2, <2>3, HeadStepsKeep
  <2>5. SectionsQuiet' /\ Beginning' /\ SectionAttr'
    BY <1>1, <1>3, <1>4, <1>5, <1>12, <2>1, <2>2, <2>3, <2>4, SectionParameters
       DEF SectionsQuiet, Beginning, Early, SectionAttr, HeadPopped, CS!Parameters
  <2> QED  BY <1>3, <2>4, <2>5 DEF SectionInv, SectionControl
<1>13. \/ pc[t] = 1 /\ list # null /\ StepsTo(t, 2) /\ AllKept
       \/ pc[t] = 1 /\ list = null /\ Ends(t) /\ AllKept
       \/ pc[t] = 2 /\ list # null /\ StepsTo(t, 3) /\ AllKept
       \/ pc[t] = 2 /\ list = null /\ Ends(t) /\ AllKept
       \/ pc[t] = 3 /\ HeadDeleted /\ StepsTo(t, 4)
       \/ pc[t] = 4 /\ HeadPopped /\ StepsTo(t, 2)
  BY <1>1, TermPosixStep
<1> QED  BY <1>7, <1>8, <1>9, <1>10, <1>11, <1>12, <1>13, Zenon

\* The start of _d_criticalenter
LEMMA EarlyAttrKeeps ==
    ASSUME SectionInv, NEW t \in Threads, call[t] = "enter", copy \in SectionsAttr, pc[t] <= 7,
           CS!CallStep(t)
    PROVE  SectionInv'
<1>1. /\ SectionCalls /\ SectionTypes /\ SectionArguments /\ SectionsQuiet /\ Beginning
      /\ SectionAttr /\ GlobalHeld /\ SectionData
  BY DEF SectionInv, SectionControl
<1>2. flaw = "none" /\ SGoes(t)
  BY <1>1, EarlyAttrStep
<1>3. SOthers(t) /\ SectionCalls' /\ SectionArguments'
  BY <1>1, <1>2, SGoesIs, SectionCallsKept, ArgumentsKept
<1>4. copy \in SectionsAttr /\ copy \notin SectionsWin32 /\ Prelude(copy) = 7
  BY DEF SectionsWin32, SectionsAttr, Prelude
<1>5. /\ Prelude(copy)' = Prelude(copy) /\ copy' = copy
      /\ \A u \in Threads \ {t} : (Early(u)' <=> Early(u)) /\ call'[u] = call[u] /\ pc'[u] = pc[u]
  BY <1>3, SOthersStay DEF SOthers
<1>6. Outside(t) /\ pc[t] \in Nat
  <2>1. pc[t] \in Nat /\ pc[t] <= Prelude(copy)
    BY <1>1, <1>4 DEF SectionCalls
  <2> QED  BY <2>1, OutsideEarly
<1>7. ASSUME pc[t] = 1, list = null, StepsTo(t, 2), AllKept
      PROVE  SectionInv'
  <2>1. call'[t] = call[t] /\ pc'[t] = 2
    BY <1>1, <1>7, ShiftsIs DEF StepsTo
  <2>2. Outside(t)' /\ t = Main /\ list = null
    <3>1. Outside(t)'
      BY <1>4, <1>5, <2>1, OutsideEarlyNext
    <3> QED  BY <1>1, <1>7, <3>1 DEF SectionsQuiet
  <2>3. Aside
    BY <1>7 DEF Aside
  <2>4. /\ SectionTypes' /\ GlobalHeld' /\ SectionData' /\ inside' = inside
    BY <1>1, <1>2, <1>6, <2>2, <2>3, AsideKeeps
  <2>5. SectionsQuiet' /\ Beginning' /\ SectionAttr'
    BY <1>1, <1>3, <1>4, <1>5, <1>7, <2>1, <2>2, <2>3, <2>4, SectionParameters
       DEF SectionsQuiet, Beginning, Early, SectionAttr, AllKept, CS!Parameters
  <2> QED  BY <1>3, <2>4, <2>5 DEF SectionInv, SectionControl
<1>8. ASSUME pc[t] = 1, list # null, StepsTo(t, 8), AllKept
      PROVE  SectionInv'
  <2>1. call'[t] = call[t] /\ pc'[t] = 8
    BY <1>1, <1>8, ShiftsIs DEF StepsTo
  <2>2. Outside(t)' /\ list # null /\ call[Main] # "term"
    <3>1. Outside(t)'
      BY <1>4, <1>5, <2>1, OutsideEarlyNext
    <3> QED  BY <1>1, <1>8, <3>1 DEF SectionsQuiet, Early
  <2>3. Aside
    BY <1>8 DEF Aside
  <2>4. /\ SectionTypes' /\ GlobalHeld' /\ SectionData' /\ inside' = inside
    BY <1>1, <1>2, <1>6, <2>2, <2>3, AsideKeeps
  <2>5. SectionsQuiet' /\ Beginning' /\ SectionAttr'
    BY <1>1, <1>3, <1>4, <1>5, <1>8, <2>1, <2>2, <2>3, <2>4, SectionParameters
       DEF SectionsQuiet, Beginning, Early, SectionAttr, AllKept, CS!Parameters
  <2> QED  BY <1>3, <2>4, <2>5 DEF SectionInv, SectionControl
<1>9. ASSUME pc[t] = 2, list = null, StepsTo(t, 3), AllKept
      PROVE  SectionInv'
  <2>1. call'[t] = call[t] /\ pc'[t] = 3
    BY <1>1, <1>9, ShiftsIs DEF StepsTo
  <2>2. Outside(t)' /\ t = Main /\ list = null
    <3>1. Outside(t)'
      BY <1>4, <1>5, <2>1, OutsideEarlyNext
    <3>2. Early(t)
      BY <1>4, <1>9 DEF Early
    <3> QED  BY <1>1, <1>9, <3>1, <3>2 DEF Beginning
  <2>3. Aside
    BY <1>9 DEF Aside
  <2>4. /\ SectionTypes' /\ GlobalHeld' /\ SectionData' /\ inside' = inside
    BY <1>1, <1>2, <1>6, <2>2, <2>3, AsideKeeps
  <2>5. SectionsQuiet' /\ Beginning' /\ SectionAttr'
    BY <1>1, <1>3, <1>4, <1>5, <1>9, <2>1, <2>2, <2>3, <2>4, SectionParameters
       DEF SectionsQuiet, Beginning, Early, SectionAttr, AllKept, CS!Parameters
  <2> QED  BY <1>3, <2>4, <2>5 DEF SectionInv, SectionControl
<1>10. ASSUME pc[t] = 2, list # null, StepsTo(t, 7), AllKept
      PROVE  SectionInv'
  <2>1. Early(t)
    BY <1>4, <1>10 DEF Early
  <2>2. FALSE
    BY <1>1, <1>10, <2>1 DEF Beginning
  <2> QED  BY <2>2
<1>11. ASSUME pc[t] = 3, AttrMade, StepsTo(t, 4)
      PROVE  SectionInv'
  <2>1. call'[t] = call[t] /\ pc'[t] = 4
    BY <1>1, <1>11, ShiftsIs DEF StepsTo
  <2>2. Outside(t)' /\ t = Main /\ list = null
    <3>1. Outside(t)'
      BY <1>4, <1>5, <2>1, OutsideEarlyNext
    <3>2. Early(t)
      BY <1>4, <1>11 DEF Early
    <3> QED  BY <1>1, <1>11, <3>1, <3>2 DEF Beginning
  <2>3. Aside /\ list = null
    BY <1>1, <1>4, <1>11, <1>6, <2>2 DEF Aside, Beginning
  <2>4. /\ SectionTypes' /\ GlobalHeld' /\ SectionData' /\ inside' = inside
    BY <1>1, <1>2, <1>6, <2>2, <2>3, AsideKeeps
  <2>5. SectionsQuiet' /\ Beginning' /\ SectionAttr'
    BY <1>1, <1>3, <1>4, <1>5, <1>11, <2>1, <2>2, <2>3, <2>4, SectionParameters
       DEF SectionsQuiet, Beginning, Early, SectionAttr, AttrMade, CS!Parameters
  <2> QED  BY <1>3, <2>4, <2>5 DEF SectionInv, SectionControl
<1>12. ASSUME pc[t] = 4, AttrTyped, StepsTo(t, 5)
      PROVE  SectionInv'
  <2>1. call'[t] = call[t] /\ pc'[t] = 5
    BY <1>1, <1>12, ShiftsIs DEF StepsTo
  <2>2. Outside(t)' /\ t = Main /\ list = null
    <3>1. Outside(t)'
      BY <1>4, <1>5, <2>1, OutsideEarlyNext
    <3>2. Early(t)
      BY <1>4, <1>12 DEF Early
    <3> QED  BY <1>1, <1>12, <3>1, <3>2 DEF Beginning
  <2>3. Aside
    BY <1>12 DEF Aside
  <2>4. /\ SectionTypes' /\ GlobalHeld' /\ SectionData' /\ inside' = inside
    BY <1>1, <1>2, <1>6, <2>2, <2>3, AsideKeeps
  <2>5. SectionsQuiet' /\ Beginning' /\ SectionAttr'
    BY <1>1, <1>3, <1>4, <1>5, <1>12, <2>1, <2>2, <2>3, <2>4, SectionParameters
       DEF SectionsQuiet, Beginning, Early, SectionAttr, AttrTyped, CS!Parameters
  <2> QED  BY <1>3, <2>4, <2>5 DEF SectionInv, SectionControl
<1>13. ASSUME pc[t] = 5, GlobalMade, StepsTo(t, 6)
      PROVE  SectionInv'
  <2>1. call'[t] = call[t] /\ pc'[t] = 6
    BY <1>1, <1>13, ShiftsIs DEF StepsTo
  <2>2. Outside(t)' /\ t = Main /\ list = null
    <3>1. Outside(t)'
      BY <1>4, <1>5, <2>1, OutsideEarlyNext
    <3>2. Early(t)
      BY <1>4, <1>13 DEF Early
    <3> QED  BY <1>1, <1>13, <3>1, <3>2 DEF Beginning
  <2>3. list = null
    BY <1>1, <1>4, <1>13, <1>6, <2>2 DEF Beginning
  <2>4. /\ SectionTypes' /\ GlobalHeld' /\ SectionData' /\ inside' = inside
    BY <1>1, <1>2, <1>13, <1>6, <2>2, <2>3, GlobalMadeKeeps
  <2>5. SectionsQuiet' /\ Beginning' /\ SectionAttr'
    BY <1>1, <1>3, <1>4, <1>5, <1>13, <2>1, <2>2, <2>3, <2>4, SectionParameters
       DEF SectionsQuiet, Beginning, Early, SectionAttr, GlobalMade, CS!Parameters
  <2> QED  BY <1>3, <2>4, <2>5 DEF SectionInv, SectionControl
<1>14. ASSUME pc[t] = 6, GlobalListed, StepsTo(t, 7)
      PROVE  SectionInv'
  <2>1. call'[t] = call[t] /\ pc'[t] = 7
    BY <1>1, <1>14, ShiftsIs DEF StepsTo
  <2>2. Outside(t)' /\ t = Main /\ list = null
    <3>1. Outside(t)'
      BY <1>4, <1>5, <2>1, OutsideEarlyNext
    <3>2. Early(t)
      BY <1>4, <1>14 DEF Early
    <3> QED  BY <1>1, <1>14, <3>1, <3>2 DEF Beginning
  <2>3. Aside
    BY <1>14 DEF Aside
  <2>4. /\ SectionTypes' /\ GlobalHeld' /\ SectionData' /\ inside' = inside
    BY <1>1, <1>2, <1>6, <2>2, <2>3, AsideKeeps
  <2>5. SectionsQuiet' /\ Beginning' /\ SectionAttr'
    BY <1>1, <1>3, <1>4, <1>5, <1>14, <2>1, <2>2, <2>3, <2>4, SectionParameters
       DEF SectionsQuiet, Beginning, Early, SectionAttr, GlobalListed, CS!Parameters
  <2> QED  BY <1>3, <2>4, <2>5 DEF SectionInv, SectionControl
<1>15. ASSUME pc[t] = 7, Registered, StepsTo(t, 8)
      PROVE  SectionInv'
  <2>1. call'[t] = call[t] /\ pc'[t] = 8
    BY <1>1, <1>15, ShiftsIs DEF StepsTo
  <2>2. Outside(t)' /\ list # null /\ call[Main] # "term"
    <3>1. Outside(t)'
      BY <1>4, <1>5, <2>1, OutsideEarlyNext
    <3>2. ~Early(t)
      BY <1>4, <1>15 DEF Early
    <3> QED  BY <1>1, <1>15, <3>1, <3>2 DEF SectionsQuiet
  <2>3. Aside
    BY <1>15 DEF Aside
  <2>4. /\ SectionTypes' /\ GlobalHeld' /\ SectionData' /\ inside' = inside
    BY <1>1, <1>2, <1>6, <2>2, <2>3, AsideKeeps
  <2>5. SectionsQuiet' /\ Beginning' /\ SectionAttr'
    BY <1>1, <1>3, <1>4, <1>5, <1>15, <2>1, <2>2, <2>3, <2>4, SectionParameters
       DEF SectionsQuiet, Beginning, Early, SectionAttr, Registered, CS!Parameters
  <2> QED  BY <1>3, <2>4, <2>5 DEF SectionInv, SectionControl
<1>16. \/ pc[t] = 1 /\ list = null /\ StepsTo(t, 2) /\ AllKept
       \/ pc[t] = 1 /\ list # null /\ StepsTo(t, 8) /\ AllKept
       \/ pc[t] = 2 /\ list = null /\ StepsTo(t, 3) /\ AllKept
       \/ pc[t] = 2 /\ list # null /\ StepsTo(t, 7) /\ AllKept
       \/ pc[t] = 3 /\ AttrMade /\ StepsTo(t, 4)
       \/ pc[t] = 4 /\ AttrTyped /\ StepsTo(t, 5)
       \/ pc[t] = 5 /\ GlobalMade /\ StepsTo(t, 6)
       \/ pc[t] = 6 /\ GlobalListed /\ StepsTo(t, 7)
       \/ pc[t] = 7 /\ Registered /\ StepsTo(t, 8)
  BY <1>1, EarlyAttrStep
<1> QED  BY <1>7, <1>8, <1>9, <1>10, <1>11, <1>12, <1>13, <1>14, <1>15, <1>16, Zenon

LEMMA EarlyNoAttrKeeps ==
    ASSUME SectionInv, NEW t \in Threads, call[t] = "enter",
           copy \notin SectionsWin32 \cup SectionsAttr, pc[t] <= 5, CS!CallStep(t)
    PROVE  SectionInv'
<1>1. /\ SectionCalls /\ SectionTypes /\ SectionArguments /\ SectionsQuiet /\ Beginning
      /\ SectionAttr /\ GlobalHeld /\ SectionData
  BY DEF SectionInv, SectionControl
<1>2. flaw = "none" /\ SGoes(t)
  BY <1>1, EarlyNoAttrStep
<1>3. SOthers(t) /\ SectionCalls' /\ SectionArguments'
  BY <1>1, <1>2, SGoesIs, SectionCallsKept, ArgumentsKept
<1>4. copy \notin SectionsAttr /\ copy \notin SectionsWin32 /\ Prelude(copy) = 5
  BY DEF SectionsWin32, SectionsAttr, Prelude
<1>5. /\ Prelude(copy)' = Prelude(copy) /\ copy' = copy
      /\ \A u \in Threads \ {t} : (Early(u)' <=> Early(u)) /\ call'[u] = call[u] /\ pc'[u] = pc[u]
  BY <1>3, SOthersStay DEF SOthers
<1>6. Outside(t) /\ pc[t] \in Nat
  <2>1. pc[t] \in Nat /\ pc[t] <= Prelude(copy)
    BY <1>1, <1>4 DEF SectionCalls
  <2> QED  BY <2>1, OutsideEarly
<1>7. ASSUME pc[t] = 1, list = null, StepsTo(t, 2), AllKept
      PROVE  SectionInv'
  <2>1. call'[t] = call[t] /\ pc'[t] = 2
    BY <1>1, <1>7, ShiftsIs DEF StepsTo
  <2>2. Outside(t)' /\ t = Main /\ list = null
    <3>1. Outside(t)'
      BY <1>4, <1>5, <2>1, OutsideEarlyNext
    <3> QED  BY <1>1, <1>7, <3>1 DEF SectionsQuiet
  <2>3. Aside
    BY <1>7 DEF Aside
  <2>4. /\ SectionTypes' /\ GlobalHeld' /\ SectionData' /\ inside' = inside
    BY <1>1, <1>2, <1>6, <2>2, <2>3, AsideKeeps
  <2>5. SectionsQuiet' /\ Beginning' /\ SectionAttr'
    BY <1>1, <1>3, <1>4, <1>5, <1>7, <2>1, <2>2, <2>3, <2>4, SectionParameters
       DEF SectionsQuiet, Beginning, Early, SectionAttr, AllKept, CS!Parameters
  <2> QED  BY <1>3, <2>4, <2>5 DEF SectionInv, SectionControl
<1>8. ASSUME pc[t] = 1, list # null, StepsTo(t, 6), AllKept
      PROVE  SectionInv'
  <2>1. call'[t] = call[t] /\ pc'[t] = 6
    BY <1>1, <1>8, ShiftsIs DEF StepsTo
  <2>2. Outside(t)' /\ list # null /\ call[Main] # "term"
    <3>1. Outside(t)'
      BY <1>4, <1>5, <2>1, OutsideEarlyNext
    <3> QED  BY <1>1, <1>8, <3>1 DEF SectionsQuiet, Early
  <2>3. Aside
    BY <1>8 DEF Aside
  <2>4. /\ SectionTypes' /\ GlobalHeld' /\ SectionData' /\ inside' = inside
    BY <1>1, <1>2, <1>6, <2>2, <2>3, AsideKeeps
  <2>5. SectionsQuiet' /\ Beginning' /\ SectionAttr'
    BY <1>1, <1>3, <1>4, <1>5, <1>8, <2>1, <2>2, <2>3, <2>4, SectionParameters
       DEF SectionsQuiet, Beginning, Early, SectionAttr, AllKept, CS!Parameters
  <2> QED  BY <1>3, <2>4, <2>5 DEF SectionInv, SectionControl
<1>9. ASSUME pc[t] = 2, list = null, StepsTo(t, 3), AllKept
      PROVE  SectionInv'
  <2>1. call'[t] = call[t] /\ pc'[t] = 3
    BY <1>1, <1>9, ShiftsIs DEF StepsTo
  <2>2. Outside(t)' /\ t = Main /\ list = null
    <3>1. Outside(t)'
      BY <1>4, <1>5, <2>1, OutsideEarlyNext
    <3>2. Early(t)
      BY <1>4, <1>9 DEF Early
    <3> QED  BY <1>1, <1>9, <3>1, <3>2 DEF Beginning
  <2>3. Aside
    BY <1>9 DEF Aside
  <2>4. /\ SectionTypes' /\ GlobalHeld' /\ SectionData' /\ inside' = inside
    BY <1>1, <1>2, <1>6, <2>2, <2>3, AsideKeeps
  <2>5. SectionsQuiet' /\ Beginning' /\ SectionAttr'
    BY <1>1, <1>3, <1>4, <1>5, <1>9, <2>1, <2>2, <2>3, <2>4, SectionParameters
       DEF SectionsQuiet, Beginning, Early, SectionAttr, AllKept, CS!Parameters
  <2> QED  BY <1>3, <2>4, <2>5 DEF SectionInv, SectionControl
<1>10. ASSUME pc[t] = 2, list # null, StepsTo(t, 5), AllKept
      PROVE  SectionInv'
  <2>1. Early(t)
    BY <1>4, <1>10 DEF Early
  <2>2. FALSE
    BY <1>1, <1>10, <2>1 DEF Beginning
  <2> QED  BY <2>2
<1>11. ASSUME pc[t] = 3, GlobalMade, StepsTo(t, 4)
      PROVE  SectionInv'
  <2>1. call'[t] = call[t] /\ pc'[t] = 4
    BY <1>1, <1>11, ShiftsIs DEF StepsTo
  <2>2. Outside(t)' /\ t = Main /\ list = null
    <3>1. Outside(t)'
      BY <1>4, <1>5, <2>1, OutsideEarlyNext
    <3>2. Early(t)
      BY <1>4, <1>11 DEF Early
    <3> QED  BY <1>1, <1>11, <3>1, <3>2 DEF Beginning
  <2>3. list = null
    BY <1>1, <1>4, <1>11, <1>6, <2>2 DEF Beginning
  <2>4. /\ SectionTypes' /\ GlobalHeld' /\ SectionData' /\ inside' = inside
    BY <1>1, <1>2, <1>11, <1>6, <2>2, <2>3, GlobalMadeKeeps
  <2>5. SectionsQuiet' /\ Beginning' /\ SectionAttr'
    BY <1>1, <1>3, <1>4, <1>5, <1>11, <2>1, <2>2, <2>3, <2>4, SectionParameters
       DEF SectionsQuiet, Beginning, Early, SectionAttr, GlobalMade, CS!Parameters
  <2> QED  BY <1>3, <2>4, <2>5 DEF SectionInv, SectionControl
<1>12. ASSUME pc[t] = 4, GlobalListed, StepsTo(t, 5)
      PROVE  SectionInv'
  <2>1. call'[t] = call[t] /\ pc'[t] = 5
    BY <1>1, <1>12, ShiftsIs DEF StepsTo
  <2>2. Outside(t)' /\ t = Main /\ list = null
    <3>1. Outside(t)'
      BY <1>4, <1>5, <2>1, OutsideEarlyNext
    <3>2. Early(t)
      BY <1>4, <1>12 DEF Early
    <3> QED  BY <1>1, <1>12, <3>1, <3>2 DEF Beginning
  <2>3. Aside
    BY <1>12 DEF Aside
  <2>4. /\ SectionTypes' /\ GlobalHeld' /\ SectionData' /\ inside' = inside
    BY <1>1, <1>2, <1>6, <2>2, <2>3, AsideKeeps
  <2>5. SectionsQuiet' /\ Beginning' /\ SectionAttr'
    BY <1>1, <1>3, <1>4, <1>5, <1>12, <2>1, <2>2, <2>3, <2>4, SectionParameters
       DEF SectionsQuiet, Beginning, Early, SectionAttr, GlobalListed, CS!Parameters
  <2> QED  BY <1>3, <2>4, <2>5 DEF SectionInv, SectionControl
<1>13. ASSUME pc[t] = 5, Registered, StepsTo(t, 6)
      PROVE  SectionInv'
  <2>1. call'[t] = call[t] /\ pc'[t] = 6
    BY <1>1, <1>13, ShiftsIs DEF StepsTo
  <2>2. Outside(t)' /\ list # null /\ call[Main] # "term"
    <3>1. Outside(t)'
      BY <1>4, <1>5, <2>1, OutsideEarlyNext
    <3>2. ~Early(t)
      BY <1>4, <1>13 DEF Early
    <3> QED  BY <1>1, <1>13, <3>1, <3>2 DEF SectionsQuiet
  <2>3. Aside
    BY <1>13 DEF Aside
  <2>4. /\ SectionTypes' /\ GlobalHeld' /\ SectionData' /\ inside' = inside
    BY <1>1, <1>2, <1>6, <2>2, <2>3, AsideKeeps
  <2>5. SectionsQuiet' /\ Beginning' /\ SectionAttr'
    BY <1>1, <1>3, <1>4, <1>5, <1>13, <2>1, <2>2, <2>3, <2>4, SectionParameters
       DEF SectionsQuiet, Beginning, Early, SectionAttr, Registered, CS!Parameters
  <2> QED  BY <1>3, <2>4, <2>5 DEF SectionInv, SectionControl
<1>14. \/ pc[t] = 1 /\ list = null /\ StepsTo(t, 2) /\ AllKept
       \/ pc[t] = 1 /\ list # null /\ StepsTo(t, 6) /\ AllKept
       \/ pc[t] = 2 /\ list = null /\ StepsTo(t, 3) /\ AllKept
       \/ pc[t] = 2 /\ list # null /\ StepsTo(t, 5) /\ AllKept
       \/ pc[t] = 3 /\ GlobalMade /\ StepsTo(t, 4)
       \/ pc[t] = 4 /\ GlobalListed /\ StepsTo(t, 5)
       \/ pc[t] = 5 /\ Registered /\ StepsTo(t, 6)
  BY <1>1, EarlyNoAttrStep
<1> QED  BY <1>7, <1>8, <1>9, <1>10, <1>11, <1>12, <1>13, <1>14, Zenon

\* A thread that comes to its section, or leaves it, finds the list made.
LEMMA BusyKeeps ==
    ASSUME SectionCalls, SectionTypes, SectionArguments, SectionsQuiet, Beginning, SectionAttr,
           SectionData, NEW t \in Threads, SGoes(t), call[t] \in {"enter", "exit"},
           ~Early(t), ~Early(t)', initedC' = initedC, attrC' = attrC, list' # null
    PROVE  /\ list # null
           /\ SectionsQuiet' /\ Beginning' /\ SectionAttr'
<1>1. /\ SOthers(t) /\ call'[t] \in {call[t], "none"}
      /\ copy' = copy /\ Main \in Threads
  BY SGoesIs, SectionParameters DEF SOthers, CS!Parameters
<1>2. list # null /\ call[Main] # "term"
  BY DEF SectionsQuiet
<1>3. call'[Main] # "term" /\ (call'[Main] = "init" => call[Main] = "init" /\ pc'[Main] = pc[Main])
  BY <1>1, <1>2 DEF SOthers
<1>4. call[Main] = "init" => call'[Main] = "init" /\ pc'[Main] = pc[Main]
  BY <1>1 DEF SOthers
<1>5. SectionsQuiet'
  BY <1>3 DEF SectionsQuiet
<1>6. Beginning'
  <2>1. ASSUME NEW u \in Threads, Early(u)', pc'[u] > 1
        PROVE  FALSE
    <3>1. u # t /\ Early(u) /\ pc[u] > 1
      BY <1>1, <2>1, SOthersStay DEF SOthers
    <3> QED  BY <1>2, <3>1 DEF Beginning
  <2> QED  BY <1>1, <1>2, <1>3, <1>4, <2>1 DEF Beginning
<1>7. SectionAttr'
  BY <1>1, <1>2 DEF SectionAttr
<1> QED  BY <1>2, <1>5, <1>6, <1>7

\* The rest of _d_criticalenter
LEMMA CommonKeeps ==
    ASSUME SectionInv, NEW t \in Threads, call[t] = "enter", CS!CallStep(t),
           ~(pc[t] <= Prelude(copy))
    PROVE  SectionInv'
<1> DEFINE k == Prelude(copy)
<1>1. /\ SectionCalls /\ SectionTypes /\ SectionArguments /\ SectionsQuiet /\ Beginning
      /\ SectionAttr /\ GlobalHeld /\ SectionData
  BY DEF SectionInv, SectionControl
<1>2. flaw = "none" /\ SGoes(t) /\ k \in {0, 5, 7}
  BY <1>1, CommonStep
<1>3. /\ SOthers(t) /\ SectionCalls' /\ SectionArguments' /\ StopsKnown
      /\ dmain' = dmain /\ stops' = stops
  BY <1>1, <1>2, SGoesIs, SectionCallsKept, ArgumentsKept
<1>4. Prelude(copy)' = k /\ pc[t] \in Nat /\ dcs[t] \in Sections /\ ~Early(t)
  BY <1>1, <1>2, <1>3, SOthersStay DEF SectionCalls, SectionArguments, Early
<1>5. global \notin Sections /\ null \notin Threads /\ global # null /\ null \notin Sections
  BY SectionParameters DEF CS!Parameters
<1>6. list # null
  BY <1>1, <1>4 DEF SectionsQuiet
<1>7. ASSUME pc[t] = k + 1, next[dcs[t]] = null, StepsTo(t, k + 2), AllKept
      PROVE  SectionInv'
  <2>1. Stands(t, 1)
    BY <1>2, <1>7, StandsAt
  <2>2. call'[t] = "enter" /\ pc'[t] = k + 2 /\ dcs'[t] = dcs[t]
    BY <1>1, <1>7, ShiftsIs DEF StepsTo
  <2>3. Stands(t, 2)'
    BY <1>2, <1>4, <2>2, StandsAtNext
  <2>4. ~Early(t)'
    BY <2>3 DEF Stands
  <2>5. SectionTypes'
    BY <1>1, <1>3, <1>7, SectionTypesKept
  <2>6. GlobalHeld'
    <3>1. holder'[global] = holder[global]
      BY <1>1, <1>4, <1>5, <1>7 DEF AllKept, SectionTypes
    <3>2. Inner(t)' <=> Inner(t)
      BY <2>1, <2>3 DEF Stands
    <3> QED  BY <1>1, <1>3, <3>1, <3>2, GlobalHeldStays
  <2>7. SectionData'
    <3>1. SectionsStay /\ list' = list
      BY <1>1, <1>5, <1>7 DEF SectionsStay, AllKept, SectionTypes
    <3>2. Placed(t) /\ ~Half(t) /\ ~Half(t)'
      BY <1>1, <1>7, <2>1, <2>2, <2>3, <3>1 DEF Placed, SectionsStay, Stands
    <3> QED  BY <1>1, <1>2, <1>3, <3>1, <3>2, DataStays
  <2>8. initedC' = initedC /\ attrC' = attrC /\ list' # null
    BY <1>4, <1>5, <1>6, <1>7 DEF AllKept
  <2>9. SectionsQuiet' /\ Beginning' /\ SectionAttr'
    BY <1>1, <1>2, <1>4, <2>4, <2>8, BusyKeeps
  <2> QED  BY <1>3, <2>5, <2>6, <2>7, <2>9 DEF SectionInv, SectionControl
<1>8. ASSUME pc[t] = k + 1, next[dcs[t]] # null, StepsTo(t, k + 8), AllKept
      PROVE  SectionInv'
  <2>1. Stands(t, 1)
    BY <1>2, <1>8, StandsAt
  <2>2. call'[t] = "enter" /\ pc'[t] = k + 8 /\ dcs'[t] = dcs[t]
    BY <1>1, <1>8, ShiftsIs DEF StepsTo
  <2>3. Stands(t, 8)'
    BY <1>2, <1>4, <2>2, StandsAtNext
  <2>4. ~Early(t)'
    BY <2>3 DEF Stands
  <2>5. SectionTypes'
    BY <1>1, <1>3, <1>8, SectionTypesKept
  <2>6. GlobalHeld'
    <3>1. holder'[global] = holder[global]
      BY <1>1, <1>4, <1>5, <1>8 DEF AllKept, SectionTypes
    <3>2. Inner(t)' <=> Inner(t)
      BY <2>1, <2>3 DEF Stands
    <3> QED  BY <1>1, <1>3, <3>1, <3>2, GlobalHeldStays
  <2>7. SectionData'
    <3>1. SectionsStay /\ list' = list
      BY <1>1, <1>5, <1>8 DEF SectionsStay, AllKept, SectionTypes
    <3>2. Placed(t) /\ ~Half(t) /\ ~Half(t)'
      BY <1>1, <1>8, <2>1, <2>2, <2>3, <3>1 DEF Placed, SectionsStay, Stands
    <3> QED  BY <1>1, <1>2, <1>3, <3>1, <3>2, DataStays
  <2>8. initedC' = initedC /\ attrC' = attrC /\ list' # null
    BY <1>4, <1>5, <1>6, <1>8 DEF AllKept
  <2>9. SectionsQuiet' /\ Beginning' /\ SectionAttr'
    BY <1>1, <1>2, <1>4, <2>4, <2>8, BusyKeeps
  <2> QED  BY <1>3, <2>5, <2>6, <2>7, <2>9 DEF SectionInv, SectionControl
<1>9. ASSUME pc[t] = k + 2, StepsTo(t, k + 3), GlobalTaken(t)
      PROVE  SectionInv'
  <2>1. Stands(t, 2)
    BY <1>2, <1>9, StandsAt
  <2>2. call'[t] = "enter" /\ pc'[t] = k + 3 /\ dcs'[t] = dcs[t]
    BY <1>1, <1>9, ShiftsIs DEF StepsTo
  <2>3. Stands(t, 3)'
    BY <1>2, <1>4, <2>2, StandsAtNext
  <2>4. ~Early(t)'
    BY <2>3 DEF Stands
  <2>5. SectionTypes'
    BY <1>1, <1>3, <1>9, SectionTypesKept
  <2>6. GlobalHeld'
    <3>1. \A u \in Threads : ~Inner(u)
      BY <1>1, <1>5, <1>9 DEF GlobalHeld, GlobalTaken
    <3>2. holder'[global] = t /\ Inner(t)'
      BY <1>1, <1>9, <2>3 DEF GlobalTaken, Stands, SectionTypes
    <3>3. \A u \in Threads : u # t => ~Inner(u)'
      BY <1>3, <3>1, SOthersStay
    <3> QED  BY <3>2, <3>3 DEF GlobalHeld
  <2>7. SectionData'
    <3>1. SectionsStay /\ list' = list
      BY <1>1, <1>5, <1>9 DEF SectionsStay, GlobalTaken, SectionTypes
    <3>2. Placed(t) /\ ~Half(t) /\ ~Half(t)'
      BY <1>1, <1>9, <2>1, <2>2, <2>3, <3>1 DEF Placed, SectionsStay, Stands
    <3> QED  BY <1>1, <1>2, <1>3, <3>1, <3>2, DataStays
  <2>8. initedC' = initedC /\ attrC' = attrC /\ list' # null
    BY <1>4, <1>5, <1>6, <1>9 DEF GlobalTaken
  <2>9. SectionsQuiet' /\ Beginning' /\ SectionAttr'
    BY <1>1, <1>2, <1>4, <2>4, <2>8, BusyKeeps
  <2> QED  BY <1>3, <2>5, <2>6, <2>7, <2>9 DEF SectionInv, SectionControl
<1>10. ASSUME pc[t] = k + 3, next[dcs[t]] = null, StepsTo(t, k + 4), AllKept
      PROVE  SectionInv'
  <2>1. Stands(t, 3)
    BY <1>2, <1>10, StandsAt
  <2>2. call'[t] = "enter" /\ pc'[t] = k + 4 /\ dcs'[t] = dcs[t]
    BY <1>1, <1>10, ShiftsIs DEF StepsTo
  <2>3. Stands(t, 4)'
    BY <1>2, <1>4, <2>2, StandsAtNext
  <2>4. ~Early(t)'
    BY <2>3 DEF Stands
  <2>5. SectionTypes'
    BY <1>1, <1>3, <1>10, SectionTypesKept
  <2>6. GlobalHeld'
    <3>1. holder'[global] = holder[global]
      BY <1>1, <1>4, <1>5, <1>10 DEF AllKept, SectionTypes
    <3>2. Inner(t)' <=> Inner(t)
      BY <2>1, <2>3 DEF Stands
    <3> QED  BY <1>1, <1>3, <3>1, <3>2, GlobalHeldStays
  <2>7. SectionData'
    <3>1. SectionsStay /\ list' = list
      BY <1>1, <1>5, <1>10 DEF SectionsStay, AllKept, SectionTypes
    <3>2. Placed(t) /\ ~Half(t) /\ ~Half(t)'
      BY <1>1, <1>10, <2>1, <2>2, <2>3, <3>1 DEF Placed, SectionsStay, Stands
    <3> QED  BY <1>1, <1>2, <1>3, <3>1, <3>2, DataStays
  <2>8. initedC' = initedC /\ attrC' = attrC /\ list' # null
    BY <1>4, <1>5, <1>6, <1>10 DEF AllKept
  <2>9. SectionsQuiet' /\ Beginning' /\ SectionAttr'
    BY <1>1, <1>2, <1>4, <2>4, <2>8, BusyKeeps
  <2> QED  BY <1>3, <2>5, <2>6, <2>7, <2>9 DEF SectionInv, SectionControl
<1>11. ASSUME pc[t] = k + 3, next[dcs[t]] # null, StepsTo(t, k + 7), AllKept
      PROVE  SectionInv'
  <2>1. Stands(t, 3)
    BY <1>2, <1>11, StandsAt
  <2>2. call'[t] = "enter" /\ pc'[t] = k + 7 /\ dcs'[t] = dcs[t]
    BY <1>1, <1>11, ShiftsIs DEF StepsTo
  <2>3. Stands(t, 7)'
    BY <1>2, <1>4, <2>2, StandsAtNext
  <2>4. ~Early(t)'
    BY <2>3 DEF Stands
  <2>5. SectionTypes'
    BY <1>1, <1>3, <1>11, SectionTypesKept
  <2>6. GlobalHeld'
    <3>1. holder'[global] = holder[global]
      BY <1>1, <1>4, <1>5, <1>11 DEF AllKept, SectionTypes
    <3>2. Inner(t)' <=> Inner(t)
      BY <2>1, <2>3 DEF Stands
    <3> QED  BY <1>1, <1>3, <3>1, <3>2, GlobalHeldStays
  <2>7. SectionData'
    <3>1. SectionsStay /\ list' = list
      BY <1>1, <1>5, <1>11 DEF SectionsStay, AllKept, SectionTypes
    <3>2. Placed(t) /\ ~Half(t) /\ ~Half(t)'
      BY <1>1, <1>11, <2>1, <2>2, <2>3, <3>1 DEF Placed, SectionsStay, Stands
    <3> QED  BY <1>1, <1>2, <1>3, <3>1, <3>2, DataStays
  <2>8. initedC' = initedC /\ attrC' = attrC /\ list' # null
    BY <1>4, <1>5, <1>6, <1>11 DEF AllKept
  <2>9. SectionsQuiet' /\ Beginning' /\ SectionAttr'
    BY <1>1, <1>2, <1>4, <2>4, <2>8, BusyKeeps
  <2> QED  BY <1>3, <2>5, <2>6, <2>7, <2>9 DEF SectionInv, SectionControl
<1>12. ASSUME pc[t] = k + 4, StepsTo(t, k + 5), NextSet(t)
      PROVE  SectionInv'
  <2>1. Stands(t, 4)
    BY <1>2, <1>12, StandsAt
  <2>2. call'[t] = "enter" /\ pc'[t] = k + 5 /\ dcs'[t] = dcs[t]
    BY <1>1, <1>12, ShiftsIs DEF StepsTo
  <2>3. Stands(t, 5)'
    BY <1>2, <1>4, <2>2, StandsAtNext
  <2>4. ~Early(t)'
    BY <2>3 DEF Stands
  <2>5. SectionTypes'
    BY <1>1, <1>3, <1>4, <1>12, SectionStepTypesKept
  <2>6. GlobalHeld'
    <3>1. holder'[global] = holder[global]
      BY <1>1, <1>4, <1>5, <1>12 DEF NextSet, SectionTypes
    <3>2. Inner(t)' <=> Inner(t)
      BY <2>1, <2>3 DEF Stands
    <3> QED  BY <1>1, <1>3, <3>1, <3>2, GlobalHeldStays
  <2>7. SectionData'
    BY <1>1, <1>2, <1>3, <1>4, <1>6, <1>12, <2>1, <2>2, <2>3, NextSetKeeps
  <2>8. initedC' = initedC /\ attrC' = attrC /\ list' # null
    BY <1>4, <1>5, <1>6, <1>12 DEF NextSet
  <2>9. SectionsQuiet' /\ Beginning' /\ SectionAttr'
    BY <1>1, <1>2, <1>4, <2>4, <2>8, BusyKeeps
  <2> QED  BY <1>3, <2>5, <2>6, <2>7, <2>9 DEF SectionInv, SectionControl
<1>13. ASSUME pc[t] = k + 5, StepsTo(t, k + 6), SectionListed(t)
      PROVE  SectionInv'
  <2>1. Stands(t, 5)
    BY <1>2, <1>13, StandsAt
  <2>2. call'[t] = "enter" /\ pc'[t] = k + 6 /\ dcs'[t] = dcs[t]
    BY <1>1, <1>13, ShiftsIs DEF StepsTo
  <2>3. Stands(t, 6)'
    BY <1>2, <1>4, <2>2, StandsAtNext
  <2>4. ~Early(t)'
    BY <2>3 DEF Stands
  <2>5. SectionTypes'
    BY <1>1, <1>3, <1>4, <1>13, SectionStepTypesKept
  <2>6. GlobalHeld'
    <3>1. holder'[global] = holder[global]
      BY <1>1, <1>4, <1>5, <1>13 DEF SectionListed, SectionTypes
    <3>2. Inner(t)' <=> Inner(t)
      BY <2>1, <2>3 DEF Stands
    <3> QED  BY <1>1, <1>3, <3>1, <3>2, GlobalHeldStays
  <2>7. SectionData'
    BY <1>1, <1>2, <1>3, <1>4, <1>6, <1>13, <2>1, <2>2, <2>3, SectionListedKeeps
  <2>8. initedC' = initedC /\ attrC' = attrC /\ list' # null
    BY <1>4, <1>5, <1>6, <1>13 DEF SectionListed
  <2>9. SectionsQuiet' /\ Beginning' /\ SectionAttr'
    BY <1>1, <1>2, <1>4, <2>4, <2>8, BusyKeeps
  <2> QED  BY <1>3, <2>5, <2>6, <2>7, <2>9 DEF SectionInv, SectionControl
<1>14. ASSUME pc[t] = k + 6, StepsTo(t, k + 7), SectionMade(t)
      PROVE  SectionInv'
  <2>1. Stands(t, 6)
    BY <1>2, <1>14, StandsAt
  <2>2. call'[t] = "enter" /\ pc'[t] = k + 7 /\ dcs'[t] = dcs[t]
    BY <1>1, <1>14, ShiftsIs DEF StepsTo
  <2>3. Stands(t, 7)'
    BY <1>2, <1>4, <2>2, StandsAtNext
  <2>4. ~Early(t)'
    BY <2>3 DEF Stands
  <2>5. SectionTypes'
    BY <1>1, <1>3, <1>4, <1>14, SectionStepTypesKept
  <2>6. GlobalHeld'
    <3>1. holder'[global] = holder[global]
      BY <1>1, <1>4, <1>5, <1>14 DEF SectionMade, CS!Initialise, SectionTypes
    <3>2. Inner(t)' <=> Inner(t)
      BY <2>1, <2>3 DEF Stands
    <3> QED  BY <1>1, <1>3, <3>1, <3>2, GlobalHeldStays
  <2>7. SectionData'
    BY <1>1, <1>2, <1>3, <1>4, <1>6, <1>14, <2>1, <2>2, <2>3, SectionMadeKeeps
  <2>8. initedC' = initedC /\ attrC' = attrC /\ list' # null
    BY <1>4, <1>5, <1>6, <1>14 DEF SectionMade
  <2>9. SectionsQuiet' /\ Beginning' /\ SectionAttr'
    BY <1>1, <1>2, <1>4, <2>4, <2>8, BusyKeeps
  <2> QED  BY <1>3, <2>5, <2>6, <2>7, <2>9 DEF SectionInv, SectionControl
<1>15. ASSUME pc[t] = k + 7, StepsTo(t, k + 8), GlobalLeft
      PROVE  SectionInv'
  <2>1. Stands(t, 7)
    BY <1>2, <1>15, StandsAt
  <2>2. call'[t] = "enter" /\ pc'[t] = k + 8 /\ dcs'[t] = dcs[t]
    BY <1>1, <1>15, ShiftsIs DEF StepsTo
  <2>3. Stands(t, 8)'
    BY <1>2, <1>4, <2>2, StandsAtNext
  <2>4. ~Early(t)'
    BY <2>3 DEF Stands
  <2>5. SectionTypes'
    BY <1>1, <1>3, <1>15, SectionTypesKept
  <2>6. GlobalHeld'
    <3>1. \A u \in Threads : u # t => ~Inner(u)
      BY <1>1, <2>1, InnerAlone DEF Stands
    <3>2. holder'[global] = null /\ ~Inner(t)'
      BY <1>1, <1>15, <2>3 DEF GlobalLeft, Stands, SectionTypes
    <3>3. \A u \in Threads : u # t => ~Inner(u)'
      BY <1>3, <3>1, SOthersStay
    <3> QED  BY <1>5, <3>2, <3>3 DEF GlobalHeld
  <2>7. SectionData'
    <3>1. SectionsStay /\ list' = list
      BY <1>1, <1>5, <1>15 DEF SectionsStay, GlobalLeft, SectionTypes
    <3>2. Placed(t) /\ ~Half(t) /\ ~Half(t)'
      BY <1>1, <1>15, <2>1, <2>2, <2>3, <3>1
         DEF Placed, SectionsStay, Stands, NextKnown, SectionData
    <3> QED  BY <1>1, <1>2, <1>3, <3>1, <3>2, DataStays
  <2>8. initedC' = initedC /\ attrC' = attrC /\ list' # null
    BY <1>4, <1>5, <1>6, <1>15 DEF GlobalLeft
  <2>9. SectionsQuiet' /\ Beginning' /\ SectionAttr'
    BY <1>1, <1>2, <1>4, <2>4, <2>8, BusyKeeps
  <2> QED  BY <1>3, <2>5, <2>6, <2>7, <2>9 DEF SectionInv, SectionControl
<1>16. ASSUME pc[t] = k + 8, Ends(t), SectionLocked(t)
      PROVE  SectionInv'
  <2>1. Stands(t, 8)
    BY <1>2, <1>16, StandsAt
  <2>2. call'[t] = "none" /\ pc'[t] = 1
    BY <1>1, <1>16, ShiftsIs DEF Ends
  <2>3. Outside(t)'
    BY <2>2, OutsideIs
  <2>4. ~Early(t)'
    BY <2>2, OutsideIs
  <2>5. SectionTypes'
    BY <1>1, <1>3, <1>4, <1>16, SectionStepTypesKept
  <2>6. GlobalHeld'
    <3>1. holder'[global] = holder[global]
      BY <1>1, <1>4, <1>5, <1>16 DEF SectionLocked, SectionTypes
    <3>2. Inner(t)' <=> Inner(t)
      BY <2>1, <2>3 DEF Stands, Outside
    <3> QED  BY <1>1, <1>3, <3>1, <3>2, GlobalHeldStays
  <2>7. SectionData'
    BY <1>1, <1>2, <1>3, <1>4, <1>16, <2>1, <2>3, SectionLockedKeeps
  <2>8. initedC' = initedC /\ attrC' = attrC /\ list' # null
    BY <1>4, <1>5, <1>6, <1>16 DEF SectionLocked
  <2>9. SectionsQuiet' /\ Beginning' /\ SectionAttr'
    BY <1>1, <1>2, <1>4, <2>4, <2>8, BusyKeeps
  <2> QED  BY <1>3, <2>5, <2>6, <2>7, <2>9 DEF SectionInv, SectionControl
<1>17. ASSUME pc[t] = k + 8, Ends(t), NoMutexLocked(t)
      PROVE  SectionInv'
  <2>1. Stands(t, 8)
    BY <1>2, <1>17, StandsAt
  <2>2. call'[t] = "none" /\ pc'[t] = 1
    BY <1>1, <1>17, ShiftsIs DEF Ends
  <2>3. Outside(t)'
    BY <2>2, OutsideIs
  <2>4. ~Early(t)'
    BY <2>2, OutsideIs
  <2>5. SectionTypes'
    BY <1>1, <1>3, <1>4, <1>17, SectionStepTypesKept
  <2>6. GlobalHeld'
    <3>1. holder'[global] = holder[global]
      BY <1>1, <1>4, <1>5, <1>17 DEF NoMutexLocked, SectionTypes
    <3>2. Inner(t)' <=> Inner(t)
      BY <2>1, <2>3 DEF Stands, Outside
    <3> QED  BY <1>1, <1>3, <3>1, <3>2, GlobalHeldStays
  <2>7. SectionData'
    BY <1>1, <1>2, <1>3, <1>4, <1>17, <2>1, <2>3, NoMutexLockedKeeps
  <2>8. initedC' = initedC /\ attrC' = attrC /\ list' # null
    BY <1>4, <1>5, <1>6, <1>17 DEF NoMutexLocked
  <2>9. SectionsQuiet' /\ Beginning' /\ SectionAttr'
    BY <1>1, <1>2, <1>4, <2>4, <2>8, BusyKeeps
  <2> QED  BY <1>3, <2>5, <2>6, <2>7, <2>9 DEF SectionInv, SectionControl
<1>18. \/ pc[t] = k + 1 /\ next[dcs[t]] = null /\ StepsTo(t, k + 2) /\ AllKept
       \/ pc[t] = k + 1 /\ next[dcs[t]] # null /\ StepsTo(t, k + 8) /\ AllKept
       \/ pc[t] = k + 2 /\ StepsTo(t, k + 3) /\ GlobalTaken(t)
       \/ pc[t] = k + 3 /\ next[dcs[t]] = null /\ StepsTo(t, k + 4) /\ AllKept
       \/ pc[t] = k + 3 /\ next[dcs[t]] # null /\ StepsTo(t, k + 7) /\ AllKept
       \/ pc[t] = k + 4 /\ StepsTo(t, k + 5) /\ NextSet(t)
       \/ pc[t] = k + 5 /\ StepsTo(t, k + 6) /\ SectionListed(t)
       \/ pc[t] = k + 6 /\ StepsTo(t, k + 7) /\ SectionMade(t)
       \/ pc[t] = k + 7 /\ StepsTo(t, k + 8) /\ GlobalLeft
       \/ pc[t] = k + 8 /\ Ends(t) /\ SectionLocked(t)
       \/ pc[t] = k + 8 /\ Ends(t) /\ NoMutexLocked(t)
  BY <1>1, CommonStep
<1> HIDE DEF k
<1> QED  BY <1>7, <1>8, <1>9, <1>10, <1>11, <1>12, <1>13, <1>14, <1>15, <1>16, <1>17, <1>18

\* _d_criticalexit
LEMMA ExitKeeps ==
    ASSUME SectionInv, NEW t \in Threads, call[t] = "exit", CS!CallStep(t)
    PROVE  SectionInv'
<1>1. /\ SectionCalls /\ SectionTypes /\ SectionArguments /\ SectionsQuiet /\ Beginning
      /\ SectionAttr /\ GlobalHeld /\ SectionData
  BY DEF SectionInv, SectionControl
<1>2. flaw = "none" /\ SGoes(t) /\ SectionUnlocked(t) /\ Ends(t)
  BY <1>1, ExitStep
<1>3. /\ SOthers(t) /\ SectionCalls' /\ SectionArguments' /\ StopsKnown
      /\ dmain' = dmain /\ stops' = stops
  BY <1>1, <1>2, SGoesIs, SectionCallsKept, ArgumentsKept
<1>4. call'[t] = "none" /\ dcs[t] \in Sections
  BY <1>1, <1>2, ShiftsIs DEF Ends, SectionArguments
<1>5. /\ Outside(t)' /\ ~Early(t)' /\ Exiting(t) /\ ~Inner(t) /\ ~Half(t) /\ ~Early(t)
  BY <1>4, OutsideIs
<1>6. global \notin Sections /\ null \notin Threads
  BY SectionParameters DEF CS!Parameters
<1>7. SectionTypes'
  <2>1. inside[t][dcs[t]] > 0
    BY <1>1, <1>5 DEF SectionData, InsideKept
  <2>2. count[dcs[t]] > 0
    BY <1>1, <1>4, <2>1 DEF SectionData, InsideKept
  <2> QED  BY <1>1, <1>2, <1>3, <1>4, <2>1, <2>2, SectionStepTypesKept
<1>8. GlobalHeld'
  <2>1. holder'[global] = holder[global] /\ (Inner(t)' <=> Inner(t))
    BY <1>1, <1>2, <1>4, <1>5, <1>6 DEF SectionUnlocked, SectionTypes, Outside
  <2> QED  BY <1>1, <1>3, <2>1, GlobalHeldStays
<1>9. SectionData'
  BY <1>1, <1>2, <1>3, <1>4, <1>5, SectionUnlockedKeeps
<1>10. SectionsQuiet' /\ Beginning' /\ SectionAttr'
  <2>1. list # null
    BY <1>1, <1>5 DEF SectionsQuiet
  <2>2. initedC' = initedC /\ attrC' = attrC /\ list' # null
    BY <1>2, <2>1 DEF SectionUnlocked
  <2> QED  BY <1>1, <1>2, <1>5, <2>2, BusyKeeps
<1> QED  BY <1>3, <1>7, <1>8, <1>9, <1>10 DEF SectionInv, SectionControl

LEMMA SectionStepKeeps ==
    ASSUME SectionInv, NEW t \in Threads, CS!CallStep(t)
    PROVE  SectionInv'
<1>1. SectionCalls
  BY DEF SectionInv
<1>2. pc[t] \in Nat
  BY <1>1 DEF SectionCalls
<1>3. call[t] # "none"
  BY <1>2, SectionStepIs
<1>4. call[t] \in {"init", "term", "enter", "exit"}
  BY <1>1, <1>3 DEF SectionCalls
<1>5. CASE call[t] = "init"
  BY <1>5, InitWin32Keeps, InitAttrKeeps, InitNoAttrKeeps
<1>6. CASE call[t] = "term"
  BY <1>6, TermWin32Keeps, TermPosixKeeps
<1>7. CASE call[t] = "enter"
  <2>1. CASE ~(pc[t] <= Prelude(copy))
    BY <1>7, <2>1, CommonKeeps
  <2>2. CASE pc[t] <= Prelude(copy)
    <3>1. SInCode(t) /\ pc[t] >= 1
      BY <1>1, <1>2, <1>3 DEF SectionCalls, SInCode
    <3>2. copy \notin SectionsWin32
      BY <2>2, <1>2, <3>1 DEF Prelude
    <3>3. CASE copy \in SectionsAttr
      <4>1. pc[t] <= 7
        BY <2>2, <3>2, <3>3 DEF Prelude
      <4> QED  BY <1>7, <3>3, <4>1, EarlyAttrKeeps
    <3>4. CASE copy \notin SectionsAttr
      <4>1. pc[t] <= 5
        BY <2>2, <3>2, <3>4 DEF Prelude
      <4> QED  BY <1>7, <3>2, <3>4, <4>1, EarlyNoAttrKeeps
    <3> QED  BY <3>3, <3>4
  <2> QED  BY <2>1, <2>2
<1>8. CASE call[t] = "exit"
  BY <1>8, ExitKeeps
<1> QED  BY <1>4, <1>5, <1>6, <1>7, <1>8

-----------------------------------------------------------------------------
(* Calls of critical.c                                                     *)

\* No function is empty.
LEMMA SectionLengths ==
    ASSUME copy \in DOMAIN CS!CriticalCode, NEW f \in {"init", "term", "enter", "exit"}
    PROVE  1 \in 1 .. Len(CS!CriticalCode[copy][f])
<1> DEFINE c == CS!CriticalCode[copy]
<1>1. /\ copy \in SectionsWin32 \cup SectionsAttr \cup {"GdcAlreadyRecursive"}
      /\ SectionForm(c, SectionInit(copy), SectionTerm(copy), SectionEnter(copy))
  BY SectionCopiesAre
<1>2. /\ c["init"] = SectionInit(copy) /\ c["term"] = SectionTerm(copy)
      /\ c["enter"] = SectionEnter(copy) /\ Len(c["exit"]) = 1
  BY <1>1 DEF SectionForm
<1>3. 1 \in 1 .. Len(SectionInit(copy)) /\ 1 \in 1 .. Len(SectionTerm(copy))
  <2>1. /\ 1 \in 1 .. Len(CS!Init32) /\ 1 \in 1 .. Len(CS!InitAttr) /\ 1 \in 1 .. Len(CS!InitNoAttr)
        /\ 1 \in 1 .. Len(CS!Term32) /\ 1 \in 1 .. Len(CS!TermPosix)
    <3>1. /\ Len(CS!Init32) = 4 /\ Len(CS!InitAttr) = 5 /\ Len(CS!InitNoAttr) = 3
          /\ Len(CS!Term32) = 5 /\ Len(CS!TermPosix) = 4
      BY SectionInitSteps, SectionTermSteps, Zenon
    <3> QED  BY <3>1
  <2> QED  BY <2>1, Zenon DEF SectionInit, SectionTerm
<1>4. 1 \in 1 .. Len(SectionEnter(copy))
  <2>1. CASE copy \in SectionsWin32
    <3>1. SectionEnter(copy) = CS!Enter(SectionStart(copy))
      BY <2>1, Zenon DEF SectionEnter
    <3> QED  BY <3>1, PlainSteps
  <2>2. CASE copy \notin SectionsWin32 /\ copy \in SectionsAttr
    <3>1. SectionEnter(copy) = CS!LazyEnter(CS!InitAttr, SectionStart(copy))
      BY <2>2, Zenon DEF SectionEnter, SectionInit
    <3>2. Len(SectionEnter(copy)) = 15
      BY <3>1, LazyAttrSteps, Zenon
    <3> QED  BY <3>2
  <2>3. CASE copy \notin SectionsWin32 /\ copy \notin SectionsAttr
    <3>1. SectionEnter(copy) = CS!LazyEnter(CS!InitNoAttr, SectionStart(copy))
      BY <2>3, Zenon DEF SectionEnter, SectionInit
    <3>2. Len(SectionEnter(copy)) = 13
      BY <3>1, LazyNoAttrSteps, Zenon
    <3> QED  BY <3>2
  <2> QED  BY <2>1, <2>2, <2>3
<1>5. 1 \in 1 .. 1
  OBVIOUS
<1>6. 1 \in 1 .. Len(c["exit"])
  BY <1>2, <1>5, Zenon
<1> QED  BY <1>2, <1>3, <1>4, <1>6, Zenon

\* Where _d_criticalenter looks for the list first, it is not Win32.
LEMMA LazyIsPosix ==
    ASSUME copy \in DOMAIN CS!CriticalCode, CS!Lazy
    PROVE  copy \notin SectionsWin32
<1> SUFFICES ASSUME copy \in SectionsWin32 PROVE FALSE
  OBVIOUS
<1> DEFINE c == CS!CriticalCode[copy]
<1>1. c.enter = CS!Enter(SectionStart(copy))
  BY SectionCopiesAre DEF SectionForm, SectionEnter
<1>2. Entry(c.enter, 0 + 1, "no next", 6)
  BY <1>1, PlainSteps DEF Common
<1>3. 0 + 1 = 1
  OBVIOUS
<1>4. c.enter[1] = [do |-> "no next", skip |-> 6]
  BY <1>2, <1>3, Zenon DEF Entry
<1>5. CS!CriticalCode[copy].enter[1].do = "no next"
  <2>1. [do |-> "no next", skip |-> 6].do = "no next"
    OBVIOUS
  <2> QED  BY <1>4, <2>1, Zenon
<1>6. CS!CriticalCode[copy].enter[1].do = "no list"
  BY Zenon DEF CS!Lazy
<1>7. "no next" # "no list"
  OBVIOUS
<1> QED  BY <1>5, <1>6, <1>7, Zenon

LEMMA SCallKeeps ==
    ASSUME SectionInv, NEW t \in Threads, NEW f, NEW s, CS!Calls(t, f, s), SMayCall(t, f, s),
           dmain' \in BOOLEAN, stops' \in 0 .. MaxStops, stops' >= stops
    PROVE  SectionInv'
<1>1. /\ SectionCalls /\ SectionTypes /\ SectionArguments /\ SectionsQuiet /\ Beginning
      /\ SectionAttr /\ GlobalHeld /\ SectionData
  BY DEF SectionInv, SectionControl
<1>2. /\ flaw = "none" /\ call[t] = "none" /\ copy' = copy /\ pc' = pc /\ AllKept
      /\ call' = [call EXCEPT ![t] = f]
      /\ dcs' = [dcs EXCEPT ![t] = s]
  BY DEF CS!Calls, CS!Idle, CS!statics, CS!held, AllKept
<1>3. /\ Main \in Threads /\ global \notin Sections /\ null \notin Threads /\ null \notin Sections
      /\ MaxStops \in Nat
  BY SectionParameters DEF CS!Parameters
<1>4. /\ f \in {"init", "term", "enter", "exit"} /\ s \in Sections \cup {null} /\ pc[t] = 1
      /\ pc' = [pc EXCEPT ![t] = 1]
  BY <1>1, <1>2 DEF SMayCall, SectionArguments, SectionCalls
<1>5. SectionCalls'
  <2>1. 1 \in 1 .. Len(CS!CriticalCode[copy][f]) /\ 1 \in Nat
    BY <1>1, <1>4, SectionLengths DEF SectionCalls
  <2> QED  BY <1>1, <1>2, <1>4, <2>1, ShiftsKeepCalls, Zenon
<1>6. SectionTypes'
  BY <1>1, <1>2 DEF SectionTypes, AllKept
<1>7. /\ SOthers(t) /\ call'[t] = f /\ dcs'[t] = s /\ pc'[t] = 1
      /\ \A u \in Threads : pc'[u] = pc[u]
  BY <1>1, <1>2, <1>4 DEF SOthers, SectionCalls
<1>8. Outside(t)
  BY <1>2, OutsideIs
<1>9. /\ ~Inner(t)' /\ ~New(t)' /\ ~Listed(t)' /\ ~Half(t)'
      /\ Exiting(t)' => f = "exit"
  <2>1. CASE f \in {"init", "term"}
    BY <1>7, <2>1, OutsideIs DEF Outside
  <2>2. CASE f = "enter"
    <3>1. pc'[t] \in Nat /\ pc'[t] <= Prelude(copy)' + 1
      BY <1>7 DEF Prelude
    <3> QED  BY <1>7, <2>2, <3>1, OutsideEarlyNext DEF Outside
  <2>3. CASE f = "exit"
    BY <1>7, <2>3 DEF Inner, New, Listed, Half, AtEnter
  <2> QED  BY <1>4, <2>1, <2>2, <2>3
<1>10. SectionArguments'
  BY <1>1, <1>4, <1>7 DEF SectionArguments, SOthers, SMayCall
<1>11. GlobalHeld'
  BY <1>1, <1>2, <1>7, <1>8, <1>9, GlobalHeldStays DEF Outside, AllKept
<1>12. StopsKnown
  <2>1. call'[Main] = "term" => stops' > 0
    <3>1. stops \in Nat /\ stops' \in Nat
      BY <1>1, <1>3 DEF SectionTypes
    <3>2. CASE t = Main
      BY <1>7, <3>2 DEF SMayCall
    <3>3. CASE t # Main
      BY <1>1, <1>3, <1>7, <3>1, <3>3 DEF SOthers, SectionData, Stopped
    <3> QED  BY <3>2, <3>3
  <2> QED  BY <1>1, <1>3, <2>1 DEF StopsKnown, SectionTypes
<1>13. SectionData'
  <2>1. SectionsStay /\ list' = list
    BY <1>2 DEF SectionsStay, AllKept
  <2>2. Placed(t) /\ ~Half(t)
    BY <1>2, <1>7, <1>8, <1>9 DEF Placed, Outside, SMayCall, AllKept
  <2> QED  BY <1>1, <1>2, <1>7, <1>9, <1>12, <2>1, <2>2, DataStays
<1>14. /\ list' = list /\ inside' = inside /\ initedC' = initedC /\ attrC' = attrC
  BY <1>2 DEF AllKept
<1>15. \A u \in Threads \ {t} : call'[u] = call[u] /\ (Early(u)' <=> Early(u))
  BY <1>7, SOthersStay DEF SOthers
<1>16. SectionsQuiet'
  <2> SUFFICES ASSUME list' = null \/ call'[Main] = "term"
               PROVE  /\ \A u \in Threads \ {Main} : call'[u] = "none"
                      /\ call'[Main] \in {"none", "init", "term"} \/ Early(Main)'
                      /\ \A u \in Threads, x \in Sections : inside'[u][x] = 0
    BY DEF SectionsQuiet
  <2>1. CASE f = "init"
    BY <1>1, <1>2, <1>4, <1>7, <1>14, <1>15, <2>1 DEF SMayCall, SectionsQuiet
  <2>2. CASE f = "term"
    BY <1>1, <1>2, <1>4, <1>7, <1>14, <1>15, <2>2 DEF SMayCall, SectionsQuiet
  <2>3. CASE f = "enter"
    <3>1. list = null
      BY <1>3, <1>7, <1>14, <1>15, <2>3 DEF SMayCall
    <3>2. t = Main /\ copy \notin SectionsWin32
      BY <2>3, <3>1 DEF SMayCall
    <3>3. Early(t)'
      BY <1>2, <1>7, <2>3, <3>2 DEF Early, Prelude
    <3> QED  BY <1>1, <1>14, <1>15, <3>1, <3>2, <3>3 DEF SectionsQuiet
  <2>4. CASE f = "exit"
    <3>1. inside[t][s] > 0 /\ s \in Sections
      BY <2>4 DEF SMayCall
    <3>2. inside[t][s] # 0
      BY <3>1
    <3>3. ~(list = null \/ call[Main] = "term")
      BY <1>1, <3>1, <3>2 DEF SectionsQuiet
    <3> QED  BY <1>3, <1>7, <1>14, <1>15, <2>4, <3>3
  <2> QED  BY <1>4, <2>1, <2>2, <2>3, <2>4
<1>17. pc'[Main] = pc[Main] /\ (call'[Main] = call[Main] \/ (call[Main] = "none" /\ pc'[Main] = 1))
  BY <1>2, <1>3, <1>7, <1>15
<1>18. Beginning'
  <2>1. ASSUME NEW u \in Threads, Early(u)', pc'[u] > 1
        PROVE  list' = null /\ u = Main
    <3>1. u # t
      BY <1>7, <2>1
    <3> QED  BY <1>1, <1>7, <1>14, <1>15, <2>1, <3>1 DEF Beginning
  <2>2. copy \in SectionsWin32 /\ ~initedC /\ list # null =>
          \/ call'[Main] = "init" /\ pc'[Main] = 4
          \/ call'[Main] = "term" /\ pc'[Main] > 2
    BY <1>1, <1>17 DEF Beginning
  <2> QED  BY <1>1, <1>2, <1>14, <1>17, <2>1, <2>2 DEF Beginning
<1>19. SectionAttr'
  BY <1>1, <1>2, <1>14, <1>17 DEF SectionAttr
<1> QED  BY <1>5, <1>6, <1>10, <1>11, <1>13, <1>16, <1>18, <1>19 DEF SectionInv, SectionControl

LEMMA SectionUseKeeps ==
    ASSUME SectionInv, NEW t \in Threads, NEW s \in Sections,
           CS!EnterSection(t, s) \/ CS!ExitSection(t, s)
    PROVE  SectionInv'
<1>1. copy \in DOMAIN CS!CriticalCode /\ stops \in 0 .. MaxStops /\ dmain \in BOOLEAN
  BY DEF SectionInv, SectionCalls, SectionTypes
<1>2. stops' = stops /\ dmain' = dmain
  BY DEF CS!EnterSection, CS!ExitSection, CS!life
<1>3. dmain' \in BOOLEAN /\ stops' \in 0 .. MaxStops /\ stops' >= stops
  BY <1>1, <1>2
<1>4. CASE CS!EnterSection(t, s)
  <2>1. CS!Calls(t, "enter", s) /\ SMayCall(t, "enter", s)
    BY <1>1, <1>4, LazyIsPosix DEF CS!EnterSection, SMayCall
  <2> QED  BY <1>3, <2>1, SCallKeeps
<1>5. CASE CS!ExitSection(t, s)
  <2>1. CS!Calls(t, "exit", s) /\ SMayCall(t, "exit", s)
    BY <1>5 DEF CS!ExitSection, SMayCall
  <2> QED  BY <1>3, <2>1, SCallKeeps
<1> QED  BY <1>4, <1>5

LEMMA SectionStartKeeps ==
    ASSUME SectionInv, NEW t \in Threads, CS!Start(t) \/ CS!Stop(t)
    PROVE  SectionInv'
<1>1. stops \in 0 .. MaxStops /\ dmain \in BOOLEAN /\ MaxStops \in Nat
  BY SectionParameters DEF SectionInv, SectionTypes, CS!Parameters
<1>2. CASE CS!Start(t)
  <2>1. CS!Calls(t, "init", null) /\ SMayCall(t, "init", null)
    BY <1>2 DEF CS!Start, SMayCall
  <2>2. dmain' \in BOOLEAN /\ stops' \in 0 .. MaxStops /\ stops' >= stops
    BY <1>1, <1>2 DEF CS!Start
  <2> QED  BY <2>1, <2>2, SCallKeeps
<1>3. CASE CS!Stop(t)
  <2>1. dmain' \in BOOLEAN /\ stops' \in 0 .. MaxStops /\ stops' >= stops /\ stops' > 0
    BY <1>1, <1>3 DEF CS!Stop
  <2>2. CS!Calls(t, "term", null) /\ SMayCall(t, "term", null)
    BY <1>3, <2>1 DEF CS!Stop, CS!Idle, SMayCall
  <2> QED  BY <2>1, <2>2, SCallKeeps
<1> QED  BY <1>2, <1>3

LEMMA SectionsStart ==
    ASSUME CS!Init
    PROVE  SectionInv
<1>1. /\ Main \in Threads /\ global \notin Sections /\ global # null /\ null \notin Threads
      /\ null \notin Sections /\ MaxStops \in Nat
      /\ copy \in DOMAIN CS!CriticalCode
  BY SectionParameters DEF CS!Parameters, CS!Init
<1>2. /\ call = [t \in Threads |-> "none"] /\ pc = [t \in Threads |-> 1]
      /\ dcs = [t \in Threads |-> null]
      /\ initedC = FALSE /\ attrC = "none" /\ list = null /\ atexit = FALSE
      /\ next = [x \in Sections \cup {global} |-> null]
      /\ mutex = [x \in Sections \cup {global} |-> "raw"]
      /\ holder = [x \in Sections \cup {global} |-> null]
      /\ count = [x \in Sections \cup {global} |-> 0]
      /\ inside = [t \in Threads |-> [s \in Sections |-> 0]]
      /\ dmain = FALSE /\ stops = 0 /\ flaw = "none"
  BY DEF CS!Init, CS!Mutexes
<1>3. SectionCalls
  BY <1>1, <1>2 DEF SectionCalls
<1>4. SectionTypes
  <2>1. stops \in 0 .. MaxStops /\ inside \in [Threads -> [Sections -> Nat]]
    BY <1>1, <1>2
  <2>2. /\ next \in [Sections \cup {global} -> Sections \cup {global, null}]
        /\ mutex \in [Sections \cup {global} -> {"raw", "plain", "recursive", "deleted"}]
        /\ holder \in [Sections \cup {global} -> Threads \cup {null}]
        /\ count \in [Sections \cup {global} -> Nat]
    BY <1>2
  <2> QED  BY <1>2, <2>1, <2>2 DEF SectionTypes
<1>5. \A t \in Threads : Outside(t) /\ ~Early(t) /\ call[t] = "none"
  BY <1>2, OutsideIs
<1>6. SectionArguments
  BY <1>2 DEF SectionArguments
<1>7. SectionsQuiet /\ Beginning /\ SectionAttr
  BY <1>1, <1>2, <1>5 DEF SectionsQuiet, Beginning, SectionAttr
<1>8. GlobalHeld
  BY <1>1, <1>2, <1>5 DEF GlobalHeld, Outside
<1>9. Chained /\ NextKnown /\ MutexKnown
  BY <1>1, <1>2, <1>5 DEF Chained, NextKnown, MutexKnown, Outside
<1>10. Stopped /\ InsideKept /\ FlawsNamed
  BY <1>1, <1>2, <1>5 DEF Stopped, InsideKept, FlawsNamed, Outside
<1> QED
  BY <1>3, <1>4, <1>6, <1>7, <1>8, <1>9, <1>10 DEF SectionInv, SectionControl, SectionData

LEMMA SectionsStutter ==
    ASSUME SectionInv, UNCHANGED sectionVars
    PROVE  SectionInv'
<1>1. UNCHANGED <<copy, call, pc, dcs, initedC, attrC, list, atexit, next, mutex, holder, count,
                  inside, dmain, stops, flaw>>
  BY DEF sectionVars
<1>2. SectionCalls' /\ SectionTypes'
  BY <1>1 DEF SectionInv, SectionCalls, SectionTypes, SInCode, CS!Body
<1>3. Prelude(copy)' = Prelude(copy)
  BY <1>1 DEF Prelude
<1>4. \A t : /\ Inner(t)' <=> Inner(t)
             /\ New(t)' <=> New(t)
             /\ Listed(t)' <=> Listed(t)
             /\ Half(t)' <=> Half(t)
             /\ Early(t)' <=> Early(t)
             /\ Exiting(t)' <=> Exiting(t)
  BY <1>1, <1>3 DEF Inner, New, Listed, Half, Early, Exiting, AtEnter
<1>5. SectionArguments' /\ SectionsQuiet' /\ Beginning' /\ SectionAttr' /\ GlobalHeld'
  BY <1>1, <1>4 DEF SectionInv, SectionControl, SectionArguments, SectionsQuiet, Beginning,
                    SectionAttr, GlobalHeld
<1>6. Chained' /\ NextKnown' /\ MutexKnown' /\ Stopped' /\ InsideKept' /\ FlawsNamed'
  BY <1>1, <1>4 DEF SectionInv, SectionData, Chained, NextKnown, MutexKnown, Stopped, InsideKept,
                    FlawsNamed
<1> QED  BY <1>2, <1>5, <1>6 DEF SectionInv, SectionControl, SectionData

-----------------------------------------------------------------------------
(* The program, seen from critical.c                                       *)

LEMMA SectionInvIsInductive ==
    /\ Init => SectionInv
    /\ SectionInv /\ [Next]_vars => SectionInv'
<1>1. Init => SectionInv
  BY SectionsStart DEF Init
<1>2. ASSUME SectionInv, UNCHANGED vars PROVE SectionInv'
  BY <1>2, SectionsStutter DEF vars
<1>3. ASSUME SectionInv, NEW t \in Threads, SectionStep(t) PROVE SectionInv'
  BY <1>3, SectionStepKeeps DEF SectionStep
<1>4. ASSUME SectionInv, NEW t \in Threads, UseSection(t) PROVE SectionInv'
  BY <1>4, SectionUseKeeps DEF UseSection
<1>5. ASSUME SectionInv, NEW t \in Threads, MonitorStep(t) \/ UseObject(t) PROVE SectionInv'
  BY <1>5, SectionsStutter DEF MonitorStep, UseObject
<1>6. ASSUME SectionInv, NEW t \in Threads, Start(t) PROVE SectionInv'
  BY <1>6, SectionStartKeeps, SectionsStutter DEF Start
<1>7. ASSUME SectionInv, NEW t \in Threads, Stop(t) PROVE SectionInv'
  BY <1>7, SectionStartKeeps, SectionsStutter DEF Stop
<1> QED  BY <1>1, <1>2, <1>3, <1>4, <1>5, <1>6, <1>7 DEF Next

\* Whichever copy of critical.c the program is linked with, its list, its mutexes and
\* the counts of who is inside are as SectionInv says, through starts and shutdowns
\* of the runtime and through sections whose first two visitors come at once.
THEOREM SectionInvAlways == Spec => []SectionInv
BY SectionInvIsInductive, PTL DEF Spec

\* What a step of critical.c does to the counts of who is inside.
LEMMA SectionMoves ==
    ASSUME SectionInv, NEW t \in Threads, CS!CallStep(t)
    PROVE  /\ call[t] # "none" /\ SOthers(t)
           /\ \/ inside' = inside
              \/ dcs[t] \in Sections /\ SectionLocked(t)
              \/ dcs[t] \in Sections /\ inside[t][dcs[t]] > 0 /\ SectionUnlocked(t)
<1>1. SectionCalls /\ SectionTypes /\ SectionData /\ SectionArguments /\ pc[t] \in Nat
  BY DEF SectionInv, SectionControl, SectionCalls
<1>2. call[t] # "none"
  BY <1>1, SectionStepIs
<1>3. call[t] \in {"init", "term", "enter", "exit"}
  BY <1>1, <1>2 DEF SectionCalls
<1>4. call[t] \in {"enter", "exit"} => dcs[t] \in Sections
  BY <1>1 DEF SectionArguments
<1>5. CASE call[t] = "init"
  <2>1. SGoes(t) /\ inside' = inside
    BY <1>1, <1>5, InitWin32Step, InitAttrStep, InitNoAttrStep
    DEF AllKept, AttrMade, AttrTyped, GlobalMade, GlobalListed, InitedSet
  <2> QED  BY <1>1, <1>2, <2>1, SGoesIs
<1>6. CASE call[t] = "term"
  <2>1. SGoes(t) /\ inside' = inside
    BY <1>1, <1>6, TermWin32Step, TermPosixStep DEF AllKept, InitedCleared, HeadDeleted, HeadPopped
  <2> QED  BY <1>1, <1>2, <2>1, SGoesIs
<1>7. CASE call[t] = "enter" /\ ~(pc[t] <= Prelude(copy))
  <2>1. SGoes(t) /\ (inside' = inside \/ SectionLocked(t))
    BY <1>1, <1>7, CommonStep
    DEF AllKept, GlobalTaken, NextSet, SectionListed, SectionMade, GlobalLeft, NoMutexLocked
  <2> QED  BY <1>1, <1>2, <1>4, <1>7, <2>1, SGoesIs
<1>8. CASE call[t] = "enter" /\ pc[t] <= Prelude(copy)
  <2>1. SInCode(t) /\ pc[t] >= 1
    BY <1>1, <1>2 DEF SectionCalls, SInCode
  <2>2. copy \notin SectionsWin32
    BY <1>1, <1>8, <2>1 DEF Prelude
  <2>3. SGoes(t) /\ inside' = inside
    <3>1. CASE copy \in SectionsAttr
      <4>1. pc[t] <= 7
        BY <1>8, <2>2, <3>1 DEF Prelude
      <4> QED  BY <1>1, <1>8, <3>1, <4>1, EarlyAttrStep
          DEF AllKept, AttrMade, AttrTyped, GlobalMade, GlobalListed, Registered
    <3>2. CASE copy \notin SectionsAttr
      <4>1. pc[t] <= 5
        BY <1>8, <2>2, <3>2 DEF Prelude
      <4> QED  BY <1>1, <1>8, <2>2, <3>2, <4>1, EarlyNoAttrStep
          DEF AllKept, GlobalMade, GlobalListed, Registered
    <3> QED  BY <3>1, <3>2
  <2> QED  BY <1>1, <1>2, <2>3, SGoesIs
<1>9. CASE call[t] = "exit"
  <2>1. SGoes(t) /\ SectionUnlocked(t)
    BY <1>1, <1>9, ExitStep
  <2>2. inside[t][dcs[t]] > 0
    BY <1>1, <1>9 DEF SectionData, InsideKept, Exiting
  <2> QED  BY <1>1, <1>2, <1>4, <1>9, <2>1, <2>2, SGoesIs
<1> QED  BY <1>3, <1>5, <1>6, <1>7, <1>8, <1>9

\* What a step of monitor.c does to the counts of who holds which object.
LEMMA MonitorMoves ==
    ASSUME MonitorInv, NEW t \in Threads, OM!CallStep(t)
    PROVE  \/ holds' = holds
           \/ obj[t] \in Objects /\ Known(t) /\ Locks(t)
           \/ obj[t] \in Objects /\ holds[t][obj[t]] > 0 /\ Unlocks(t)
<1>1. /\ CallTypes /\ DataTypes /\ Control /\ Heap /\ fn[t] # "none"
  BY StepsInside DEF MonitorInv
<1>2. CASE fn[t] \in UserFunctions
  <2>1. HandKnown(t)
    BY <1>1 DEF Heap, Blocks, MonitorKnown, HandKnown
  <2>2. UserStep(t) /\ obj[t] \in Objects
    BY <1>1, <1>2, <2>1, UserMoves, UserRuns
  <2>3. CASE Locking(t)
    BY <2>2, <2>3 DEF Locking
  <2>4. CASE UnlockingMutex(t)
    BY <1>1, <2>2, <2>4 DEF UnlockingMutex, Heap, LocksKept
  <2>5. CASE ~Locking(t) /\ ~UnlockingMutex(t)
    BY <2>2, <2>5
    DEF UserStep, Waiting, Entering, Leaving, Allocating, Making, Setting, Forgetting, Freeing,
        DeletingMutex, FreeingMonitor, ClearingMonitor, LockingRaw, Nothing, TakesCritsec,
        LeavesCritsec, Allocates, MakesMutex, SetsMonitor, Forgets, FreesCs, DeletesMutex,
        FreesMonitor, ClearsMonitor, LocksRaw
  <2> QED  BY <2>3, <2>4, <2>5
<1>3. CASE fn[t] \notin UserFunctions
  <2>1. fn[t] = "staticctor" \/ fn[t] = "staticdtor"
    BY <1>1, <1>3 DEF CallTypes, UserFunctions
  <2>2. StartStep(t)
    BY <1>1, <2>1, CtorIsStart, DtorIsStart
  <2> QED  BY <2>2 DEF StartStep, Globally
<1> QED  BY <1>2, <1>3

LEMMA NullIsNoThread == null \notin Threads /\ Main \in Threads /\ global # null
BY SectionParameters DEF CS!Parameters

-----------------------------------------------------------------------------
(* Exclusion: both kinds of lock are the abstract one                      *)

LEMMA InUseIs ==
    ASSUME NEW t \in Threads
    PROVE  /\ \A x \in Objects : inUse[t][x] = holds[t][x] /\ inUse'[t][x] = holds'[t][x]
           /\ \A x \in Sections : inUse[t][x] = inside[t][x] /\ inUse'[t][x] = inside'[t][x]
BY LocksDiffer DEF inUse

\* A count of one thread goes up or down.
LEMMA InUseMoves ==
    ASSUME NEW t \in Threads, NEW x \in Objects \cup Sections, NEW n,
           \/ /\ x \in Objects /\ inside' = inside
              /\ holds' = [holds EXCEPT ![t][x] = n]
              /\ holds \in [Threads -> [Objects -> Nat]]
           \/ /\ x \in Sections /\ holds' = holds
              /\ inside' = [inside EXCEPT ![t][x] = n]
              /\ inside \in [Threads -> [Sections -> Nat]]
    PROVE  inUse' = [inUse EXCEPT ![t][x] = n]
<1> DEFINE D == Objects \cup Sections
<1>1. /\ inUse = [u \in Threads |-> [y \in D |-> inUse[u][y]]]
      /\ inUse' = [u \in Threads |-> [y \in D |-> inUse'[u][y]]]
  BY DEF inUse
<1>2. ASSUME NEW u \in Threads, NEW y \in D
      PROVE  inUse'[u][y] = IF u = t /\ y = x THEN n ELSE inUse[u][y]
  <2>1. \/ \A z \in Objects : holds'[u][z] = IF u = t /\ z = x THEN n ELSE holds[u][z]
        \/ x \in Sections /\ holds' = holds
    OBVIOUS
  <2>2. \/ \A z \in Sections : inside'[u][z] = IF u = t /\ z = x THEN n ELSE inside[u][z]
        \/ x \in Objects /\ inside' = inside
    OBVIOUS
  <2>3. CASE y \in Objects
    BY <2>1, <2>3, InUseIs, LocksDiffer
  <2>4. CASE y \in Sections
    BY <2>2, <2>4, InUseIs, LocksDiffer
  <2> QED  BY <2>3, <2>4
<1>3. x \in D
  OBVIOUS
<1> HIDE DEF D
<1>4. ASSUME NEW F, NEW G, F = [u \in Threads |-> [y \in D |-> F[u][y]]],
             G = [u \in Threads |-> [y \in D |-> G[u][y]]],
             \A u \in Threads, y \in D : G[u][y] = IF u = t /\ y = x THEN n ELSE F[u][y]
      PROVE  G = [F EXCEPT ![t][x] = n]
  <2>1. DOMAIN F = Threads /\ \A u \in Threads : F[u] = [y \in D |-> F[u][y]]
    BY <1>4, Zenon
  <2>2. [F EXCEPT ![t][x] = n]
           = [u \in Threads |-> IF u = t THEN [F[t] EXCEPT ![x] = n] ELSE F[u]]
    BY <2>1
  <2>3. DOMAIN F[t] = D
    BY <2>1
  <2>4. [F[t] EXCEPT ![x] = n] = [y \in D |-> IF y = x THEN n ELSE F[t][y]]
    BY <2>3
  <2>5. \A u \in Threads : [y \in D |-> G[u][y]]
                          = IF u = t THEN [F[t] EXCEPT ![x] = n] ELSE F[u]
    BY <1>4, <2>1, <2>4
  <2>6. G = [u \in Threads |-> [y \in D |-> G[u][y]]]
    BY <1>4, Zenon
  <2> QED  BY <2>2, <2>5, <2>6
<1> QED  BY <1>1, <1>2, <1>4

\* _d_monitorenter ends where no other thread holds the object, _d_monitorexit where the
\* caller does.
LEMMA MonitorRefines ==
    ASSUME MonitorInv, NEW t \in Threads, OM!CallStep(t), inside' = inside
    PROVE  inUse' = inUse \/ \E x \in Objects \cup Sections : Sync!Enter(t, x) \/ Sync!Leave(t, x)
<1> DEFINE o == obj[t]
<1>1. holds \in [Threads -> [Objects -> Nat]] /\ LocksKept /\ MonitorKnown
  BY DEF MonitorInv, DataTypes, Heap
<1>2. CASE holds' = holds
  BY <1>2 DEF inUse
<1>3. CASE o \in Objects /\ Known(t) /\ Locks(t)
  <2>1. inUse[t][o] = holds[t][o]
    BY <1>3, InUseIs
  <2>2. holds' = [holds EXCEPT ![t][o] = holds[t][o] + 1]
    BY <1>1, <1>3 DEF Locks
  <2>3. inUse' = [inUse EXCEPT ![t][o] = inUse[t][o] + 1]
    <3>1. inUse' = [inUse EXCEPT ![t][o] = holds[t][o] + 1]
      BY <1>1, <1>3, <2>2, InUseMoves
    <3> QED  BY <2>1, <3>1, Zenon
  <2>4. \A u \in Threads \ {t} : holds[u][o] = 0
    <3> SUFFICES ASSUME NEW u \in Threads \ {t}, holds[u][o] > 0 PROVE FALSE
      BY <1>1, <1>3
    <3>1. owner[monitor[o]] = u
      BY <1>1, <1>3 DEF LocksKept
    <3> QED  BY <1>3, <3>1, NullIsNoThread DEF Locks
  <2>5. \A u \in Threads \ {t} : inUse[u][o] = 0
    BY <1>3, <2>4, InUseIs
  <2>6. Sync!Enter(t, o)
    BY <2>3, <2>5 DEF Sync!Enter
  <2> QED  BY <1>3, <2>6
<1>4. CASE o \in Objects /\ holds[t][o] > 0 /\ Unlocks(t)
  <2>1. inUse[t][o] = holds[t][o]
    BY <1>4, InUseIs
  <2>2. holds' = [holds EXCEPT ![t][o] = holds[t][o] - 1]
    BY <1>1, <1>4 DEF Unlocks
  <2>3. inUse' = [inUse EXCEPT ![t][o] = inUse[t][o] - 1]
    <3>1. inUse' = [inUse EXCEPT ![t][o] = holds[t][o] - 1]
      BY <1>1, <1>4, <2>2, InUseMoves
    <3> QED  BY <2>1, <3>1, Zenon
  <2>4. Sync!Leave(t, o)
    BY <1>4, <2>1, <2>3 DEF Sync!Leave
  <2> QED  BY <1>4, <2>4
<1> QED  BY <1>2, <1>3, <1>4, MonitorMoves

\* The same of _d_criticalenter and _d_criticalexit.
LEMMA SectionRefines ==
    ASSUME SectionInv, NEW t \in Threads, CS!CallStep(t), holds' = holds
    PROVE  inUse' = inUse \/ \E x \in Objects \cup Sections : Sync!Enter(t, x) \/ Sync!Leave(t, x)
<1> DEFINE s == dcs[t]
<1>1. inside \in [Threads -> [Sections -> Nat]] /\ InsideKept
  BY DEF SectionInv, SectionTypes, SectionData
<1>2. CASE inside' = inside
  BY <1>2 DEF inUse
<1>3. CASE s \in Sections /\ SectionLocked(t)
  <2>1. inUse[t][s] = inside[t][s]
    BY <1>3, InUseIs
  <2>2. inside' = [inside EXCEPT ![t][s] = inside[t][s] + 1]
    BY <1>1, <1>3 DEF SectionLocked
  <2>3. inUse' = [inUse EXCEPT ![t][s] = inUse[t][s] + 1]
    <3>1. inUse' = [inUse EXCEPT ![t][s] = inside[t][s] + 1]
      BY <1>1, <1>3, <2>2, InUseMoves
    <3> QED  BY <2>1, <3>1, Zenon
  <2>4. \A u \in Threads \ {t} : inside[u][s] = 0
    <3>1. \A u \in Threads \ {t} : holder[s] # u
      BY <1>3, NullIsNoThread DEF SectionLocked
    <3> QED  BY <1>1, <1>3, <3>1 DEF InsideKept
  <2>5. \A u \in Threads \ {t} : inUse[u][s] = 0
    BY <1>3, <2>4, InUseIs
  <2>6. Sync!Enter(t, s)
    BY <2>3, <2>5 DEF Sync!Enter
  <2> QED  BY <1>3, <2>6
<1>4. CASE s \in Sections /\ inside[t][s] > 0 /\ SectionUnlocked(t)
  <2>1. inUse[t][s] = inside[t][s]
    BY <1>4, InUseIs
  <2>2. inside' = [inside EXCEPT ![t][s] = inside[t][s] - 1]
    BY <1>1, <1>4 DEF SectionUnlocked
  <2>3. inUse' = [inUse EXCEPT ![t][s] = inUse[t][s] - 1]
    <3>1. inUse' = [inUse EXCEPT ![t][s] = inside[t][s] - 1]
      BY <1>1, <1>4, <2>2, InUseMoves
    <3> QED  BY <2>1, <3>1, Zenon
  <2>4. Sync!Leave(t, s)
    BY <1>4, <2>1, <2>3 DEF Sync!Leave
  <2> QED  BY <1>4, <2>4
<1> QED  BY <1>2, <1>3, <1>4, SectionMoves

\* A call only moves the caller to the function's first step.
LEMMA CallsLock ==
    ASSUME NEW t, NEW x, NEW f
    PROVE  /\ OM!Calls(t, f, x) => holds' = holds
           /\ CS!Calls(t, f, x) => inside' = inside
BY DEF OM!Calls, CS!Calls, OM!locks, CS!held

LEMMA UsesKeepCounts ==
    ASSUME NEW t \in Threads, UseObject(t) \/ UseSection(t) \/ Start(t) \/ Stop(t)
    PROVE  holds' = holds /\ inside' = inside
<1>1. CASE UseObject(t)
  <2>1. \E f, o : OM!Calls(t, f, o)
    BY <1>1 DEF UseObject, OM!Enter, OM!Exit, OM!Get, OM!Delete
  <2> QED  BY <1>1, <2>1, CallsLock DEF UseObject, sectionVars
<1>2. CASE UseSection(t)
  <2>1. \E f, s : CS!Calls(t, f, s)
    BY <1>2 DEF UseSection, CS!EnterSection, CS!ExitSection
  <2> QED  BY <1>2, <2>1, CallsLock DEF UseSection, monitorVars
<1>3. CASE Start(t)
  <2>1. \/ OM!Calls(t, "staticctor", null) /\ UNCHANGED sectionVars
        \/ CS!Calls(t, "init", null) /\ UNCHANGED monitorVars
    BY <1>3 DEF Start, OM!Start, CS!Start
  <2> QED  BY <2>1, CallsLock DEF monitorVars, sectionVars
<1>4. CASE Stop(t)
  <2>1. \/ OM!Calls(t, "staticdtor", null) /\ UNCHANGED sectionVars
        \/ CS!Calls(t, "term", null) /\ UNCHANGED monitorVars
    BY <1>4 DEF Stop, OM!Stop, CS!Stop
  <2> QED  BY <2>1, CallsLock DEF monitorVars, sectionVars
<1> QED  BY <1>1, <1>2, <1>3, <1>4

\* synchronized, on an object and as a statement, is a recursive lock: whichever copies of
\* monitor.c and critical.c the program has, whoever has created the monitor or listed the
\* section, and however the threads nest both kinds.
THEOREM SpecImplementsRecursiveLocks == Spec => ImplementsRecursiveLocks
<1>1. Init => Sync!Init
  BY DEF Init, OM!Init, CS!Init, Sync!Init, Sync!Free, inUse
<1>2. MonitorInv /\ SectionInv /\ [Next]_vars => [Sync!Next]_inUse
  <2> SUFFICES ASSUME MonitorInv, SectionInv, [Next]_vars
               PROVE  [Sync!Next]_inUse
    OBVIOUS
  <2>1. CASE UNCHANGED vars
    BY <2>1 DEF vars, monitorVars, sectionVars, inUse
  <2>2. ASSUME NEW t \in Threads, MonitorStep(t) PROVE [Sync!Next]_inUse
    <3>1. OM!CallStep(t) /\ inside' = inside
      BY <2>2 DEF MonitorStep, sectionVars
    <3> QED  BY <3>1, MonitorRefines DEF Sync!Next
  <2>3. ASSUME NEW t \in Threads, SectionStep(t) PROVE [Sync!Next]_inUse
    <3>1. CS!CallStep(t) /\ holds' = holds
      BY <2>3 DEF SectionStep, monitorVars
    <3> QED  BY <3>1, SectionRefines DEF Sync!Next
  <2>4. ASSUME NEW t \in Threads, UseObject(t) \/ UseSection(t) \/ Start(t) \/ Stop(t)
        PROVE  [Sync!Next]_inUse
    BY <2>4, UsesKeepCounts DEF inUse
  <2> QED  BY <2>1, <2>2, <2>3, <2>4 DEF Next
<1> QED
  BY <1>1, <1>2, MonitorInvAlways, SectionInvAlways, PTL
  DEF Spec, ImplementsRecursiveLocks, Sync!Spec

-----------------------------------------------------------------------------
(* What follows from the invariants                                        *)

\* Who holds an object or is in a section may lock it again at once: the attribute object
\* of the copies for pthreads has its type whenever a mutex is made of it, and no holder
\* sees the mutex of the lock made, deleted or freed under it.
THEOREM SpecHolderMayReenter == Spec => []HolderMayReenter
<1>1. ASSUME MonitorInv, NEW t \in Threads, NEW o \in Objects, holds[t][o] > 0
      PROVE  heap[monitor[o]] = "recursive"
  <2>1. monitor[o] # null /\ holds[t][o] # 0
    BY <1>1 DEF MonitorInv, Heap, LocksKept
  <2>2. ASSUME NEW u \in Threads, obj[u] = o, Unready(u) PROVE FALSE
    BY <1>1, <2>1, <2>2 DEF MonitorInv, Heap, MonitorKnown
  <2>3. ASSUME NEW u \in Threads, obj[u] = o, Gone(u) \/ Clearing(u) PROVE FALSE
    <3>1. Deletes(u)
      BY <2>3, Places
    <3> QED  BY <1>1, <2>1, <2>3, <3>1 DEF MonitorInv, Heap, DeleterAlone
  <2> QED  BY <1>1, <2>1, <2>2, <2>3 DEF MonitorInv, Heap, MonitorHeap, Stale
<1>2. ASSUME SectionInv, NEW t \in Threads, NEW s \in Sections, inside[t][s] > 0
      PROVE  mutex[s] = "recursive"
  <2>1. holder[s] = t
    <3>1. inside[t][s] # 0
      BY <1>2
    <3> QED  BY <1>2, <3>1 DEF SectionInv, SectionData, InsideKept
  <2> QED  BY <1>2, <2>1, NullIsNoThread DEF SectionInv, SectionData, InsideKept
<1>3. MonitorInv /\ SectionInv => HolderMayReenter
  BY <1>1, <1>2 DEF HolderMayReenter, OM!HolderMayReenter, CS!InsiderMayReenter
<1> QED  BY <1>3, MonitorInvAlways, SectionInvAlways, PTL

\* The step of a thread at place n of the common part of _d_criticalenter.
LEMMA EnterRunsAt ==
    ASSUME SectionInv, NEW t \in Threads, NEW n \in 1 .. 8, AtEnter(t, n)
    PROVE  /\ ~CS!Idle(t)
           /\ n = 3 => CS!Step(t).do = "no next"
           /\ n = 4 => CS!Step(t).do = "set next"
           /\ n = 5 => CS!Step(t).do = "set list"
           /\ n = 6 => CS!Step(t).do = SectionStart(copy)
           /\ n = 7 => CS!Step(t).do = "unlock global"
<1> DEFINE k == Prelude(copy)
<1>1. call[t] = "enter" /\ pc[t] = k + n /\ ~CS!Idle(t)
  BY DEF AtEnter, CS!Idle
<1>2. Common(CS!Body(t), k, SectionStart(copy))
  BY <1>1, EnterBody DEF SectionInv
<1> HIDE DEF k
<1>3. /\ Entry(CS!Body(t), k + 3, "no next", 3)
      /\ Entry(CS!Body(t), k + 4, "set next", 0)
      /\ Entry(CS!Body(t), k + 5, "set list", 0)
      /\ Entry(CS!Body(t), k + 6, SectionStart(copy), 0)
      /\ Entry(CS!Body(t), k + 7, "unlock global", 0)
  BY <1>2, Zenon DEF Common
<1>4. n = 3 => CS!Step(t).do = "no next"
  BY <1>1, <1>3, SectionEntry, Zenon
<1>5. n = 4 => CS!Step(t).do = "set next"
  BY <1>1, <1>3, SectionEntry, Zenon
<1>6. n = 5 => CS!Step(t).do = "set list"
  BY <1>1, <1>3, SectionEntry, Zenon
<1>7. n = 6 => CS!Step(t).do = SectionStart(copy)
  BY <1>1, <1>3, SectionEntry, Zenon
<1>8. n = 7 => CS!Step(t).do = "unlock global"
  BY <1>1, <1>3, SectionEntry, Zenon
<1> QED  BY <1>1, <1>4, <1>5, <1>6, <1>7, <1>8

\* A thread finds no mutex where it locks in three cases only: in a copy of monitor.c of the
\* proposal; in a section that another thread has listed and not initialised yet; in a
\* section that has outlived a shutdown of the runtime.
THEOREM SpecFlawsKnown == Spec => []FlawsKnown
<1>1. ASSUME SectionInv, NEW t \in Threads, Half(t)
      PROVE  \E what \in {"set list", "init section", "init section of attr"} : CS!AtStep(t, what)
  <2>1. AtEnter(t, 5) \/ AtEnter(t, 6)
    BY <1>1 DEF Half
  <2>2. CS!AtStep(t, "set list") \/ CS!AtStep(t, SectionStart(copy))
    <3>1. 5 \in 1 .. 8 /\ 6 \in 1 .. 8
      OBVIOUS
    <3>2. CASE AtEnter(t, 5)
      BY <1>1, <3>1, <3>2, EnterRunsAt, Zenon DEF CS!AtStep
    <3>3. CASE AtEnter(t, 6)
      BY <1>1, <3>1, <3>3, EnterRunsAt, Zenon DEF CS!AtStep
    <3> QED  BY <2>1, <3>2, <3>3
  <2>3. SectionStart(copy) \in {"init section", "init section of attr"}
    BY DEF SectionStart
  <2> QED  BY <2>2, <2>3
<1>2. SectionInv => CS!FlawsKnown
  BY <1>1 DEF SectionInv, SectionData, FlawsNamed, CS!FlawsKnown
<1>3. MonitorInv /\ SectionInv => FlawsKnown
  BY <1>2 DEF FlawsKnown, MonitorInv
<1> QED  BY <1>3, MonitorInvAlways, SectionInvAlways, PTL

LEMMA OneCallIsInductive ==
    /\ Init => OneCall
    /\ MonitorInv /\ SectionInv /\ OneCall /\ [Next]_vars => OneCall'
<1> USE DEF OneCall, OM!Idle, CS!Idle
<1>1. Init => OneCall
  BY DEF Init, CS!Init
<1>2. ASSUME OneCall, UNCHANGED vars PROVE OneCall'
  BY <1>2 DEF vars, monitorVars, sectionVars
<1>3. ASSUME MonitorInv, OneCall, NEW t \in Threads, MonitorStep(t) PROVE OneCall'
  <2>1. OM!CallStep(t) /\ call' = call /\ CallTypes /\ at[t] \in Nat
    BY <1>3 DEF MonitorStep, sectionVars, MonitorInv, CallTypes
  <2>2. fn[t] # "none"
    BY <2>1, StepsInside
  <2>3. Onward(t) \/ Past(t)
    BY <2>1, StepIs
  <2>4. \A u \in Threads \ {t} : fn'[u] = fn[u]
    BY <2>1, <2>3 DEF Onward, Past, OM!Goes, CallTypes
  <2> QED  BY <1>3, <2>1, <2>2, <2>4
<1>4. ASSUME SectionInv, OneCall, NEW t \in Threads, SectionStep(t) PROVE OneCall'
  <2>1. CS!CallStep(t) /\ fn' = fn
    BY <1>4 DEF SectionStep, monitorVars
  <2>2. call[t] # "none" /\ SOthers(t)
    BY <1>4, <2>1, SectionMoves
  <2> QED  BY <1>4, <2>1, <2>2 DEF SOthers
<1>5. ASSUME OneCall, NEW t \in Threads, Idle(t), NEW f, NEW o, OM!Calls(t, f, o),
             UNCHANGED sectionVars, MonitorInv
      PROVE  OneCall'
  BY <1>5 DEF Idle, OM!Calls, sectionVars, MonitorInv, CallTypes
<1>6. ASSUME OneCall, NEW t \in Threads, Idle(t), NEW f, NEW s, CS!Calls(t, f, s),
             UNCHANGED monitorVars, SectionInv
      PROVE  OneCall'
  BY <1>6 DEF Idle, CS!Calls, monitorVars, SectionInv, SectionCalls
<1>7. ASSUME MonitorInv, OneCall, NEW t \in Threads, UseObject(t) PROVE OneCall'
  <2>1. Idle(t) /\ UNCHANGED sectionVars /\ \E f, o : OM!Calls(t, f, o)
    BY <1>7 DEF UseObject, OM!Enter, OM!Exit, OM!Get, OM!Delete
  <2> QED  BY <1>5, <1>7, <2>1
<1>8. ASSUME SectionInv, OneCall, NEW t \in Threads, UseSection(t) PROVE OneCall'
  <2>1. Idle(t) /\ UNCHANGED monitorVars /\ \E f, s : CS!Calls(t, f, s)
    BY <1>8 DEF UseSection, CS!EnterSection, CS!ExitSection
  <2> QED  BY <1>6, <1>8, <2>1
<1>9. ASSUME MonitorInv, SectionInv, OneCall, NEW t \in Threads, Start(t) \/ Stop(t)
      PROVE  OneCall'
  <2>1. /\ Idle(t)
        /\ \/ UNCHANGED sectionVars /\ \E f, o : OM!Calls(t, f, o)
           \/ UNCHANGED monitorVars /\ \E f, s : CS!Calls(t, f, s)
    BY <1>9 DEF Start, Stop, AllIdle, OM!Start, CS!Start, OM!Stop, CS!Stop
  <2> QED  BY <1>5, <1>6, <1>9, <2>1
<1> QED  BY <1>1, <1>2, <1>3, <1>4, <1>7, <1>8, <1>9 DEF Next

\* Who holds critsec is within _d_monitorenter, before the lock of the monitor.
LEMMA CritsecBrief ==
    ASSUME MonitorInv, critsecOwner # null
    PROVE  /\ critsecOwner \in Threads /\ ~OM!Idle(critsecOwner)
           /\ ~OM!AtStep(critsecOwner, "lock mutex")
<1> DEFINE t == critsecOwner
<1>1. t \in Threads /\ Locked(t) /\ CallTypes
  BY DEF MonitorInv, Control, CritsecHeld, DataTypes
<1>2. fn[t] # "none" /\ InCode(t) /\ build \in DOMAIN OM!MonitorCode
  BY <1>1 DEF Locked, InCreate, InEnter, CallTypes
<1> HIDE DEF t
<1>3. InitStep(build) # "lock mutex"
  BY DEF InitStep
<1>4. OM!Step(t).do # "lock mutex"
  <2>1. CASE fn[t] = "create" /\ at[t] \in 2 .. 7
    <3>1. at[t] = 2 \/ at[t] = 3 \/ at[t] = 4 \/ at[t] = 5 \/ at[t] = 6 \/ at[t] = 7
      BY <2>1
    <3> QED  BY <1>2, <1>3, <2>1, <3>1, CreateRuns DEF Runs
  <2>2. CASE fn[t] \in {"enter", "get"} /\ at[t] \in 4 .. 8
    <3>1. at[t] = 4 \/ at[t] = 5 \/ at[t] = 6 \/ at[t] = 7 \/ at[t] = 8
      BY <2>2
    <3> QED  BY <1>2, <1>3, <2>2, <3>1, EnterRuns DEF Runs
  <2> QED  BY <1>1, <2>1, <2>2 DEF Locked, InCreate, InEnter
<1>5. /\ t \in Threads /\ ~OM!Idle(t) /\ ~OM!AtStep(t, "lock mutex")
  BY <1>1, <1>2, <1>4 DEF OM!Idle, OM!AtStep
<1> QED  BY <1>5 DEF t

\* Who holds critical_section is within _d_criticalenter, before the lock of the section.
LEMMA GlobalBrief ==
    ASSUME SectionInv, holder[global] # null
    PROVE  /\ holder[global] \in Threads /\ ~CS!Idle(holder[global])
           /\ ~CS!AtStep(holder[global], "lock section")
<1> DEFINE t == holder[global]
<1>1. t \in Threads /\ Inner(t)
  BY DEF SectionInv, SectionControl, GlobalHeld, SectionTypes
<1> HIDE DEF t
<1>2. \E n \in 3 .. 7 : AtEnter(t, n)
  BY <1>1 DEF Inner
<1>3. PICK n \in 3 .. 7 : AtEnter(t, n)
  BY <1>2
<1>4. /\ n \in 1 .. 8
      /\ n = 3 \/ n = 4 \/ n = 5 \/ n = 6 \/ n = 7
  BY <1>3
<1>5. /\ "no next" # "lock section" /\ "set next" # "lock section" /\ "set list" # "lock section"
      /\ SectionStart(copy) # "lock section" /\ "unlock global" # "lock section"
  BY DEF SectionStart
<1>6. CS!Step(t).do # "lock section" /\ ~CS!Idle(t)
  BY <1>1, <1>3, <1>4, <1>5, EnterRunsAt, Zenon
<1>7. t \in Threads /\ ~CS!Idle(t) /\ ~CS!AtStep(t, "lock section")
  BY <1>1, <1>6 DEF CS!AtStep
<1> QED  BY <1>7 DEF t

\* The locks of the runtime itself are held within one call only, by a thread that does not
\* wait for a lock of the program's there.
THEOREM SpecInternalLocksBrief == Spec => []InternalLocksBrief
<1>1. MonitorInv /\ SectionInv /\ OneCall => InternalLocksBrief
  <2> SUFFICES ASSUME MonitorInv, SectionInv, OneCall PROVE InternalLocksBrief
    OBVIOUS
  <2>1. critsecOwner # null => ~OM!Idle(critsecOwner) /\ ~AtUsersLock(critsecOwner)
    BY CritsecBrief DEF OneCall, AtUsersLock, CS!AtStep
  <2>2. holder[global] # null => ~CS!Idle(holder[global]) /\ ~AtUsersLock(holder[global])
    BY GlobalBrief DEF OneCall, AtUsersLock, OM!AtStep
  <2> QED  BY <2>1, <2>2 DEF InternalLocksBrief
<1>2. Spec => []OneCall
  BY OneCallIsInductive, MonitorInvAlways, SectionInvAlways, PTL DEF Spec
<1> QED  BY <1>1, <1>2, MonitorInvAlways, SectionInvAlways, PTL
-----------------------------------------------------------------------------
(* The list of critical.c                                                  *)

LEMMA ListParameters ==
    /\ Main \in Threads /\ global \notin Sections /\ global # null /\ null \notin Sections
    /\ MaxStops \in Nat
BY SectionParameters DEF CS!Parameters

\* Each kind of step keeps the invariant of the list.
LEMMA ListStaysKeeps ==
    ASSUME SectionInv, ListInv, ListStays, stops' = stops
    PROVE  ListInv'
<1>1. list' = list /\ next' = next /\ Linking' = Linking /\ ~Popping'
  BY DEF ListStays
<1>2. FirstChain'
  BY <1>1 DEF ListInv, FirstChain, Chain, Members
<1>3. LinkedToHead' /\ Unlisted' /\ HeadDone'
  BY <1>1 DEF ListInv, LinkedToHead, Unlisted, HeadDone
<1>4. Walk'
  <2> SUFFICES ASSUME stops' = 1, call'[Main] = "term", list' # null
               PROVE  \E k \in Nat, c \in [Nat -> Sections \cup {global}] :
                         Chain(c, k)' /\ \A s \in Sections : NoMutex(s)' \/ s \in Members(c, k)
    BY DEF Walk, Members
  <2>1. call[Main] = "term" /\ \A s \in Sections : mutex'[s] = mutex[s]
    BY DEF ListStays
  <2>2. PICK k \in Nat, c \in [Nat -> Sections \cup {global}] :
           Chain(c, k) /\ \A s \in Sections : NoMutex(s) \/ s \in Members(c, k)
    BY <1>1, <2>1 DEF ListInv, Walk
  <2>3. Chain(c, k)'
    BY <1>1, <2>2 DEF Chain
  <2> QED  BY <2>1, <2>2, <2>3 DEF NoMutex
<1>5. NoneLeft'
  <2> SUFFICES ASSUME stops' <= 1, list' = null
               PROVE  /\ \A s \in Sections : NoMutex(s)'
                      /\ NoMutex(global)' \/ call'[Main] \in {"init", "enter"}
    BY DEF NoneLeft
  <2> QED  BY <1>1 DEF ListInv, NoneLeft, NoMutex, ListStays
<1> QED  BY <1>2, <1>3, <1>4, <1>5 DEF ListInv

LEMMA ListBeginsKeeps ==
    ASSUME ListInv, ListBegins, stops' = stops
    PROVE  ListInv'
<1>1. /\ list = null /\ list' = global /\ next' = next /\ Linking' = {}
      /\ call'[Main] # "term" /\ global # null
  BY ListParameters DEF ListBegins
<1>2. FirstChain'
  <2> SUFFICES ASSUME stops' = 0
               PROVE  \E k \in Nat, c \in [Nat -> Sections \cup {global}] :
                         /\ Chain(c, k)'
                         /\ \A s \in Sections : s \in Members(c, k) <=> next'[s] # null /\ s \notin Linking'
    BY DEF FirstChain, Members
  <2> DEFINE c == [i \in Nat |-> global]
  <2>1. c \in [Nat -> Sections \cup {global}] /\ Chain(c, 0)'
    BY <1>1 DEF Chain
  <2>2. \A s \in Sections : s \notin Members(c, 0) /\ next'[s] = null
    BY <1>1 DEF ListInv, Unlisted, Members
  <2> HIDE DEF c
  <2>3. 0 \in Nat
    OBVIOUS
  <2> QED  BY <2>1, <2>2, <2>3
<1> QED  BY <1>1, <1>2 DEF ListInv, LinkedToHead, Unlisted, HeadDone, Popping, Walk, NoneLeft

LEMMA ListLinksKeeps ==
    ASSUME SectionInv, ListInv, NEW x \in Sections, ListLinks(x), stops' = stops
    PROVE  ListInv'
<1>1. /\ list # null /\ next[x] = null /\ list' = list /\ Linking = {} /\ Linking' = {x}
      /\ call'[Main] # "term" /\ next'[x] = list
      /\ \A y \in Sections \cup {global} : y # x => next'[y] = next[y]
  BY DEF ListLinks, SectionInv, SectionTypes
<1>2. FirstChain'
  <2> SUFFICES ASSUME stops' = 0
               PROVE  \E k \in Nat, c \in [Nat -> Sections \cup {global}] :
                         /\ Chain(c, k)'
                         /\ \A s \in Sections : s \in Members(c, k) <=> next'[s] # null /\ s \notin Linking'
    BY DEF FirstChain, Members
  <2>1. PICK k \in Nat, c \in [Nat -> Sections \cup {global}] :
           /\ Chain(c, k)
           /\ \A s \in Sections : s \in Members(c, k) <=> next[s] # null /\ s \notin Linking
    BY <1>1 DEF ListInv, FirstChain
  <2>2. \A i \in 1 .. k : c[i] \in Sections /\ c[i] # x
    BY <1>1, <2>1 DEF Chain, Members
  <2>3. Chain(c, k)'
    BY <1>1, <2>1, <2>2 DEF Chain
  <2>4. \A s \in Sections : s \in Members(c, k) <=> next'[s] # null /\ s \notin Linking'
    BY <1>1, <2>1
  <2> QED  BY <2>3, <2>4
<1> QED  BY <1>1, <1>2 DEF ListInv, LinkedToHead, Unlisted, HeadDone, Popping, Walk, NoneLeft

LEMMA ListGrowsKeeps ==
    ASSUME SectionInv, ListInv, NEW x \in Sections, ListGrows(x), stops' = stops
    PROVE  ListInv'
<1>1. /\ list # null /\ next[x] # null /\ list' = x /\ next' = next /\ Linking = {x}
      /\ Linking' = {} /\ call'[Main] # "term" /\ next[x] = list /\ x # null
  BY ListParameters DEF ListGrows, ListInv, LinkedToHead
<1>2. FirstChain'
  <2> SUFFICES ASSUME stops' = 0
               PROVE  \E k \in Nat, c \in [Nat -> Sections \cup {global}] :
                         /\ Chain(c, k)'
                         /\ \A s \in Sections : s \in Members(c, k) <=> next'[s] # null /\ s \notin Linking'
    BY DEF FirstChain, Members
  <2>1. PICK k \in Nat, c \in [Nat -> Sections \cup {global}] :
           /\ Chain(c, k)
           /\ \A s \in Sections : s \in Members(c, k) <=> next[s] # null /\ s \notin Linking
    BY <1>1 DEF ListInv, FirstChain
  <2> DEFINE d == [c EXCEPT ![k + 1] = x]
  <2>2. /\ k + 1 \in Nat /\ d \in [Nat -> Sections \cup {global}] /\ d[k + 1] = x
        /\ \A i \in 0 .. k : d[i] = c[i]
    OBVIOUS
  <2> HIDE DEF d
  <2>3. x \notin Members(c, k)
    BY <1>1, <2>1
  <2>4. \A i \in 1 .. k + 1 : i = k + 1 \/ i \in 1 .. k
    OBVIOUS
  <2>5. \A i \in 1 .. k : d[i] # x
    BY <2>2, <2>3 DEF Members
  <2>6. \A i \in 1 .. k : d[i] \in Sections /\ next[d[i]] = d[i - 1]
    BY <2>1, <2>2 DEF Chain
  <2>7. d[0] = global /\ d[k] = list
    BY <2>1, <2>2 DEF Chain
  <2>8. \A i, j \in 1 .. k : d[i] = d[j] => i = j
    BY <2>1, <2>2 DEF Chain
  <2>9. Chain(d, k + 1)'
    <3>1. \A i \in 1 .. k + 1 : d[i] \in Sections /\ next'[d[i]] = d[i - 1]
      BY <1>1, <2>2, <2>4, <2>6, <2>7
    <3>2. \A i, j \in 1 .. k + 1 : d[i] = d[j] => i = j
      BY <2>2, <2>4, <2>5, <2>8
    <3> QED  BY <1>1, <2>2, <2>7, <3>1, <3>2 DEF Chain
  <2>10. \A s \in Sections : s \in Members(d, k + 1) <=> s \in Members(c, k) \/ s = x
    BY <2>2, <2>4 DEF Members
  <2>11. \A s \in Sections : s \in Members(d, k + 1) <=> next'[s] # null /\ s \notin Linking'
    BY <1>1, <2>1, <2>10
  <2> QED  BY <2>2, <2>9, <2>11
<1> QED  BY <1>1, <1>2 DEF ListInv, LinkedToHead, Unlisted, HeadDone, Popping, Walk, NoneLeft

LEMMA HeadGoesKeeps ==
    ASSUME SectionInv, ListInv, HeadGoes, stops' = stops
    PROVE  ListInv'
<1>1. /\ list # null /\ list' = list /\ next' = next /\ Linking' = {} /\ call[Main] = "term"
      /\ list \in Sections \cup {global} /\ mutex'[list] = "deleted"
      /\ \A s \in Sections : mutex'[s] = mutex[s] \/ mutex'[s] = "deleted"
  BY DEF HeadGoes, SectionInv, SectionTypes
<1>2. stops' > 0 /\ stops' \in Nat
  BY ListParameters, <1>1 DEF SectionInv, SectionData, Stopped, SectionTypes
<1>3. Walk'
  <2> SUFFICES ASSUME stops' = 1
               PROVE  \E k \in Nat, c \in [Nat -> Sections \cup {global}] :
                         Chain(c, k)' /\ \A s \in Sections : NoMutex(s)' \/ s \in Members(c, k)
    BY DEF Walk, Members
  <2>1. PICK k \in Nat, c \in [Nat -> Sections \cup {global}] :
           Chain(c, k) /\ \A s \in Sections : NoMutex(s) \/ s \in Members(c, k)
    BY <1>1 DEF ListInv, Walk
  <2>2. Chain(c, k)'
    BY <1>1, <2>1 DEF Chain
  <2> QED  BY <1>1, <2>1, <2>2 DEF NoMutex
<1>4. FirstChain' /\ LinkedToHead' /\ Unlisted' /\ HeadDone' /\ NoneLeft'
  BY <1>1, <1>2 DEF FirstChain, LinkedToHead, Unlisted, HeadDone, NoneLeft
<1> QED  BY <1>3, <1>4 DEF ListInv

LEMMA ListShrinksKeeps ==
    ASSUME SectionInv, ListInv, ListShrinks, stops' = stops
    PROVE  ListInv'
<1>1. /\ list # null /\ list' = next[list] /\ next' = next /\ Linking' = {} /\ mutex' = mutex
      /\ call[Main] = "term" /\ mutex[list] = "deleted" /\ ~Popping'
  BY DEF ListShrinks, ListInv, HeadDone, Popping
<1>2. stops' > 0 /\ stops' \in Nat
  BY ListParameters, <1>1 DEF SectionInv, SectionData, Stopped, SectionTypes
<1>3. ASSUME stops' = 1
      PROVE  \E k \in Nat, c \in [Nat -> Sections \cup {global}] :
                Chain(c, k) /\ \A s \in Sections : NoMutex(s) \/ s \in Members(c, k)
  BY <1>1, <1>3 DEF ListInv, Walk
<1>4. ASSUME stops' = 1, list' # null
      PROVE  \E k \in Nat, c \in [Nat -> Sections \cup {global}] :
                Chain(c, k)' /\ \A s \in Sections : NoMutex(s)' \/ s \in Members(c, k)
  <2>1. PICK k \in Nat, c \in [Nat -> Sections \cup {global}] :
           Chain(c, k) /\ \A s \in Sections : NoMutex(s) \/ s \in Members(c, k)
    BY <1>3, <1>4
  <2>2. k # 0
    BY <1>1, <1>4, <2>1 DEF Chain, SectionInv, SectionData, Chained
  <2>3. k \in 1 .. k /\ k - 1 \in Nat /\ \A i \in 1 .. k : i = k \/ i \in 1 .. k - 1
    BY <2>2
  <2>4. c[k - 1] = list'
    BY <1>1, <2>1, <2>3 DEF Chain
  <2>5. Chain(c, k - 1)'
    BY <1>1, <2>1, <2>3, <2>4 DEF Chain
  <2>6. \A s \in Sections : NoMutex(s)' \/ s \in Members(c, k - 1)
    <3> TAKE s \in Sections
    <3>1. CASE s = list
      BY <1>1, <3>1 DEF NoMutex
    <3>2. CASE s # list
      <4>1. s \in Members(c, k) => s \in Members(c, k - 1)
        BY <2>1, <2>3, <3>2 DEF Members, Chain
      <4> QED  BY <1>1, <2>1, <4>1 DEF NoMutex
    <3> QED  BY <3>1, <3>2
  <2> QED  BY <2>3, <2>5, <2>6
<1>5. Walk'
  BY <1>4 DEF Walk, Members
<1>6. ASSUME stops' <= 1, list' = null
      PROVE  \A s \in Sections \cup {global} : NoMutex(s)'
  <2>1. PICK k \in Nat, c \in [Nat -> Sections \cup {global}] :
           Chain(c, k) /\ \A s \in Sections : NoMutex(s) \/ s \in Members(c, k)
    BY <1>2, <1>3, <1>6
  <2>2. k = 0
    <3> SUFFICES ASSUME k # 0 PROVE FALSE
      OBVIOUS
    <3>1. k \in 1 .. k /\ k - 1 \in Nat
      OBVIOUS
    <3>2. c[k - 1] = null
      BY <1>1, <1>6, <2>1, <3>1 DEF Chain
    <3> QED  BY <2>1, <3>1, <3>2, ListParameters DEF Chain
  <2>3. list = global /\ \A s \in Sections : NoMutex(s)
    BY <2>1, <2>2 DEF Chain, Members
  <2> QED  BY <1>1, <2>3 DEF NoMutex
<1>7. FirstChain' /\ LinkedToHead' /\ Unlisted' /\ HeadDone' /\ NoneLeft'
  BY <1>1, <1>2, <1>6 DEF FirstChain, LinkedToHead, Unlisted, HeadDone, NoneLeft
<1> QED  BY <1>5, <1>7 DEF ListInv

LEMMA ListStepKeeps ==
    ASSUME SectionInv, ListInv, ListStep, stops' = stops
    PROVE  ListInv'
BY ListStaysKeeps, ListBeginsKeeps, ListLinksKeeps, ListGrowsKeeps, HeadGoesKeeps, ListShrinksKeeps
DEF ListStep

\* Where a step leaves Linking as it is, and where it changes it.
LEMMA LinkingStays ==
    ASSUME NEW t \in Threads, SOthers(t), ~AtEnter(t, 5), ~AtEnter(t, 5)'
    PROVE  Linking' = Linking
<1>1. Prelude(copy)' = Prelude(copy)
  BY DEF SOthers, Prelude
<1>2. \A u \in Threads \ {t} : (AtEnter(u, 5)' <=> AtEnter(u, 5)) /\ dcs'[u] = dcs[u]
  BY <1>1 DEF SOthers, AtEnter
<1>3. \A s : s \in Linking' <=> s \in Linking
  BY <1>2 DEF Linking
<1> QED  BY <1>3

LEMMA LinkingAlone ==
    ASSUME GlobalHeld, NEW t \in Threads, Inner(t)
    PROVE  Linking = IF AtEnter(t, 5) THEN {dcs[t]} ELSE {}
<1>1. \A u \in Threads : AtEnter(u, 5) => u = t
  BY InnerAlone DEF Inner
<1> QED  BY <1>1 DEF Linking

LEMMA LinkingAloneNext ==
    ASSUME GlobalHeld', NEW t \in Threads, Inner(t)'
    PROVE  Linking' = IF AtEnter(t, 5)' THEN {dcs'[t]} ELSE {}
<1>1. \A u \in Threads : AtEnter(u, 5)' => u = t
  BY DEF GlobalHeld, Inner
<1> QED  BY <1>1 DEF Linking

\* Nobody is there while the list is made or taken apart.
LEMMA NoneLinking ==
    /\ SectionsQuiet /\ (list = null \/ call[Main] = "term") /\ ~AtEnter(Main, 5) => Linking = {}
    /\ SectionsQuiet' /\ (list' = null \/ call'[Main] = "term") /\ ~AtEnter(Main, 5)' => Linking' = {}
BY DEF SectionsQuiet, Linking, AtEnter

LEMMA MainAlone ==
    ASSUME SectionInv, NEW t \in Threads, call[t] # "none", list = null \/ call[Main] = "term"
    PROVE  t = Main
BY DEF SectionInv, SectionControl, SectionsQuiet

\* A step that leaves the list and the sections alone.
LEMMA AsideStays ==
    ASSUME SectionInv, NEW t \in Threads, SGoes(t), ~AtEnter(t, 5), ~AtEnter(t, 5)',
           list' = list, next' = next, mutex' = mutex \/ (GlobalMade /\ call[t] \in {"init", "enter"} /\ call'[t] = call[t]),
           t = Main => ~Popping',
           list = null /\ call[t] \in {"init", "enter"} => call'[t] = call[t]
    PROVE  ListStays
<1>1. SOthers(t) /\ call'[t] \in {call[t], "none"} /\ call[t] # "none"
  BY SGoesIs DEF SectionInv, SGoes
<1>2. Linking' = Linking
  BY <1>1, LinkingStays
<1>3. call'[Main] = call[Main] \/ (t = Main /\ call'[Main] = "none")
  BY <1>1, ListParameters DEF SOthers
<1>4. list = null \/ call[Main] = "term" => t = Main
  BY <1>1, MainAlone
<1>5. ~Popping'
  BY <1>3, <1>4 DEF Popping
<1>6. mutex' = mutex \/ (list = null => call'[Main] \in {"init", "enter"})
  BY <1>4
<1>7. \A s \in Sections : mutex'[s] = mutex[s]
  BY ListParameters DEF GlobalMade, CS!Initialise, SectionInv, SectionTypes
<1> QED  BY <1>2, <1>3, <1>4, <1>5, <1>6, <1>7 DEF ListStays

\* What the small steps do to the list.
LEMMA SmallSteps ==
    ASSUME NEW t
    PROVE  /\ AllKept \/ AttrMade \/ AttrTyped \/ InitedSet \/ InitedCleared \/ Registered
                 => list' = list /\ next' = next /\ mutex' = mutex
           /\ GlobalTaken(t) \/ GlobalLeft \/ SectionLocked(t) \/ NoMutexLocked(t) \/ SectionUnlocked(t)
                 => list' = list /\ next' = next /\ mutex' = mutex
           /\ GlobalMade => list' = list /\ next' = next
BY DEF AllKept, AttrMade, AttrTyped, InitedSet, InitedCleared, Registered, GlobalTaken, GlobalLeft,
       SectionLocked, NoMutexLocked, SectionUnlocked, GlobalMade

LEMMA GoesWhere ==
    ASSUME SectionCalls, NEW t \in Threads
    PROVE  /\ \A i : StepsTo(t, i) => call'[t] = call[t] /\ pc'[t] = i /\ dcs'[t] = dcs[t] /\ copy' = copy
           /\ Ends(t) => call'[t] = "none"
BY DEF SectionCalls, StepsTo, Ends, Shifts

\* critical_section becomes the list.
LEMMA GlobalListedBegins ==
    ASSUME SectionInv, NEW t \in Threads, SGoes(t), list = null, call[t] \in {"init", "enter"},
           ~AtEnter(t, 5), ~AtEnter(t, 5)', GlobalListed
    PROVE  ListBegins
<1>1. SOthers(t) /\ call'[t] \in {call[t], "none"} /\ call[t] # "none" /\ t = Main
  BY SGoesIs, MainAlone DEF SectionInv, SGoes
<1>2. Linking' = {}
  BY <1>1, LinkingStays, NoneLinking DEF SectionInv, SectionControl
<1> QED  BY <1>1, <1>2 DEF ListBegins, GlobalListed

LEMMA InitListStep ==
    ASSUME SectionInv, NEW t \in Threads, call[t] = "init", CS!CallStep(t)
    PROVE  ListStep
<1>1. SectionCalls /\ Beginning /\ t = Main
  BY DEF SectionInv, SectionControl, SectionArguments
<1>2. SGoes(t)
  BY <1>1, InitWin32Step, InitAttrStep, InitNoAttrStep
<1>3. /\ call'[t] \in {"init", "none"} /\ ~AtEnter(t, 5) /\ ~AtEnter(t, 5)' /\ ~Popping'
      /\ \A i : StepsTo(t, i) => call'[t] = "init"
  BY <1>1, <1>2, SGoesIs, GoesWhere DEF SectionInv, AtEnter, Popping
<1>4. CASE copy \in SectionsWin32
  <2>1. \/ list' = list /\ next' = next /\ mutex' = mutex /\ (list = null => call'[t] = "init")
        \/ list' = list /\ next' = next /\ GlobalMade /\ call'[t] = "init"
        \/ GlobalListed /\ list = null
    BY <1>1, <1>3, <1>4, InitWin32Step, SmallSteps DEF Beginning
  <2> QED  BY <1>2, <1>3, <2>1, AsideStays, GlobalListedBegins DEF ListStep
<1>5. CASE copy \in SectionsAttr
  <2>1. \/ list' = list /\ next' = next /\ mutex' = mutex /\ (list = null => call'[t] = "init")
        \/ list' = list /\ next' = next /\ GlobalMade /\ call'[t] = "init"
        \/ GlobalListed /\ list = null
    <3>1. copy \notin SectionsWin32
      BY <1>5 DEF SectionsWin32, SectionsAttr
    <3> QED  BY <1>1, <1>3, <1>5, <3>1, InitAttrStep, SmallSteps DEF Beginning
  <2> QED  BY <1>2, <1>3, <2>1, AsideStays, GlobalListedBegins DEF ListStep
<1>6. CASE copy \notin SectionsWin32 \cup SectionsAttr
  <2>1. \/ list' = list /\ next' = next /\ mutex' = mutex /\ (list = null => call'[t] = "init")
        \/ list' = list /\ next' = next /\ GlobalMade /\ call'[t] = "init"
        \/ GlobalListed /\ list = null
    BY <1>1, <1>3, <1>6, InitNoAttrStep, SmallSteps DEF Beginning
  <2> QED  BY <1>2, <1>3, <2>1, AsideStays, GlobalListedBegins DEF ListStep
<1> QED  BY <1>4, <1>5, <1>6

LEMMA TermListStep ==
    ASSUME SectionInv, NEW t \in Threads, call[t] = "term", CS!CallStep(t)
    PROVE  ListStep
<1>1. SectionCalls /\ Beginning /\ SectionsQuiet /\ t = Main
  BY DEF SectionInv, SectionControl, SectionArguments
<1>2. SGoes(t)
  BY <1>1, TermWin32Step, TermPosixStep
<1>3. SOthers(t) /\ call'[t] \in {"term", "none"} /\ ~AtEnter(t, 5) /\ ~AtEnter(t, 5)'
  BY <1>1, <1>2, SGoesIs DEF SectionInv, AtEnter
<1>4. Linking' = {}
  BY <1>1, <1>3, NoneLinking, LinkingStays
<1>5. \A i : StepsTo(t, i) => call'[t] = "term" /\ pc'[t] = i /\ copy' = copy
  BY <1>1, GoesWhere
<1>6. Ends(t) => ~Popping'
  BY <1>1, GoesWhere DEF Popping
<1>7. CASE copy \in SectionsWin32
  <2>1. \A i : StepsTo(t, i) => (Popping' <=> i = 5)
    BY <1>1, <1>5, <1>7 DEF Popping
  <2>2. \/ list' = list /\ next' = next /\ mutex' = mutex /\ ~Popping'
        \/ HeadDeleted /\ list # null
        \/ HeadPopped /\ list # null /\ pc[t] = 5 /\ ~Popping'
    BY <1>1, <1>6, <1>7, <2>1, TermWin32Step, SmallSteps DEF Beginning
  <2>3. pc[t] = 5 => Popping
    BY <1>1, <1>7 DEF Popping
  <2> QED  BY <1>1, <1>2, <1>3, <1>4, <2>2, <2>3, AsideStays
           DEF ListStep, HeadDeleted, HeadPopped, HeadGoes, ListShrinks
<1>8. CASE copy \notin SectionsWin32
  <2>1. \A i : StepsTo(t, i) => (Popping' <=> i = 4)
    BY <1>1, <1>5, <1>8 DEF Popping
  <2>2. \/ list' = list /\ next' = next /\ mutex' = mutex /\ ~Popping'
        \/ HeadDeleted /\ list # null
        \/ HeadPopped /\ list # null /\ pc[t] = 4 /\ ~Popping'
    BY <1>1, <1>6, <1>8, <2>1, TermPosixStep, SmallSteps DEF Beginning
  <2>3. pc[t] = 4 => Popping
    BY <1>1, <1>8 DEF Popping
  <2> QED  BY <1>1, <1>2, <1>3, <1>4, <2>2, <2>3, AsideStays
           DEF ListStep, HeadDeleted, HeadPopped, HeadGoes, ListShrinks
<1> QED  BY <1>7, <1>8

LEMMA EarlyListStep ==
    ASSUME SectionInv, NEW t \in Threads, call[t] = "enter", pc[t] <= Prelude(copy), CS!CallStep(t)
    PROVE  ListStep
<1>1. SectionCalls /\ Beginning /\ pc[t] \in Nat /\ pc[t] >= 1 /\ Prelude(copy) \in {0, 5, 7}
  BY DEF SectionInv, SectionControl, SectionCalls, SInCode, Prelude
<1>2. copy \notin SectionsWin32
  BY <1>1 DEF Prelude
<1>3. ~AtEnter(t, 5)
  BY <1>1 DEF AtEnter
<1>4. pc[t] > 1 /\ pc[t] < Prelude(copy) => list = null
  BY <1>1 DEF Beginning, Early
<1>5. CASE copy \in SectionsAttr
  <2>1. Prelude(copy) = 7
    BY <1>2, <1>5 DEF Prelude
  <2>2. \A i : StepsTo(t, i) /\ i <= 8 => call'[t] = "enter" /\ ~AtEnter(t, 5)' /\ ~(t = Main /\ Popping')
    BY <1>1, <2>1, GoesWhere DEF AtEnter, Prelude, Popping
  <2>3. SGoes(t) /\ call'[t] = "enter" /\ ~AtEnter(t, 5)' /\ ~(t = Main /\ Popping')
    BY <1>1, <1>5, <2>1, <2>2, EarlyAttrStep
  <2>4. \/ list' = list /\ next' = next /\ mutex' = mutex
        \/ list' = list /\ next' = next /\ GlobalMade
        \/ GlobalListed /\ list = null
    BY <1>1, <1>4, <1>5, <2>1, EarlyAttrStep, SmallSteps
  <2> QED  BY <1>3, <2>3, <2>4, AsideStays, GlobalListedBegins DEF ListStep
<1>6. CASE copy \notin SectionsAttr
  <2>1. Prelude(copy) = 5
    BY <1>2, <1>6 DEF Prelude
  <2>2. \A i : StepsTo(t, i) /\ i <= 6 => call'[t] = "enter" /\ ~AtEnter(t, 5)' /\ ~(t = Main /\ Popping')
    BY <1>1, <2>1, GoesWhere DEF AtEnter, Prelude, Popping
  <2>3. SGoes(t) /\ call'[t] = "enter" /\ ~AtEnter(t, 5)' /\ ~(t = Main /\ Popping')
    BY <1>1, <1>2, <1>6, <2>1, <2>2, EarlyNoAttrStep
  <2>4. \/ list' = list /\ next' = next /\ mutex' = mutex
        \/ list' = list /\ next' = next /\ GlobalMade
        \/ GlobalListed /\ list = null
    BY <1>1, <1>2, <1>4, <1>6, <2>1, EarlyNoAttrStep, SmallSteps
  <2> QED  BY <1>3, <2>3, <2>4, AsideStays, GlobalListedBegins DEF ListStep
<1> QED  BY <1>5, <1>6

LEMMA CommonListStep ==
    ASSUME SectionInv, SectionInv', NEW t \in Threads, call[t] = "enter", ~(pc[t] <= Prelude(copy)),
           CS!CallStep(t)
    PROVE  ListStep
<1> DEFINE k == Prelude(copy)
<1>1. SectionCalls /\ GlobalHeld /\ GlobalHeld' /\ pc[t] \in Nat /\ k \in {0, 5, 7}
  BY DEF SectionInv, SectionControl, SectionCalls, Prelude
<1>2. SGoes(t) /\ SOthers(t) /\ call'[t] \in {"enter", "none"} /\ Prelude(copy)' = k
  BY <1>1, CommonStep, SGoesIs, SOthersStay DEF SectionInv
<1>3. list # null /\ call[Main] # "term" /\ call'[Main] # "term" /\ ~Popping'
  <2>1. list # null /\ call[Main] # "term"
    <3>1. ~Early(t) /\ call[t] \notin {"none", "init", "term"}
      BY <1>1 DEF Early
    <3> QED  BY <3>1, MainAlone DEF SectionInv, SectionControl, SectionsQuiet
  <2>2. call'[Main] # "term"
    BY <1>2, <2>1, ListParameters DEF SOthers
  <2> QED  BY <2>1, <2>2 DEF Popping
<1>4. dcs[t] \in Sections
  BY DEF SectionInv, SectionControl, SectionArguments
<1>5. \A n \in 1 .. 8 : pc[t] = k + n => \A m \in 1 .. 8 : AtEnter(t, m) <=> m = n
  BY <1>1 DEF AtEnter
<1>6. \A n \in 1 .. 8 : StepsTo(t, k + n) => /\ \A m \in 1 .. 8 : AtEnter(t, m)' <=> m = n
                                             /\ dcs'[t] = dcs[t]
  BY <1>1, <1>2, GoesWhere DEF AtEnter
<1>7. Ends(t) => ~AtEnter(t, 5)'
  BY <1>1, GoesWhere DEF AtEnter
<1> HIDE DEF k
<1>8. CASE pc[t] = k + 4
  <2>1. NextSet(t) /\ StepsTo(t, k + 5)
    BY <1>1, <1>8, CommonStep DEF k
  <2>2. AtEnter(t, 4) /\ ~AtEnter(t, 5) /\ AtEnter(t, 5)' /\ dcs'[t] = dcs[t]
    BY <1>5, <1>6, <1>8, <2>1
  <2>3. next[dcs[t]] = null
    BY <2>2 DEF New, SectionInv, SectionData, NextKnown
  <2>4. Linking = {} /\ Linking' = {dcs[t]}
    BY <1>1, <2>2, LinkingAlone, LinkingAloneNext DEF Inner
  <2>5. ListLinks(dcs[t])
    BY <1>3, <2>1, <2>3, <2>4 DEF ListLinks, NextSet
  <2> QED  BY <1>4, <2>5 DEF ListStep
<1>9. CASE pc[t] = k + 5
  <2>1. SectionListed(t) /\ StepsTo(t, k + 6)
    BY <1>1, <1>9, CommonStep DEF k
  <2>2. AtEnter(t, 5) /\ AtEnter(t, 6)' /\ ~AtEnter(t, 5)'
    BY <1>5, <1>6, <1>9, <2>1
  <2>3. next[dcs[t]] # null
    BY <2>2 DEF Listed, SectionInv, SectionData, NextKnown
  <2>4. Linking = {dcs[t]} /\ Linking' = {}
    BY <1>1, <2>2, LinkingAlone, LinkingAloneNext DEF Inner
  <2>5. ListGrows(dcs[t])
    BY <1>3, <2>1, <2>3, <2>4 DEF ListGrows, SectionListed
  <2> QED  BY <1>4, <2>5 DEF ListStep
<1>10. CASE pc[t] # k + 4 /\ pc[t] # k + 5
  <2>1. ~AtEnter(t, 5) /\ ~AtEnter(t, 5)' /\ list' = list /\ next' = next
    <3>1. ~AtEnter(t, 5) /\ ~AtEnter(t, 5)'
      BY <1>1, <1>5, <1>6, <1>7, <1>10, CommonStep DEF k, AtEnter
    <3>2. \/ AllKept \/ GlobalTaken(t) \/ SectionMade(t) \/ GlobalLeft
          \/ SectionLocked(t) \/ NoMutexLocked(t)
      BY <1>1, <1>10, CommonStep DEF k
    <3> QED  BY <3>1, <3>2, SmallSteps DEF SectionMade
  <2>2. Linking' = Linking
    BY <1>2, <2>1, LinkingStays
  <2>3. ListStays
    BY <1>3, <2>1, <2>2 DEF ListStays
  <2> QED  BY <2>3 DEF ListStep
<1> QED  BY <1>8, <1>9, <1>10

LEMMA ExitListStep ==
    ASSUME SectionInv, NEW t \in Threads, call[t] = "exit", CS!CallStep(t)
    PROVE  ListStep
<1>1. SGoes(t) /\ SectionUnlocked(t) /\ Ends(t)
  BY ExitStep DEF SectionInv
<1>2. call'[t] = "none"
  BY <1>1, GoesWhere DEF SectionInv
<1>3. ~AtEnter(t, 5) /\ ~AtEnter(t, 5)' /\ (t = Main => ~Popping')
  BY <1>2 DEF AtEnter, Popping
<1> QED  BY <1>1, <1>3, SmallSteps, AsideStays DEF ListStep

LEMMA IsListStep ==
    ASSUME SectionInv, SectionInv', NEW t \in Threads, CS!CallStep(t)
    PROVE  ListStep /\ stops' = stops
<1>1. call[t] \in {"init", "term", "enter", "exit"} /\ SectionCalls
  BY SectionMoves DEF SectionInv, SectionCalls
<1>2. ListStep
  BY <1>1, InitListStep, TermListStep, EarlyListStep, CommonListStep, ExitListStep
<1>3. stops' = stops
  BY DEF CS!CallStep, CS!Test, CS!Tests, CS!Does, CS!Goes, CS!life, CS!SetInited, CS!SetAttr,
         CS!Register, CS!InitGlobal, CS!InitSection, CS!SetList, CS!SetNext, CS!DeleteHead,
         CS!LockGlobal, CS!UnlockGlobal, CS!LockSection, CS!LockNoMutex, CS!UnlockSection
<1> QED  BY <1>2, <1>3

LEMMA ListCallKeeps ==
    ASSUME SectionInv, ListInv, NEW t \in Threads, NEW f \in {"init", "enter", "exit"}, NEW s,
           CS!Calls(t, f, s), stops' = stops,
           f = "init" => t = Main,
           f = "enter" => (list # null \/ t = Main) /\ call[Main] # "term",
           f = "exit" => s \in Sections /\ inside[t][s] > 0
    PROVE  ListInv'
<1>1. /\ SectionCalls /\ SectionArguments /\ SectionsQuiet
  BY DEF SectionInv, SectionControl
<1>2. /\ call[t] = "none" /\ copy' = copy /\ pc' = pc /\ pc[t] = 1
      /\ list' = list /\ next' = next /\ mutex' = mutex
      /\ call' = [call EXCEPT ![t] = f] /\ dcs' = [dcs EXCEPT ![t] = s]
  BY <1>1 DEF CS!Calls, CS!Idle, CS!statics, SectionArguments
<1>3. SOthers(t) /\ call'[t] = f /\ pc'[t] = 1
  BY <1>1, <1>2 DEF SOthers, SectionCalls
<1>4. ~AtEnter(t, 5) /\ ~AtEnter(t, 5)'
  BY <1>2, <1>3 DEF AtEnter, Prelude
<1>5. f = "exit" => list # null /\ call[Main] # "term"
  <2>1. s \in Sections /\ inside[t][s] > 0 => inside[t][s] # 0
    BY DEF SectionInv, SectionTypes
  <2> QED  BY <1>1, <2>1 DEF SectionsQuiet
<1>6. call'[Main] # "term"
  BY <1>3, <1>5, ListParameters DEF SOthers
<1>7. list = null => call'[Main] \in {"init", "enter"}
  BY <1>3, <1>5
<1>8. ListStays
  BY <1>2, <1>3, <1>4, <1>6, <1>7, LinkingStays DEF ListStays, Popping
<1> QED  BY <1>8, ListStaysKeeps

\* The walk begins with the list as it was when the program ran.
LEMMA ListStopKeeps ==
    ASSUME SectionInv, ListInv, NEW t \in Threads, CS!Stop(t)
    PROVE  ListInv'
<1>1. /\ SectionCalls /\ SectionArguments /\ MutexKnown /\ stops \in Nat
  BY ListParameters DEF SectionInv, SectionControl, SectionData, SectionTypes
<1>2. /\ t = Main /\ stops' = stops + 1 /\ \A u \in Threads : call[u] = "none"
      /\ copy' = copy /\ pc' = pc /\ pc[t] = 1
      /\ list' = list /\ next' = next /\ mutex' = mutex
      /\ call' = [call EXCEPT ![t] = "term"]
  BY <1>1 DEF CS!Stop, CS!Calls, CS!Idle, CS!statics, SectionArguments
<1>3. call'[Main] = "term" /\ pc'[Main] = 1 /\ \A u \in Threads : call'[u] \in {"none", "term"}
  BY <1>1, <1>2 DEF SectionCalls
<1>4. ~Popping' /\ Linking = {} /\ Linking' = {}
  BY <1>2, <1>3 DEF Popping, Linking, AtEnter
<1>5. \A s \in Sections : next[s] = null => NoMutex(s)
  BY <1>1 DEF MutexKnown, NoMutex
<1>6. Walk'
  <2> SUFFICES ASSUME stops' = 1, list' # null
               PROVE  \E k \in Nat, c \in [Nat -> Sections \cup {global}] :
                         Chain(c, k)' /\ \A s \in Sections : NoMutex(s)' \/ s \in Members(c, k)
    BY DEF Walk, Members
  <2>1. stops = 0 /\ list # null
    BY <1>1, <1>2
  <2>2. PICK k \in Nat, c \in [Nat -> Sections \cup {global}] :
           /\ Chain(c, k)
           /\ \A s \in Sections : s \in Members(c, k) <=> next[s] # null /\ s \notin Linking
    BY <2>1 DEF ListInv, FirstChain
  <2>3. Chain(c, k)'
    BY <1>2, <2>2 DEF Chain
  <2>4. \A s \in Sections : NoMutex(s)' \/ s \in Members(c, k)
    BY <1>2, <1>4, <1>5, <2>2 DEF NoMutex
  <2> QED  BY <2>3, <2>4
<1>7. NoneLeft'
  <2> SUFFICES ASSUME stops' <= 1, list' = null
               PROVE  /\ \A s \in Sections : NoMutex(s)'
                      /\ NoMutex(global)' \/ call'[Main] \in {"init", "enter"}
    BY DEF NoneLeft
  <2>1. stops <= 1 /\ list = null /\ call[Main] = "none"
    BY <1>1, <1>2
  <2> QED  BY <1>2, <2>1 DEF ListInv, NoneLeft, NoMutex
<1>8. stops' # 0
  BY <1>1, <1>2
<1> QED  BY <1>4, <1>6, <1>7, <1>8 DEF ListInv, FirstChain, LinkedToHead, Unlisted, HeadDone

LEMMA ListStarts ==
    ASSUME CS!Init
    PROVE  ListInv
<1>1. /\ call = [t \in Threads |-> "none"] /\ list = null /\ Main \in Threads
      /\ next = [x \in Sections \cup {global} |-> null]
      /\ mutex = [x \in Sections \cup {global} |-> "raw"] /\ stops = 0
  BY ListParameters DEF CS!Init, CS!Mutexes
<1>2. Linking = {} /\ ~Popping /\ \A x \in Sections \cup {global} : NoMutex(x) /\ next[x] = null
  BY <1>1 DEF Linking, AtEnter, Popping, NoMutex
<1> QED  BY <1>1, <1>2 DEF ListInv, FirstChain, LinkedToHead, Unlisted, HeadDone, Walk, NoneLeft

LEMMA ListStutters ==
    ASSUME ListInv, UNCHANGED sectionVars
    PROVE  ListInv'
<1>1. UNCHANGED <<copy, call, pc, dcs, list, next, mutex, stops>>
  BY DEF sectionVars
<1>2. Linking' = Linking /\ (Popping' <=> Popping)
  BY <1>1 DEF Linking, AtEnter, Prelude, Popping
<1> QED  BY <1>1, <1>2
         DEF ListInv, FirstChain, LinkedToHead, Unlisted, HeadDone, Walk, NoneLeft, Chain, Members, NoMutex

LEMMA ListInvIsInductive ==
    /\ Init => ListInv
    /\ SectionInv /\ ListInv /\ [Next]_vars => ListInv'
<1>1. Init => ListInv
  BY ListStarts DEF Init
<1>2. ASSUME ListInv, UNCHANGED vars PROVE ListInv'
  BY <1>2, ListStutters DEF vars
<1>3. ASSUME SectionInv, ListInv, NEW t \in Threads, SectionStep(t) PROVE ListInv'
  <2>1. CS!CallStep(t) /\ SectionInv'
    BY <1>3, SectionStepKeeps DEF SectionStep
  <2> QED  BY <1>3, <2>1, IsListStep, ListStepKeeps
<1>4. ASSUME SectionInv, ListInv, NEW t \in Threads, UseSection(t) PROVE ListInv'
  <2>1. PICK s \in Sections : CS!EnterSection(t, s) \/ CS!ExitSection(t, s)
    BY <1>4 DEF UseSection
  <2>2. CASE CS!EnterSection(t, s)
    BY <1>4, <2>2, ListCallKeeps DEF CS!EnterSection, CS!life
  <2>3. CASE CS!ExitSection(t, s)
    BY <1>4, <2>3, ListCallKeeps DEF CS!ExitSection, CS!life
  <2> QED  BY <2>1, <2>2, <2>3
<1>5. ASSUME ListInv, NEW t \in Threads, MonitorStep(t) \/ UseObject(t) PROVE ListInv'
  BY <1>5, ListStutters DEF MonitorStep, UseObject
<1>6. ASSUME SectionInv, ListInv, NEW t \in Threads, Start(t) PROVE ListInv'
  <2>1. CASE UNCHANGED sectionVars
    BY <1>6, <2>1, ListStutters
  <2>2. CASE CS!Start(t)
    BY <1>6, <2>2, ListCallKeeps DEF CS!Start
  <2> QED  BY <1>6, <2>1, <2>2 DEF Start
<1>7. ASSUME SectionInv, ListInv, NEW t \in Threads, Stop(t) PROVE ListInv'
  BY <1>7, ListStopKeeps, ListStutters DEF Stop
<1> QED  BY <1>1, <1>2, <1>3, <1>4, <1>5, <1>6, <1>7 DEF Next

\* The list of critical.c is a chain from its head to critical_section without a section
\* twice, before the first shutdown through every section in use and during it through
\* every section that has a mutex still, whichever copy the program is linked with.
THEOREM ListInvAlways == Spec => []ListInv
<1>1. Init => SectionInv /\ ListInv
  BY SectionInvIsInductive, ListInvIsInductive
<1>2. SectionInv /\ ListInv /\ [Next]_vars => (SectionInv /\ ListInv)'
  BY SectionInvIsInductive, ListInvIsInductive
<1>3. SectionInv /\ ListInv => ListInv
  OBVIOUS
<1> QED  BY <1>1, <1>2, <1>3, PTL DEF Spec

-----------------------------------------------------------------------------
(* Where the list leads                                                    *)

\* Who is about to set the list is at that step of the common part.
LEMMA SetListIsAt ==
    ASSUME SectionInv, NEW t \in Threads
    PROVE  CS!AtStep(t, "set list") <=> AtEnter(t, 5)
<1>1. SectionCalls
  BY DEF SectionInv
<1>2. AtEnter(t, 5) => CS!AtStep(t, "set list")
  <2>1. 5 \in 1 .. 8
    OBVIOUS
  <2>2. AtEnter(t, 5) => ~CS!Idle(t) /\ CS!Step(t).do = "set list"
    BY <2>1, EnterRunsAt, Zenon
  <2> QED  BY <2>2, Zenon DEF CS!AtStep
<1>3. ASSUME CS!AtStep(t, "set list") PROVE AtEnter(t, 5)
  <2> DEFINE b == CS!Body(t)
  <2>1. ~CS!Idle(t) /\ CS!Step(t).do = "set list"
    BY <1>3, Zenon DEF CS!AtStep
  <2>2. call[t] \in {"init", "term", "enter", "exit"} /\ pc[t] \in Nat /\ pc[t] \in 1 .. Len(b)
    <3>1. ~CS!Idle(t)
      BY <2>1, Zenon
    <3> QED  BY <1>1, <3>1 DEF CS!Idle, SectionCalls, SInCode
  <2>3. \A n, w, j : Entry(b, n, w, j) /\ w # "set list" => pc[t] # n
    <3>1. ASSUME NEW w, NEW j, Entry(b, pc[t], w, j) PROVE w = "set list"
      <4>1. CS!Step(t).do = w
        BY <3>1, SectionEntry, Zenon
      <4> QED  BY <2>1, <4>1, Zenon
    <3> QED  BY <3>1, Zenon
  <2> HIDE DEF b
  <2>4. /\ copy \in SectionsWin32 \cup SectionsAttr \cup {"GdcAlreadyRecursive"}
        /\ call[t] = "init" => b = SectionInit(copy)
        /\ call[t] = "term" => b = SectionTerm(copy)
        /\ call[t] = "exit" => Len(b) = 1
        /\ call[t] = "exit" => Entry(b, 1, "unlock section", 0)
    BY <1>1, SectionBody, Zenon DEF b
  <2>5. call[t] = "init" => b = CS!Init32 \/ b = CS!InitAttr \/ b = CS!InitNoAttr
    BY <2>4, Zenon DEF SectionInit
  <2>6. call[t] = "term" => b = CS!Term32 \/ b = CS!TermPosix
    BY <2>4, Zenon DEF SectionTerm
  <2>7. b # CS!Init32
    <3> SUFFICES ASSUME b = CS!Init32 PROVE FALSE
      OBVIOUS
    <3>1. Len(b) = 4 /\ pc[t] # 1 /\ pc[t] # 2 /\ pc[t] # 3 /\ pc[t] # 4
      BY <2>3, SectionInitSteps, Zenon
    <3> QED  BY <2>2, <3>1
  <2>8. b # CS!InitAttr
    <3> SUFFICES ASSUME b = CS!InitAttr PROVE FALSE
      OBVIOUS
    <3>1. Len(b) = 5 /\ pc[t] # 1 /\ pc[t] # 2 /\ pc[t] # 3 /\ pc[t] # 4 /\ pc[t] # 5
      BY <2>3, SectionInitSteps, Zenon
    <3> QED  BY <2>2, <3>1
  <2>9. b # CS!InitNoAttr
    <3> SUFFICES ASSUME b = CS!InitNoAttr PROVE FALSE
      OBVIOUS
    <3>1. Len(b) = 3 /\ pc[t] # 1 /\ pc[t] # 2 /\ pc[t] # 3
      BY <2>3, SectionInitSteps, Zenon
    <3> QED  BY <2>2, <3>1
  <2>10. b # CS!Term32
    <3> SUFFICES ASSUME b = CS!Term32 PROVE FALSE
      OBVIOUS
    <3>1. Len(b) = 5 /\ pc[t] # 1 /\ pc[t] # 2 /\ pc[t] # 3 /\ pc[t] # 4 /\ pc[t] # 5
      BY <2>3, SectionTermSteps, Zenon
    <3> QED  BY <2>2, <3>1
  <2>11. b # CS!TermPosix
    <3> SUFFICES ASSUME b = CS!TermPosix PROVE FALSE
      OBVIOUS
    <3>1. Len(b) = 4 /\ pc[t] # 1 /\ pc[t] # 2 /\ pc[t] # 3 /\ pc[t] # 4
      BY <2>3, SectionTermSteps, Zenon
    <3> QED  BY <2>2, <3>1
  <2>12. call[t] # "exit"
    <3> SUFFICES ASSUME call[t] = "exit" PROVE FALSE
      OBVIOUS
    <3>1. Len(b) = 1 /\ pc[t] # 1
      BY <2>3, <2>4, Zenon
    <3> QED  BY <2>2, <3>1
  <2>13. call[t] = "enter"
    BY <2>2, <2>5, <2>6, <2>7, <2>8, <2>9, <2>10, <2>11, <2>12
  <2>14. PICK k : k = Prelude(copy)
    OBVIOUS
  <2>15. k \in {0, 5, 7} /\ Len(b) = k + 8
    BY <1>1, <2>13, <2>14, EnterBody DEF b
  <2>16. Common(b, k, SectionStart(copy))
    BY <1>1, <2>13, <2>14, EnterBody DEF b
  <2>17. ~(pc[t] <= k)
    <3>1. CASE k = 0
      BY <2>2, <3>1
    <3>2. CASE k = 7
      <4>1. copy \in SectionsAttr
        BY <2>14, <3>2 DEF Prelude
      <4>2. /\ Entry(b, 1, "no list", 6) /\ Entry(b, 2, "no list", 4)
            /\ Entry(b, 3, "init attr", 0) /\ Entry(b, 4, "set type of attr", 0)
            /\ Entry(b, 5, "init global", 0) /\ Entry(b, 6, "list global", 0)
            /\ Entry(b, 7, "atexit", 0)
        BY <1>1, <2>13, <4>1, EarlyAttrBody, Zenon DEF b
      <4>3. pc[t] # 1 /\ pc[t] # 2 /\ pc[t] # 3 /\ pc[t] # 4 /\ pc[t] # 5 /\ pc[t] # 6 /\ pc[t] # 7
        BY <2>3, <4>2, Zenon
      <4> QED  BY <2>2, <3>2, <4>3
    <3>3. CASE k = 5
      <4>1. copy \notin SectionsWin32 \cup SectionsAttr
        BY <2>14, <3>3 DEF Prelude
      <4>2. /\ Entry(b, 1, "no list", 4) /\ Entry(b, 2, "no list", 2)
            /\ Entry(b, 3, "init global", 0) /\ Entry(b, 4, "list global", 0)
            /\ Entry(b, 5, "atexit", 0)
        BY <1>1, <2>13, <4>1, EarlyNoAttrBody, Zenon DEF b
      <4>3. pc[t] # 1 /\ pc[t] # 2 /\ pc[t] # 3 /\ pc[t] # 4 /\ pc[t] # 5
        BY <2>3, <4>2, Zenon
      <4> QED  BY <2>2, <3>3, <4>3
    <3> QED  BY <2>15, <3>1, <3>2, <3>3
  <2>18. SectionStart(copy) # "set list"
    <3>1. SectionStart(copy) = "init section of attr" \/ SectionStart(copy) = "init section"
      BY Zenon DEF SectionStart
    <3> QED  BY <3>1, Zenon
  <2>19. /\ pc[t] # k + 1 /\ pc[t] # k + 2 /\ pc[t] # k + 3 /\ pc[t] # k + 4
         /\ pc[t] # k + 6 /\ pc[t] # k + 7 /\ pc[t] # k + 8
    BY <2>3, <2>16, <2>18, Zenon DEF Common
  <2>20. ASSUME NEW p \in Nat, NEW n, n \in {0, 5, 7}, p <= n + 8, ~(p <= n),
                p # n + 1, p # n + 2, p # n + 3, p # n + 4, p # n + 6, p # n + 7, p # n + 8
         PROVE  p = n + 5
    BY <2>20
  <2>21. pc[t] = k + 5
    BY <2>2, <2>15, <2>17, <2>19, <2>20
  <2> QED  BY <2>13, <2>14, <2>21 DEF AtEnter
<1> QED  BY <1>2, <1>3, Zenon

LEMMA InListIsLed == CS!InList = CHOOSE g : g = [n \in Nat |-> Led(g, n)]
BY DEF CS!InList, Led

\* What LedThrough says of one number follows from what it says of the number below.
LEMMA LedOn ==
    ASSUME SectionInv, NEW k, NEW c, Chain(c, k), NEW n \in Nat
    PROVE  LedThrough(c, k, n + 1) =
              LedThrough(c, k, n) \cup {next[x] : x \in LedThrough(c, k, n) \ {null}}
<1>1. /\ k \in Nat /\ c[0] = global /\ next[global] = null
      /\ \A i \in 0 .. k : c[i] # null
      /\ \A i \in 1 .. k : next[c[i]] = c[i - 1]
  BY ListParameters DEF Chain, SectionInv, SectionData, Chained
<1>2. CASE n + 1 <= k
  <2>1. LedThrough(c, k, n) = {c[i] : i \in k - n .. k}
    BY <1>1, <1>2 DEF LedThrough
  <2>2. LedThrough(c, k, n + 1) = {c[i] : i \in k - (n + 1) .. k}
    BY <1>2 DEF LedThrough
  <2>3. \A i \in k - n .. k : i \in 1 .. k /\ i \in 0 .. k /\ i - 1 \in k - (n + 1) .. k /\ i \in k - (n + 1) .. k
    BY <1>1, <1>2
  <2>4. \A i \in k - (n + 1) .. k : i \in k - n .. k \/ (i + 1 \in k - n .. k /\ (i + 1) - 1 = i)
    BY <1>1, <1>2
  <2>5. {next[x] : x \in LedThrough(c, k, n) \ {null}} = {c[i - 1] : i \in k - n .. k}
    BY <1>1, <2>1, <2>3
  <2>6. {c[i] : i \in k - (n + 1) .. k} = {c[i] : i \in k - n .. k} \cup {c[i - 1] : i \in k - n .. k}
    BY <2>3, <2>4
  <2> QED  BY <2>1, <2>2, <2>5, <2>6
<1>3. CASE ~(n + 1 <= k)
  <2>1. LedThrough(c, k, n + 1) = {c[i] : i \in 0 .. k} \cup {null}
    BY <1>3 DEF LedThrough
  <2>2. LedThrough(c, k, n) \ {null} = {c[i] : i \in 0 .. k}
    <3>1. CASE n <= k
      <4>1. k - n = 0
        BY <1>1, <1>3, <3>1
      <4> QED  BY <1>1, <3>1, <4>1 DEF LedThrough
    <3>2. CASE ~(n <= k)
      BY <1>1, <3>2 DEF LedThrough
    <3> QED  BY <3>1, <3>2
  <2>3. 0 \in 0 .. k /\ \A i \in 0 .. k : i = 0 \/ (i \in 1 .. k /\ i - 1 \in 0 .. k)
    BY <1>1
  <2>4. \A i \in 0 .. k : next[c[i]] \in {c[j] : j \in 0 .. k} \cup {null}
    BY <1>1, <2>3
  <2>5. null \in {next[x] : x \in LedThrough(c, k, n) \ {null}}
    BY <1>1, <2>2, <2>3
  <2>6. LedThrough(c, k, n) \subseteq {c[i] : i \in 0 .. k} \cup {null}
    BY <2>2
  <2> QED  BY <2>1, <2>2, <2>4, <2>5, <2>6
<1> QED  BY <1>2, <1>3

\* A set of numbers that is not empty has a least one.
LEMMA Least ==
    ASSUME NEW T \in SUBSET Nat, T # {}
    PROVE  \E x \in T : \A y \in T : x <= y
<1> DEFINE R == {p \in Nat \X Nat : p[1] < p[2]}
<1>1. IsWellFoundedOn(R, Nat)
  BY NatLessThanWellFounded, Zenon DEF OpToRel
<1>2. \E x \in T : \A y \in T : ~ (<<y, x>> \in R)
  <2> HIDE DEF R
  <2> QED BY <1>1, WFMin, Zenon
<1>3. PICK x \in T : \A y \in T : ~ (<<y, x>> \in R)
  BY <1>2
<1>4. ASSUME NEW y \in T PROVE x <= y
  <2>1. x \in Nat /\ y \in Nat /\ ~ (<<y, x>> \in R)
    BY <1>3
  <2>2. ~ (y < x)
    BY <2>1
  <2> QED  BY <2>1, <2>2
<1> QED  BY <1>4

\* What is so of 0, and with a number below n of the next, is so up to n.
LEMMA UpTo ==
    ASSUME NEW n \in Nat, NEW T,
           0 \in T, \A k \in 0 .. n - 1 : k \in T => k + 1 \in T
    PROVE  \A k \in 0 .. n : k \in T
<1> DEFINE bad == {k \in 0 .. n : k \notin T}
<1> SUFFICES ASSUME bad # {} PROVE FALSE
  OBVIOUS
<1>1. PICK x \in bad : \A y \in bad : x <= y
  <2>1. bad \in SUBSET Nat
    OBVIOUS
  <2> QED  BY <2>1, Least
<1>2. x \in 0 .. n /\ x \notin T /\ x # 0
  OBVIOUS
<1>3. x - 1 \in 0 .. n - 1 /\ (x - 1) + 1 = x /\ ~ (x <= x - 1)
  BY <1>2
<1>4. x - 1 \in T
  BY <1>1, <1>3
<1> QED  BY <1>2, <1>3, <1>4
\* A chain is not longer than there are sections.
LEMMA ChainEnds ==
    ASSUME IsFiniteSet(Sections), NEW c, NEW k, Chain(c, k)
    PROVE  Cardinality(Sections) \in Nat /\ k <= Cardinality(Sections)
<1> DEFINE f == [i \in 1 .. k |-> c[i]]
<1>1. k \in Nat /\ f \in Injection(1 .. k, Sections)
  <2>1. k \in Nat /\ \A i \in 1 .. k : f[i] = c[i] /\ c[i] \in Sections
    BY DEF Chain
  <2>2. f \in [1 .. k -> Sections]
    BY <2>1
  <2>3. \A i, j \in 1 .. k : f[i] = f[j] => i = j
    BY <2>1 DEF Chain
  <2> HIDE DEF f
  <2> QED  BY <2>1, <2>2, <2>3 DEF Injection, IsInjective
<1>2. Cardinality(1 .. k) = k
  BY <1>1, FS_Interval
<1> HIDE DEF f
<1>3. Cardinality(Sections) \in Nat /\ Cardinality(1 .. k) <= Cardinality(Sections)
  BY <1>1, FS_Injection, FS_CardinalityType
<1> QED  BY <1>2, <1>3

LEMMA InListIsThrough ==
    ASSUME SectionInv, NEW c, NEW k, Chain(c, k), NEW n \in Nat
    PROVE  CS!InList[n] = LedThrough(c, k, n)
<1> DEFINE IsLed(g) == g = [m \in Nat |-> Led(g, m)]
           f == [m \in Nat |-> LedThrough(c, k, m)]
           g == CHOOSE h : IsLed(h)
<1>1. LedThrough(c, k, 0) = {list}
  <2>1. k \in Nat /\ c[k] = list
    BY DEF Chain
  <2>2. k - 0 .. k = {k} /\ 0 <= k
    BY <2>1
  <2> QED  BY <2>1, <2>2 DEF LedThrough
<1>2. \A m \in Nat : f[m] = LedThrough(c, k, m)
  OBVIOUS
<1>3. IsLed(f)
  <2>1. ASSUME NEW m \in Nat PROVE LedThrough(c, k, m) = Led(f, m)
    <3>1. CASE m = 0
      BY <1>1, <3>1 DEF Led
    <3>2. CASE m # 0
      <4>1. m - 1 \in Nat /\ (m - 1) + 1 = m
        BY <3>2
      <4>2. f[m - 1] = LedThrough(c, k, m - 1)
        BY <1>2, <4>1
      <4>3. LedThrough(c, k, m) =
               LedThrough(c, k, m - 1) \cup {next[x] : x \in LedThrough(c, k, m - 1) \ {null}}
        BY <4>1, LedOn
      <4> QED  BY <3>2, <4>2, <4>3 DEF Led
    <3> QED  BY <3>1, <3>2
  <2> QED  BY <2>1
<1> HIDE DEF f
<1>4. IsLed(g)
  <2> HIDE DEF IsLed
  <2> QED  BY <1>3
<1>5. CS!InList = g
  BY InListIsLed
<1> HIDE DEF g
<1>6. \A m \in Nat : g[m] = Led(g, m)
  BY <1>4
<1> DEFINE T == {m \in Nat : g[m] = LedThrough(c, k, m)}
<1>7. 0 \in T
  BY <1>1, <1>6 DEF Led
<1>8. ASSUME NEW m \in Nat, m \in T PROVE m + 1 \in T
  <2>1. m + 1 \in Nat /\ m + 1 # 0 /\ (m + 1) - 1 = m /\ g[m] = LedThrough(c, k, m)
    BY <1>8
  <2>2. g[m + 1] = g[m] \cup {next[x] : x \in g[m] \ {null}}
    BY <1>6, <2>1 DEF Led
  <2>3. LedThrough(c, k, m + 1) =
           LedThrough(c, k, m) \cup {next[x] : x \in LedThrough(c, k, m) \ {null}}
    BY LedOn
  <2>4. g[m + 1] = LedThrough(c, k, m + 1)
    BY <2>1, <2>2, <2>3, Zenon
  <2> QED  BY <2>1, <2>4
<1> HIDE DEF T
<1>9. n \in T
  <2>1. \A m \in 0 .. n - 1 : m \in T => m + 1 \in T
    BY <1>8
  <2>2. \A m \in 0 .. n : m \in T
    BY <1>7, <2>1, UpTo
  <2> QED  BY <2>2
<1> QED  BY <1>5, <1>9 DEF T

LEMMA WholeFollows ==
    ASSUME IsFiniteSet(Sections), SectionInv, ListInv
    PROVE  CS!ListWhole
<1> DEFINE at5 == {u \in Threads : CS!AtStep(u, "set list")}
           used == {s \in Sections : next[s] # null}
           new == {dcs[t] : t \in at5}
           N == Cardinality(Sections) + 1
<1>1. at5 = {u \in Threads : AtEnter(u, 5)}
  BY SetListIsAt, Zenon
<1> HIDE DEF at5
<1>2. new = Linking
  BY <1>1 DEF Linking
<1> HIDE DEF new
<1>3. ASSUME stops = 0, list # null
      PROVE  CS!InList[N] = (used \ new) \cup {global, null}
  <2>1. PICK k \in Nat, c \in [Nat -> Sections \cup {global}] :
           /\ Chain(c, k)
           /\ \A s \in Sections : s \in Members(c, k) <=> next[s] # null /\ s \notin Linking
    BY <1>3 DEF ListInv, FirstChain
  <2>2. N \in Nat /\ ~(N <= k)
    BY <2>1, ChainEnds
  <2> HIDE DEF N
  <2>3. CS!InList[N] = {c[i] : i \in 0 .. k} \cup {null}
    BY <2>1, <2>2, InListIsThrough DEF LedThrough
  <2>4. c[0] = global /\ \A i \in 1 .. k : c[i] \in Sections
    BY <2>1 DEF Chain
  <2>5. 0 \in 0 .. k /\ \A i \in 0 .. k : i = 0 \/ i \in 1 .. k
    OBVIOUS
  <2>6. \A i \in 1 .. k : i \in 0 .. k
    OBVIOUS
  <2>7. {c[i] : i \in 0 .. k} = Members(c, k) \cup {global}
    BY <2>4, <2>5, <2>6 DEF Members
  <2>8. Members(c, k) = used \ new
    BY <1>2, <2>1, <2>4 DEF Members
  <2> QED  BY <2>3, <2>7, <2>8
<1>4. stops = 0 /\ list # null => CS!InList[N] = (used \ new) \cup {global, null}
  BY <1>3, Zenon
<1>5. CS!Cardinality(Sections) = Cardinality(Sections)
  BY Zenon DEF CS!Cardinality, Cardinality
<1> QED  BY <1>4, <1>5, Zenon DEF CS!ListWhole, at5, new

\* Until the first shutdown dcs_list leads through every section in use, but one that its
\* visitor is about to put at its head, to critical_section; when _STD_critical_term has
\* walked it, no mutex is left behind.
THEOREM SpecListWhole == IsFiniteSet(Sections) => (Spec => []ListWhole)
<1> SUFFICES ASSUME IsFiniteSet(Sections) PROVE Spec => []ListWhole
  OBVIOUS
<1>1. Init => SectionInv /\ ListInv
  BY SectionInvIsInductive, ListInvIsInductive
<1>2. SectionInv /\ ListInv /\ [Next]_vars => (SectionInv /\ ListInv)'
  BY SectionInvIsInductive, ListInvIsInductive
<1>3. SectionInv /\ ListInv => ListWhole
  <2> SUFFICES ASSUME SectionInv, ListInv PROVE ListWhole
    OBVIOUS
  <2>1. CS!ListWhole
    BY WholeFollows
  <2>2. CS!AllReleased
    <3> SUFFICES ASSUME stops = 1, list = null, call[Main] = "none"
                 PROVE  \A x \in Sections \cup {global} : NoMutex(x)
      BY DEF CS!AllReleased, CS!Idle, CS!Mutexes, NoMutex
    <3> QED  BY DEF ListInv, NoneLeft
  <2> QED  BY <2>1, <2>2 DEF ListWhole
<1> QED  BY <1>1, <1>2, <1>3, PTL DEF Spec

=============================================================================
