-------------------------- MODULE KamiStaticProofs --------------------------
(***************************************************************************)
(* What the programs that write kami_static keep, for any number of kamis, *)
(* workers, rows in a batch, failed calls and kills: the columns that are  *)
(* computed from others are those of the row as it is (IInv); each kami of *)
(* a pass is in one place only, and what a pass stores was read in it      *)
(* (PoolInv).                                                              *)
(***************************************************************************)
EXTENDS KamiStatic, TLAPS

(* What a kami or an account is on chain is one of its versions. *)
OnChain ==
    /\ \A k \in Kami : ver[k] \in 1 .. LastVer[k]
    /\ \A a \in Account : nameVer[a] \in 1 .. LastName[a]

Typed == TypeOK /\ OnChain

LEMMA VersionsOfAll ==
    /\ \A k \in Kami : LastVer[k] \in Nat \ {0} /\ 1 .. LastVer[k] \subseteq Version
                       /\ 1 \in 1 .. LastVer[k]
    /\ \A a \in Account : LastName[a] \in Nat \ {0} /\ 1 .. LastName[a] \subseteq Version
                          /\ 1 \in 1 .. LastName[a]
<1>1. ASSUME NEW k \in Kami
      PROVE  LastVer[k] \in Nat \ {0} /\ 1 .. LastVer[k] \subseteq Version /\ 1 \in 1 .. LastVer[k]
  <2>1. LastVer[k] \in Nat \ {0}
    BY KamiStaticAssumption
  <2>2. 1 .. LastVer[k] \in {1 .. LastVer[l] : l \in Kami}
    OBVIOUS
  <2>3. 1 .. LastVer[k] \subseteq Version
    BY <2>2, Zenon DEF Version
  <2> QED BY <2>1, <2>3
<1>2. ASSUME NEW a \in Account
      PROVE  LastName[a] \in Nat \ {0} /\ 1 .. LastName[a] \subseteq Version /\ 1 \in 1 .. LastName[a]
  <2>1. LastName[a] \in Nat \ {0}
    BY KamiStaticAssumption
  <2>2. 1 .. LastName[a] \in {1 .. LastName[b] : b \in Account}
    OBVIOUS
  <2>3. 1 .. LastName[a] \subseteq UNION {1 .. LastName[b] : b \in Account}
    BY <2>2, Zenon
  <2>4. 1 .. LastName[a] \subseteq Version
    BY <2>3, Zenon DEF Version
  <2> QED BY <2>1, <2>4
<1> QED BY <1>1, <1>2

LEMMA BlankTyped ==
    ASSUME NEW k \in Kami
    PROVE  Blank \in Columns /\ Legacy(k) \in Columns /\ Owner[k][1] \in Account
<1>1. 1 \in Version /\ 1 \in 1 .. LastVer[k]
  BY VersionsOfAll
<1>2. Owner[k][1] \in Account
  BY <1>1, KamiStaticAssumption
<1>3. (CHOOSE a \in Account : TRUE) \in Account
  BY <1>2
<1>4. Blank \in Columns
  BY <1>1, <1>3 DEF Blank, Columns, Opt
<1>5. Legacy(k) \in Columns
  BY <1>2, <1>4 DEF Legacy, Columns
<1> QED BY <1>2, <1>4, <1>5

-----------------------------------------------------------------------------
(* Types, one part of the state after the other.                           *)

(* The chain, which the programs only read. *)
LEMMA ChainTyped ==
    ASSUME Typed, [Next]_vars
    PROVE  /\ OnChain' /\ ver' \in [Kami -> Version] /\ nameVer' \in [Account -> Version]
           /\ seen' \subseteq Kami
<1> USE DEF Typed, TypeOK, OnChain
<1>1. CASE UNCHANGED chainVars
  BY <1>1 DEF chainVars
<1>2. CASE KamiChanges
  BY <1>2, VersionsOfAll DEF KamiChanges
<1>3. CASE AccountRenamed
  BY <1>3, VersionsOfAll DEF AccountRenamed
<1>4. CASE KamiSeen
  BY <1>4 DEF KamiSeen
<1> QED BY <1>1, <1>2, <1>3, <1>4
       DEF Next, vars, PassStep, BeginPass, Worker, GetKami, AccountCached, AccountRead,
           AccountStored, FetchBuild, Collect, LastBatch, FlushRow, Flushed, Drained, EndPass, Boot,
           ScriptStep, NameAccount, ModifiersOf, SplitAffinities, ScriptEnds, BootWithoutReader,
           Kill, FlushRaises, RunScript, GetKamiRaises, Ages

LEMMA GotTyped ==
    ASSUME Typed, [Next]_vars
    PROVE  got' \in [Kami -> Columns]
<1>0. got \in [Kami -> Columns] /\ ver \in [Kami -> Version] /\ nameVer \in [Account -> Version]
  BY DEF Typed, TypeOK
<1>1. CASE UNCHANGED got
  BY <1>0, <1>1
<1>2. ASSUME NEW k \in Kami, NEW row \in Columns, got' = [got EXCEPT ![k] = row]
      PROVE  got' \in [Kami -> Columns]
  BY <1>0, <1>2
<1>3. ASSUME NEW k \in Kami, GetKami(k)
      PROVE  got' \in [Kami -> Columns]
  <2>1. Owner[k][ver[k]] \in Account /\ ver[k] \in Version
    BY <1>0, KamiStaticAssumption DEF Typed, OnChain
  <2>2. [Blank EXCEPT !.core = ver[k], !.level = ver[k], !.aff = ver[k],
                      !.acct = Owner[k][ver[k]]] \in Columns
    BY <2>1, BlankTyped DEF Columns, Opt
  <2> QED BY <1>2, <1>3, <2>2 DEF GetKami
<1>4. ASSUME NEW k \in Kami, AccountCached(k) \/ AccountRead(k)
      PROVE  got' \in [Kami -> Columns]
  <2>1. ASSUME NEW name \in Opt(Version)
        PROVE  [got[k] EXCEPT !.name = name] \in Columns
    BY <1>0, <2>1 DEF Columns
  <2>2. got[k].acct \in Account
    BY <1>0 DEF Columns
  <2>3. CASE AccountCached(k)
    BY <1>0, <2>1, <2>3 DEF AccountCached, Typed, TypeOK
  <2>4. CASE AccountRead(k)
    BY <1>0, <2>1, <2>2, <2>4 DEF AccountRead, Opt
  <2> QED BY <1>4, <2>3, <2>4
<1>5. ASSUME NEW k \in Kami, FetchBuild(k)
      PROVE  got' \in [Kami -> Columns]
  <2>1. PICK b \in {ver[k], None} :
          got' = [got EXCEPT ![k].build = b, ![k].mods = Modifiers(b), ![k].built = TRUE]
    BY <1>5 DEF FetchBuild
  <2>2. b \in Opt(Version) /\ Modifiers(b) \in Opt(Version \cup {0})
    BY <1>0 DEF Opt, Modifiers
  <2>3. [got[k] EXCEPT !.build = b, !.mods = Modifiers(b), !.built = TRUE] \in Columns
    BY <1>0, <2>2 DEF Columns
  <2>4. got' = [got EXCEPT ![k] = [got[k] EXCEPT !.build = b, !.mods = Modifiers(b),
                                                 !.built = TRUE]]
    BY <1>0, <2>1
  <2> QED BY <1>2, <2>3, <2>4
<1>6. CASE PassOver
  BY <1>6, BlankTyped DEF PassOver
<1>7. CASE FlushRow
  <2>1. Head(flush) \in Kami
    BY <1>7 DEF FlushRow, Typed, TypeOK
  <2> QED BY <1>2, <1>7, <2>1, BlankTyped DEF FlushRow
<1> QED BY <1>1, <1>3, <1>4, <1>5, <1>6, <1>7
       DEF Next, vars, poolVars, PassStep, BeginPass, Worker, AccountStored, Collect, LastBatch,
           Flushed, Drained, EndPass, Boot, ScriptStep, NameAccount, ModifiersOf, SplitAffinities,
           ScriptEnds, BootWithoutReader, Stop, Kill, FlushRaises, RunScript, GetKamiRaises,
           KamiChanges, AccountRenamed, KamiSeen, Ages

LEMMA StaticTyped ==
    ASSUME Typed, [Next]_vars
    PROVE  DOMAIN static' \subseteq Kami /\ \A k \in DOMAIN static' : static'[k] \in Columns
<1> DEFINE Rows(t) == DOMAIN t \subseteq Kami /\ \A k \in DOMAIN t : t[k] \in Columns
<1>0. Rows(static) /\ got \in [Kami -> Columns] /\ nameVer \in [Account -> Version]
  BY DEF Typed, TypeOK
<1>1. CASE UNCHANGED static
  BY <1>0, <1>1
<1>2. CASE FlushRow
  <2>1. Head(flush) \in Kami
    BY <1>2 DEF FlushRow, Typed, TypeOK
  <2>2. CASE static' = Upserted(static, Head(flush))
    BY <1>0, <2>1, <2>2 DEF Upserted
  <2>3. CASE static' = BuildApplied(static, Head(flush))
    <3> DEFINE k == Head(flush)
    <3>1. ASSUME k \in DOMAIN static
          PROVE  [static[k] EXCEPT !.level = got[k].level, !.build = got[k].build,
                                   !.built = TRUE, !.old = FALSE] \in Columns
      BY <1>0, <2>1, <3>1 DEF Columns
    <3>2. /\ DOMAIN static' = DOMAIN static
          /\ \A x \in DOMAIN static : static'[x] =
               IF x = k THEN [static[k] EXCEPT !.level = got[k].level, !.build = got[k].build,
                                               !.built = TRUE, !.old = FALSE]
               ELSE static[x]
      BY <2>3 DEF BuildApplied
    <3> QED BY <1>0, <3>1, <3>2
  <2> QED BY <1>2, <2>2, <2>3 DEF FlushRow
<1>3. ASSUME NEW a \in Account, NameAccount(a)
      PROVE  Rows(static')
  <2>1. PICK name \in {nameVer[a], None} :
          static' = [k \in DOMAIN static |->
             IF k \in {l \in left : static[l].acct = a}
             THEN [static[k] EXCEPT !.name = name, !.old = FALSE] ELSE static[k]]
    BY <1>3 DEF NameAccount
  <2>2. name \in Opt(Version)
    BY <1>0 DEF Opt
  <2>3. \A k \in DOMAIN static : [static[k] EXCEPT !.name = name, !.old = FALSE] \in Columns
    BY <1>0, <2>2 DEF Columns
  <2> QED BY <1>0, <2>1, <2>3
<1>4. ASSUME NEW k \in Kami, ModifiersOf(k)
      PROVE  Rows(static')
  <2> DEFINE row == [static[k] EXCEPT !.mods = Modifiers(static[k].build),
                                      !.built = TRUE, !.old = FALSE]
  <2>1. ASSUME k \in DOMAIN static PROVE row \in Columns
    BY <1>0, <2>1 DEF Columns, Opt, Modifiers
  <2>2. /\ DOMAIN static' = DOMAIN static
        /\ \A x \in DOMAIN static : static'[x] = IF x = k THEN row ELSE static[x]
    BY <1>4 DEF ModifiersOf
  <2> QED BY <1>0, <2>1, <2>2
<1>5. CASE SplitAffinities
  <2>1. \A k \in DOMAIN static :
          [static[k] EXCEPT !.aff = static[k].core, !.old = FALSE] \in Columns
    BY <1>0 DEF Columns, Opt
  <2> QED BY <1>0, <1>5, <2>1 DEF SplitAffinities
<1>6. ASSUME NEW k \in Kami, Ages(k)
      PROVE  Rows(static')
  <2>1. \A x \in DOMAIN static : [static[x] EXCEPT !.old = TRUE] \in Columns
    BY <1>0 DEF Columns
  <2>2. /\ DOMAIN static' = DOMAIN static
        /\ \A x \in DOMAIN static :
             static'[x] = IF x = k THEN [static[k] EXCEPT !.old = TRUE] ELSE static[x]
    BY <1>6 DEF Ages
  <2> QED BY <1>0, <2>1, <2>2
<1> QED BY <1>1, <1>2, <1>3, <1>4, <1>5, <1>6
       DEF Next, vars, PassStep, BeginPass, Worker, GetKami, AccountCached, AccountRead,
           AccountStored, FetchBuild, Collect, LastBatch, Flushed, Drained, EndPass, Boot,
           ScriptStep, ScriptEnds, BootWithoutReader, Kill, FlushRaises, RunScript,
           GetKamiRaises, KamiChanges, AccountRenamed, KamiSeen

(* What the reader remembers of accounts. *)
LEMMA CacheTyped ==
    ASSUME Typed, [Next]_vars
    PROVE  DOMAIN cache' \subseteq Account /\ \A a \in DOMAIN cache' : cache'[a] \in Opt(Version)
<1>0. /\ DOMAIN cache \subseteq Account /\ \A a \in DOMAIN cache : cache[a] \in Opt(Version)
      /\ got \in [Kami -> Columns]
  BY DEF Typed, TypeOK
<1>1. CASE UNCHANGED cache
  BY <1>0, <1>1
<1>2. CASE cache' = << >>
  BY <1>2
<1>3. ASSUME NEW k \in Kami, AccountStored(k)
      PROVE  DOMAIN cache' \subseteq Account /\ \A a \in DOMAIN cache' : cache'[a] \in Opt(Version)
  <2>1. got[k].acct \in Account /\ got[k].name \in Opt(Version)
    BY <1>0 DEF Columns
  <2> QED BY <1>0, <1>3, <2>1 DEF AccountStored
<1> QED BY <1>1, <1>2, <1>3
       DEF Next, vars, poolVars, PassStep, BeginPass, Worker, GetKami, AccountCached, AccountRead,
           FetchBuild, Collect, LastBatch, FlushRow, Flushed, Drained, EndPass, MayKeepReader,
           Boot, ScriptStep, NameAccount, ModifiersOf, SplitAffinities, ScriptEnds, Stop,
           BootWithoutReader, Kill, FlushRaises, RunScript, GetKamiRaises, KamiChanges,
           AccountRenamed, KamiSeen, Ages

(* Programs, workers and faults. *)
LEMMA ProgramTyped ==
    ASSUME Typed, [Next]_vars
    PROVE  prog' \in Program /\ pc' \in PC /\ phase' \in [Kami -> Phase] /\ faults' \in 0 .. MaxFaults
<1>0. /\ prog \in Program /\ pc \in PC /\ phase \in [Kami -> Phase] /\ faults \in 0 .. MaxFaults
      /\ MaxFaults \in Nat
  BY KamiStaticAssumption DEF Typed, TypeOK
<1>1. prog' \in Program
  BY <1>0 DEF Next, vars, Program, Scripts, PassStep, BeginPass, Worker, GetKami, AccountCached,
       AccountRead, AccountStored, FetchBuild, Collect, LastBatch, FlushRow, Flushed, Drained,
       EndPass, MayKeepReader, Boot, ScriptStep, NameAccount, ModifiersOf, SplitAffinities,
       ScriptEnds, Stop, BootWithoutReader, Kill, FlushRaises, RunScript, GetKamiRaises,
       KamiChanges, AccountRenamed, KamiSeen, Ages
<1>2. pc' \in PC
  BY <1>0 DEF Next, vars, PC, PassStep, BeginPass, Worker, GetKami, AccountCached,
       AccountRead, AccountStored, FetchBuild, Collect, LastBatch, FlushRow, Flushed, Drained,
       EndPass, PassOver, Boot, ScriptStep, NameAccount, ModifiersOf, SplitAffinities,
       ScriptEnds, Stop, BootWithoutReader, Kill, FlushRaises, RunScript, GetKamiRaises,
       KamiChanges, AccountRenamed, KamiSeen, Ages
<1>3. phase' \in [Kami -> Phase]
  BY <1>0 DEF Next, vars, poolVars, Phase, ToPhase, PassStep, BeginPass, Worker, GetKami,
       AccountCached, AccountRead, AccountStored, FetchBuild, Collect, LastBatch, FlushRow,
       Flushed, Drained, EndPass, PassOver, Boot, ScriptStep, NameAccount, ModifiersOf,
       SplitAffinities, ScriptEnds, Stop, BootWithoutReader, Kill, FlushRaises, RunScript,
       GetKamiRaises, KamiChanges, AccountRenamed, KamiSeen, Ages
<1>4. faults' = faults \/ Fault
  <2>1. ASSUME NEW k \in Kami, FetchBuild(k) PROVE faults' = faults \/ Fault
    BY <2>1, Zenon DEF FetchBuild
  <2>2. ASSUME NEW a \in Account, NameAccount(a) PROVE faults' = faults \/ Fault
    BY <2>2, Zenon DEF NameAccount
  <2> QED BY <2>1, <2>2
       DEF Next, vars, PassStep, BeginPass, Worker, GetKami, AccountCached,
           AccountRead, AccountStored, Collect, LastBatch, FlushRow, Flushed, Drained,
           EndPass, Boot, ScriptStep, ModifiersOf, SplitAffinities, ScriptEnds,
           BootWithoutReader, Kill, FlushRaises, RunScript, GetKamiRaises,
           KamiChanges, AccountRenamed, KamiSeen, Ages
<1>5. faults' \in 0 .. MaxFaults
  BY <1>0, <1>4 DEF Fault
<1> QED BY <1>1, <1>2, <1>3, <1>5

(* The batches of a pass. *)
LEMMA BatchesTyped ==
    ASSUME Typed, [Next]_vars
    PROVE  pending' \in Seq(Kami) /\ flush' \in Seq(Kami) /\ Len(pending') < FlushEvery
<1>0. /\ pending \in Seq(Kami) /\ flush \in Seq(Kami) /\ Len(pending) < FlushEvery
      /\ FlushEvery \in Nat \ {0}
  BY KamiStaticAssumption DEF Typed, TypeOK
<1>1. << >> \in Seq(Kami) /\ Len(<< >>) < FlushEvery
  BY <1>0
<1>2. CASE UNCHANGED <<pending, flush>>
  BY <1>0, <1>2
<1>3. ASSUME NEW k \in Kami, Collect(k)
      PROVE  pending' \in Seq(Kami) /\ flush' \in Seq(Kami) /\ Len(pending') < FlushEvery
  <2>1. Append(pending, k) \in Seq(Kami)
    BY <1>0
  <2>2. CASE phase[k] = "done"
    <3>1. /\ pending' = IF Full(Append(pending, k)) THEN << >> ELSE Append(pending, k)
          /\ flush' = IF Full(Append(pending, k)) THEN Append(pending, k) ELSE flush
      BY <1>3, <2>2 DEF Collect
    <3> QED BY <1>0, <1>1, <2>1, <3>1 DEF Full
  <2>3. CASE phase[k] # "done"
    BY <1>0, <1>3, <2>3 DEF Collect
  <2> QED BY <2>2, <2>3
<1>4. CASE LastBatch \/ FlushRaises \/ PassOver
  BY <1>0, <1>1, <1>4 DEF LastBatch, FlushRaises, PassOver
<1>5. CASE FlushRow
  BY <1>0, <1>5 DEF FlushRow
<1> QED BY <1>2, <1>3, <1>4, <1>5
       DEF Next, vars, passVars, PassStep, BeginPass, Worker, GetKami, AccountCached, AccountRead,
           AccountStored, FetchBuild, Flushed, Drained, EndPass,
           Boot, ScriptStep, NameAccount, ModifiersOf, SplitAffinities, ScriptEnds, Stop,
           BootWithoutReader, Kill, RunScript, GetKamiRaises, KamiChanges,
           AccountRenamed, KamiSeen, Ages

(* What is left of a pass, and what was true when it began. *)
LEMMA LeftTyped ==
    ASSUME Typed, [Next]_vars
    PROVE  left' \subseteq Kami /\ base' \in Versions
<1>0. /\ left \subseteq Kami /\ base \in Versions /\ seen \subseteq Kami /\ DOMAIN static \subseteq Kami
      /\ ver \in [Kami -> Version] /\ nameVer \in [Account -> Version]
  BY DEF Typed, TypeOK
<1>1. NoBase \in Versions /\ Now \in Versions
  BY <1>0, VersionsOfAll DEF NoBase, Now, Versions
<1>2. Candidates \subseteq Kami
  BY <1>0 DEF Candidates, Stale, Unbuilt
<1>3. \A col \in {"name", "mods", "aff"} : NullIn(col) \subseteq Kami
  BY <1>0 DEF NullIn
<1>4. CASE \E p \in Scripts : RunScript(p)
  <2>1. PICK p \in Scripts : RunScript(p)
    BY <1>4
  <2>2. left' \in {NullIn("name"), DOMAIN static, {}, NullIn("aff")} /\ base' = base
    BY <2>1 DEF RunScript
  <2> QED BY <1>0, <1>3, <2>2
<1>5. CASE ~ \E p \in Scripts : RunScript(p)
  BY <1>0, <1>1, <1>2, <1>5
       DEF Next, vars, passVars, PassStep, BeginPass, Worker, GetKami, AccountCached, AccountRead,
           AccountStored, FetchBuild, Collect, LastBatch, FlushRow, Flushed, Drained, EndPass,
           PassOver, Boot, ScriptStep, NameAccount, ModifiersOf, SplitAffinities, ScriptEnds, Stop,
           BootWithoutReader, Kill, FlushRaises, GetKamiRaises, KamiChanges,
           AccountRenamed, KamiSeen, Ages
<1> QED BY <1>4, <1>5

LEMMA TypedInit == Init => Typed
<1> SUFFICES ASSUME Init PROVE Typed
  OBVIOUS
<1>1. OnChain /\ ver \in [Kami -> Version] /\ nameVer \in [Account -> Version] /\ NoBase \in Versions
  BY VersionsOfAll DEF Init, OnChain, NoBase, Versions
<1>2. DOMAIN static \subseteq Kami /\ \A k \in DOMAIN static : static[k] \in Columns
  BY BlankTyped DEF Init
<1>3. got \in [Kami -> Columns] /\ phase \in [Kami -> Phase]
  BY BlankTyped DEF Init, Phase
<1>4. pending \in Seq(Kami) /\ flush \in Seq(Kami) /\ Len(pending) < FlushEvery
      /\ faults \in 0 .. MaxFaults
  BY KamiStaticAssumption DEF Init
<1> QED BY <1>1, <1>2, <1>3, <1>4 DEF Init, Typed, TypeOK, Program, PC

LEMMA TypedStep == Typed /\ [Next]_vars => Typed'
BY ChainTyped, StaticTyped, GotTyped, CacheTyped, ProgramTyped, BatchesTyped, LeftTyped
   DEF Typed, TypeOK

(* Every variable has its type: in particular a batch that waits is never  *)
(* as long as the bound that has it upserted.                              *)
THEOREM TypeCorrect == Spec => []TypeOK
<1>1. Typed => TypeOK
  BY DEF Typed
<1> QED BY TypedInit, TypedStep, <1>1, PTL DEF Spec

-----------------------------------------------------------------------------
(* Derived columns.                                                        *)

(* A row whose modifiers are known has them from the build it holds, and   *)
(* is stamped; the split affinities are those of its core columns.         *)
Derived(row) ==
    /\ row.mods # None => row.built /\ row.mods = Modifiers(row.build)
    /\ row.aff \in {None, row.core}

(* The same of what a worker has read. *)
RowsDerived == (\A k \in DOMAIN static : Derived(static[k])) /\ (\A k \in Kami : Derived(got[k]))

(* Between passes no future and no batch is left. *)
Quiet ==
    /\ prog = "none" => pc = "idle"
    /\ pc = "idle" => pending = << >> /\ flush = << >> /\ \A k \in Kami : phase[k] = "none"

InPass == {k \in Kami : phase[k] # "none"} \cup ToSet(pending) \cup ToSet(flush)

(* backfill_kami_build, which writes the build without the modifiers, only *)
(* touches rows that never had any: those without a build stamp.           *)
BuildOfUnbuilt ==
    prog = "build" => \A k \in InPass : k \in DOMAIN static /\ static[k].mods = None

IInv == Typed /\ RowsDerived /\ Quiet /\ BuildOfUnbuilt

LEMMA QuietStep ==
    ASSUME Typed, Quiet, [Next]_vars
    PROVE  Quiet'
<1>0. phase \in [Kami -> Phase]
  BY DEF Typed, TypeOK
<1> USE DEF Quiet
<1>1. CASE UNCHANGED <<prog, pc, pending, flush, phase>>
  BY <1>1
<1>2. CASE PassOver
  BY <1>2 DEF PassOver
<1>3. CASE Boot \/ BootWithoutReader
  BY <1>3 DEF Boot, BootWithoutReader, poolVars, passVars
<1>7. CASE BeginPass
  BY <1>7 DEF BeginPass, Candidates
<1>8. CASE LastBatch \/ Flushed \/ FlushRaises \/ FlushRow
  BY <1>8 DEF LastBatch, Flushed, FlushRaises, FlushRow, poolVars, passVars
<1>4. ASSUME NEW p \in Scripts, RunScript(p) PROVE Quiet'
  BY <1>4 DEF RunScript, poolVars, Scripts
<1>5. ASSUME NEW k \in Kami, Collect(k) PROVE Quiet'
  BY <1>5 DEF Collect
<1>6. ASSUME NEW k \in Kami, Worker(k) \/ GetKamiRaises(k) PROVE Quiet'
  BY <1>6 DEF Worker, GetKami, GetKamiRaises, AccountCached, AccountRead, AccountStored, FetchBuild,
       passVars
<1> QED BY <1>1, <1>2, <1>3, <1>4, <1>5, <1>6, <1>7, <1>8
       DEF Next, vars, poolVars, passVars, PassStep, Drained, EndPass, ScriptStep, NameAccount,
           ModifiersOf, SplitAffinities, ScriptEnds, Stop, Kill, KamiChanges,
           AccountRenamed, KamiSeen, Ages

(* What a worker fills in on the way.                                      *)
LEMMA GotDerived ==
    ASSUME Typed, RowsDerived, [Next]_vars
    PROVE  \A k \in Kami : Derived(got'[k])
<1>0. /\ got \in [Kami -> Columns] /\ \A k \in Kami : Derived(got[k])
      /\ ver \in [Kami -> Version]
  BY DEF Typed, TypeOK, RowsDerived
<1>1. CASE UNCHANGED got
  BY <1>0, <1>1
<1>2. ASSUME NEW k \in Kami, NEW row, Derived(row), got' = [got EXCEPT ![k] = row]
      PROVE  \A x \in Kami : Derived(got'[x])
  BY <1>0, <1>2
<1>3. Derived(Blank)
  BY DEF Derived, Blank
<1>4. ASSUME NEW k \in Kami, GetKami(k) PROVE \A x \in Kami : Derived(got'[x])
  <2>1. Derived([Blank EXCEPT !.core = ver[k], !.level = ver[k], !.aff = ver[k],
                              !.acct = Owner[k][ver[k]]])
    BY DEF Derived, Blank
  <2> QED BY <1>2, <1>4, <2>1 DEF GetKami
<1>5. ASSUME NEW k \in Kami, AccountCached(k) \/ AccountRead(k) PROVE \A x \in Kami : Derived(got'[x])
  <2>1. ASSUME NEW name PROVE Derived([got[k] EXCEPT !.name = name])
    BY <1>0 DEF Derived, Columns
  <2>2. CASE got' = got
    BY <1>0, <2>2
  <2>3. CASE \E name : got' = [got EXCEPT ![k].name = name]
    <3>1. PICK name : got' = [got EXCEPT ![k] = [got[k] EXCEPT !.name = name]]
      BY <2>3
    <3> QED BY <1>2, <2>1, <3>1
  <2> QED BY <1>5, <2>2, <2>3 DEF AccountCached, AccountRead
<1>6. ASSUME NEW k \in Kami, FetchBuild(k) PROVE \A x \in Kami : Derived(got'[x])
  <2>1. PICK b : got' = [got EXCEPT ![k].build = b, ![k].mods = Modifiers(b), ![k].built = TRUE]
    BY <1>6 DEF FetchBuild
  <2>2. Derived([got[k] EXCEPT !.build = b, !.mods = Modifiers(b), !.built = TRUE])
    BY <1>0 DEF Derived, Columns
  <2>3. got' = [got EXCEPT ![k] = [got[k] EXCEPT !.build = b, !.mods = Modifiers(b), !.built = TRUE]]
    BY <1>0, <2>1
  <2> QED BY <1>2, <2>2, <2>3
<1>7. CASE PassOver
  BY <1>3, <1>7 DEF PassOver
<1>8. CASE FlushRow
  <2>1. Head(flush) \in Kami
    BY <1>8 DEF FlushRow, Typed, TypeOK
  <2> QED BY <1>2, <1>3, <1>8, <2>1 DEF FlushRow
<1> QED BY <1>1, <1>4, <1>5, <1>6, <1>7, <1>8
       DEF Next, vars, poolVars, PassStep, BeginPass, Worker, AccountStored, Collect, LastBatch,
           Flushed, Drained, EndPass, Boot, ScriptStep, NameAccount, ModifiersOf, SplitAffinities,
           ScriptEnds, BootWithoutReader, Stop, Kill, FlushRaises, RunScript, GetKamiRaises,
           KamiChanges, AccountRenamed, KamiSeen, Ages

(* What is written to the table.                                           *)
LEMMA StaticDerived ==
    ASSUME Typed, RowsDerived, BuildOfUnbuilt, [Next]_vars
    PROVE  \A k \in DOMAIN static' : Derived(static'[k])
<1>0. /\ \A k \in DOMAIN static : static[k] \in Columns /\ Derived(static[k])
      /\ \A k \in Kami : got[k] \in Columns /\ Derived(got[k])
  BY DEF Typed, TypeOK, RowsDerived
<1>1. CASE UNCHANGED static
  BY <1>0, <1>1
<1>2. CASE FlushRow
  <2> DEFINE k == Head(flush)
  <2>1. k \in Kami /\ k \in ToSet(flush)
    BY <1>2 DEF FlushRow, Typed, TypeOK, ToSet
  <2>2. CASE prog = "build"
    <3>1. k \in DOMAIN static /\ static[k].mods = None
      BY <2>1, <2>2 DEF BuildOfUnbuilt, InPass
    <3> DEFINE row == [static[k] EXCEPT !.level = got[k].level, !.build = got[k].build,
                                        !.built = TRUE, !.old = FALSE]
    <3>2. Derived(row)
      BY <1>0, <3>1 DEF Derived, Columns
    <3>3. /\ DOMAIN static' = DOMAIN static
          /\ \A x \in DOMAIN static : static'[x] = IF x = k THEN row ELSE static[x]
      BY <1>2, <2>2 DEF FlushRow, BuildApplied
    <3> QED BY <1>0, <3>2, <3>3
  <2>3. CASE prog # "build"
    BY <1>0, <1>2, <2>1, <2>3 DEF FlushRow, Upserted
  <2> QED BY <2>2, <2>3
<1>3. ASSUME NEW a \in Account, NameAccount(a)
      PROVE  \A k \in DOMAIN static' : Derived(static'[k])
  <2>1. PICK name :
          static' = [k \in DOMAIN static |->
             IF k \in {l \in left : static[l].acct = a}
             THEN [static[k] EXCEPT !.name = name, !.old = FALSE] ELSE static[k]]
    BY <1>3 DEF NameAccount
  <2>2. \A k \in DOMAIN static : Derived([static[k] EXCEPT !.name = name, !.old = FALSE])
    BY <1>0 DEF Derived, Columns
  <2> QED BY <1>0, <2>1, <2>2
<1>4. ASSUME NEW k \in Kami, ModifiersOf(k)
      PROVE  \A x \in DOMAIN static' : Derived(static'[x])
  <2> DEFINE row == [static[k] EXCEPT !.mods = Modifiers(static[k].build),
                                      !.built = TRUE, !.old = FALSE]
  <2>1. ASSUME k \in DOMAIN static PROVE Derived(row)
    BY <1>0, <2>1 DEF Derived, Columns
  <2>2. /\ DOMAIN static' = DOMAIN static
        /\ \A x \in DOMAIN static : static'[x] = IF x = k THEN row ELSE static[x]
    BY <1>4 DEF ModifiersOf
  <2> QED BY <1>0, <2>1, <2>2
<1>5. CASE SplitAffinities
  <2>1. \A k \in DOMAIN static :
          Derived([static[k] EXCEPT !.aff = static[k].core, !.old = FALSE])
    BY <1>0 DEF Derived, Columns
  <2> QED BY <1>0, <1>5, <2>1 DEF SplitAffinities
<1>6. ASSUME NEW k \in Kami, Ages(k)
      PROVE  \A x \in DOMAIN static' : Derived(static'[x])
  <2>1. \A x \in DOMAIN static : Derived([static[x] EXCEPT !.old = TRUE])
    BY <1>0 DEF Derived, Columns
  <2>2. /\ DOMAIN static' = DOMAIN static
        /\ \A x \in DOMAIN static :
             static'[x] = IF x = k THEN [static[k] EXCEPT !.old = TRUE] ELSE static[x]
    BY <1>6 DEF Ages
  <2> QED BY <1>0, <2>1, <2>2
<1> QED BY <1>1, <1>2, <1>3, <1>4, <1>5, <1>6
       DEF Next, vars, PassStep, BeginPass, Worker, GetKami, AccountCached, AccountRead,
           AccountStored, FetchBuild, Collect, LastBatch, Flushed, Drained, EndPass, Boot,
           ScriptStep, ScriptEnds, BootWithoutReader, Kill, FlushRaises, RunScript,
           GetKamiRaises, KamiChanges, AccountRenamed, KamiSeen

LEMMA BuildOfUnbuiltStep ==
    ASSUME Typed, RowsDerived, Quiet, BuildOfUnbuilt, [Next]_vars
    PROVE  BuildOfUnbuilt'
<1>0. /\ pending \in Seq(Kami) /\ flush \in Seq(Kami) /\ phase \in [Kami -> Phase]
      /\ \A k \in DOMAIN static : static[k] \in Columns /\ Derived(static[k])
      /\ DOMAIN static \subseteq Kami
  BY DEF Typed, TypeOK, RowsDerived
<1>e. ToSet(<< >>) = {}
  BY DEF ToSet
<1>1. ASSUME prog' = prog, InPass' \subseteq InPass, UNCHANGED static
      PROVE  BuildOfUnbuilt'
  BY <1>1 DEF BuildOfUnbuilt
<1>2. ASSUME InPass' = {}
      PROVE  BuildOfUnbuilt'
  BY <1>2 DEF BuildOfUnbuilt
<1>3. ASSUME prog' # "build"
      PROVE  BuildOfUnbuilt'
  BY <1>3 DEF BuildOfUnbuilt
<1>4. CASE UNCHANGED <<prog, phase, pending, flush, static>>
  BY <1>1, <1>4 DEF InPass
<1>5. CASE PassOver
  BY <1>2, <1>5, <1>e DEF PassOver, InPass
<1>6. ASSUME NEW p \in Scripts, RunScript(p) PROVE BuildOfUnbuilt'
  <2>1. pending' = << >> /\ flush' = << >> /\ \A k \in Kami : phase'[k] = "none"
    BY <1>6 DEF RunScript, Quiet, poolVars
  <2> QED BY <1>2, <1>e, <2>1 DEF InPass
<1>7. CASE BeginPass
  <2>1. pending' = << >> /\ flush' = << >>
    BY <1>7 DEF BeginPass, Quiet
  <2>2. InPass' \subseteq Candidates
    BY <1>7, <1>e, <2>1 DEF BeginPass, InPass
  <2>3. prog = "build" => \A k \in Candidates : k \in DOMAIN static /\ static[k].mods = None
    BY <1>0 DEF Candidates, Unbuilt, Derived
  <2> QED BY <1>7, <2>2, <2>3 DEF BeginPass, BuildOfUnbuilt
<1>8. ASSUME NEW k \in Kami, Worker(k) \/ GetKamiRaises(k) PROVE BuildOfUnbuilt'
  <2>1. phase[k] # "none" /\ \A x \in Kami \ {k} : phase'[x] = phase[x]
    BY <1>0, <1>8 DEF Worker, GetKami, GetKamiRaises, AccountCached, AccountRead, AccountStored,
         FetchBuild, ToPhase
  <2>2. UNCHANGED <<prog, pending, flush, static>>
    BY <1>8 DEF Worker, GetKami, GetKamiRaises, AccountCached, AccountRead, AccountStored,
         FetchBuild, passVars
  <2>3. InPass' \subseteq InPass
    BY <2>1, <2>2 DEF InPass
  <2> QED BY <1>1, <2>2, <2>3
<1>9. ASSUME NEW k \in Kami, Collect(k) PROVE BuildOfUnbuilt'
  <2>1. phase[k] # "none" /\ \A x \in Kami \ {k} : phase'[x] = phase[x]
    BY <1>0, <1>9 DEF Collect, ToPhase
  <2>2. ToSet(Append(pending, k)) \subseteq ToSet(pending) \cup {k}
    <3>1. \A i \in DOMAIN Append(pending, k) :
            Append(pending, k)[i] = k \/ (i \in DOMAIN pending /\ Append(pending, k)[i] = pending[i])
      BY <1>0
    <3> QED BY <3>1 DEF ToSet
  <2>3. /\ pending' \in {<< >>, pending, Append(pending, k)}
        /\ flush' \in {flush, pending, Append(pending, k)}
        /\ UNCHANGED <<prog, static>>
    BY <1>9 DEF Collect
  <2>4. InPass' \subseteq InPass
    BY <1>e, <2>1, <2>2, <2>3 DEF InPass
  <2> QED BY <1>1, <2>3, <2>4
<1>10. CASE LastBatch \/ FlushRaises
  BY <1>1, <1>e, <1>10 DEF LastBatch, FlushRaises, InPass, poolVars
<1>11. CASE FlushRow
  <2>1. ToSet(Tail(flush)) \subseteq ToSet(flush) /\ Head(flush) \in ToSet(flush)
    BY <1>0, <1>11 DEF FlushRow, ToSet
  <2>2. InPass' \subseteq InPass
    BY <1>11, <2>1 DEF FlushRow, InPass
  <2>3. CASE prog = "build"
    <3>1. \A x \in DOMAIN static : x \in DOMAIN static' /\ static'[x].mods = static[x].mods
      <4>1. static' = BuildApplied(static, Head(flush))
        BY <1>11, <2>3 DEF FlushRow
      <4> QED BY <1>0, <4>1 DEF BuildApplied, Columns
    <3> QED BY <2>2, <2>3, <3>1 DEF BuildOfUnbuilt
  <2> QED BY <1>3, <1>11, <2>3 DEF FlushRow
<1>12. CASE Boot \/ BootWithoutReader
  BY <1>3, <1>12 DEF Boot, BootWithoutReader
<1>13. CASE ScriptStep \/ \E k \in Kami : Ages(k)
  BY <1>3, <1>13 DEF ScriptStep, NameAccount, ModifiersOf, SplitAffinities, Ages
<1> QED BY <1>4, <1>5, <1>6, <1>7, <1>8, <1>9, <1>10, <1>11, <1>12, <1>13
       DEF Next, vars, poolVars, passVars, PassStep, Flushed, Drained, EndPass,
           ScriptEnds, Stop, Kill, KamiChanges, AccountRenamed, KamiSeen

LEMMA IInvInit == Init => IInv
<1> SUFFICES ASSUME Init PROVE IInv
  OBVIOUS
<1>1. RowsDerived
  <2>1. Derived(Blank) /\ \A k \in Kami : Derived(Legacy(k))
    BY DEF Derived, Blank, Legacy
  <2> QED BY <2>1 DEF RowsDerived, Init
<1>2. Quiet /\ BuildOfUnbuilt
  BY DEF Init, Quiet, BuildOfUnbuilt
<1> QED BY TypedInit, <1>1, <1>2 DEF IInv

LEMMA IInvStep == IInv /\ [Next]_vars => IInv'
<1> SUFFICES ASSUME IInv, [Next]_vars PROVE IInv'
  OBVIOUS
<1>1. Typed' /\ Quiet' /\ BuildOfUnbuilt'
  BY TypedStep, QuietStep, BuildOfUnbuiltStep DEF IInv
<1>2. RowsDerived'
  BY GotDerived, StaticDerived DEF IInv, RowsDerived
<1> QED BY <1>1, <1>2 DEF IInv

(* The modifier columns are those of the build stored beside them and the  *)
(* split affinities those of the row, whatever the order in which the      *)
(* sweep and the scripts wrote the row and wherever they were killed.      *)
THEOREM DerivedMatch == Spec => []DerivedColumnsMatch
<1>1. IInv => DerivedColumnsMatch
  BY DEF IInv, RowsDerived, Derived, DerivedColumnsMatch
<1> QED BY IInvInit, IInvStep, <1>1, PTL DEF Spec
-----------------------------------------------------------------------------
(* The results of the pool.                                                *)

Batched == ToSet(pending) \cup ToSet(flush)

(* The scripts that need no pool run none, and a batch waits while futures *)
(* are collected, or is written: never both.                               *)
OneBatch ==
    /\ prog \notin {"serve", "all", "build"} => pc = "idle"
    /\ pc # "pass" => pending = << >>
    /\ pc # "flush" => flush = << >>

(* A kami of the pass is in one place only. *)
Accounted ==
    /\ pc \in {"pass", "flush"} => left = InPass
    /\ IsInjective(pending) /\ IsInjective(flush)
    /\ \A k \in Batched : phase[k] = "none"

(* What a worker has read of a kami, or is about to add to it, is not      *)
(* older than the pass, nor newer than the chain.                          *)
ReadInPass(k) ==
    /\ got[k].core >= base.ver[k] /\ got[k].level = got[k].core
    /\ got[k].build # None => got[k].build >= got[k].core

Reading(k) == phase[k] \in {"account", "cache", "build"}

ReadSinceBase ==
    pc \in {"pass", "flush"} =>
        /\ \A k \in Kami : base.ver[k] <= ver[k]
        /\ \A k \in Kami : Reading(k) => got[k].core <= ver[k]
        /\ \A k \in Kami : Reading(k) \/ phase[k] = "done" \/ k \in Batched => ReadInPass(k)

PoolInv == IInv /\ OneBatch /\ Accounted /\ ReadSinceBase

(* Sequences without repetition. *)
LEMMA InjectiveAppend ==
    ASSUME NEW S, NEW s \in Seq(S), NEW e \in S, IsInjective(s), e \notin ToSet(s)
    PROVE  IsInjective(Append(s, e)) /\ ToSet(Append(s, e)) = ToSet(s) \cup {e}
<1>1. /\ DOMAIN Append(s, e) = DOMAIN s \cup {Len(s) + 1} /\ Append(s, e)[Len(s) + 1] = e
      /\ \A i \in DOMAIN s : Append(s, e)[i] = s[i] /\ s[i] \in ToSet(s)
  BY DEF ToSet
<1>2. IsInjective(Append(s, e))
  BY <1>1 DEF IsInjective
<1>3. ToSet(Append(s, e)) = ToSet(s) \cup {e}
  BY <1>1 DEF ToSet
<1> QED BY <1>2, <1>3

LEMMA InjectiveTail ==
    ASSUME NEW S, NEW s \in Seq(S), s # << >>, IsInjective(s)
    PROVE  /\ IsInjective(Tail(s)) /\ Head(s) \in S
           /\ ToSet(Tail(s)) = ToSet(s) \ {Head(s)} /\ Head(s) \in ToSet(s)
<1>1. /\ Head(s) = s[1] /\ 1 \in DOMAIN s /\ DOMAIN s = 1 .. Len(s) /\ Len(s) \in Nat
      /\ DOMAIN Tail(s) = 1 .. (Len(s) - 1)
      /\ \A i \in 1 .. (Len(s) - 1) : Tail(s)[i] = s[i + 1] /\ i + 1 \in DOMAIN s
  OBVIOUS
<1>2. IsInjective(Tail(s))
  BY <1>1 DEF IsInjective
<1>3. ToSet(Tail(s)) \subseteq ToSet(s) \ {Head(s)}
  <2> SUFFICES ASSUME NEW i \in DOMAIN Tail(s)
               PROVE  Tail(s)[i] \in ToSet(s) /\ Tail(s)[i] # Head(s)
    BY DEF ToSet
  <2>1. i + 1 \in DOMAIN s /\ Tail(s)[i] = s[i + 1] /\ i + 1 # 1
    BY <1>1
  <2> QED BY <1>1, <2>1 DEF ToSet, IsInjective
<1>4. ToSet(s) \ {Head(s)} \subseteq ToSet(Tail(s))
  <2> SUFFICES ASSUME NEW i \in DOMAIN s, s[i] # Head(s)
               PROVE  s[i] \in ToSet(Tail(s))
    BY DEF ToSet
  <2>1. i - 1 \in DOMAIN Tail(s) /\ Tail(s)[i - 1] = s[i]
    BY <1>1
  <2> QED BY <2>1 DEF ToSet
<1>5. Head(s) \in S /\ Head(s) \in ToSet(s)
  BY <1>1 DEF ToSet
<1> QED BY <1>2, <1>3, <1>4, <1>5

LEMMA EmptySet == ToSet(<< >>) = {} /\ IsInjective(<< >>)
BY DEF ToSet, IsInjective

LEMMA OneBatchStep ==
    ASSUME Typed, Quiet, OneBatch, [Next]_vars
    PROVE  OneBatch'
<1> USE DEF OneBatch
<1>1. CASE UNCHANGED <<prog, pc, pending, flush>>
  BY <1>1
<1>2. CASE PassOver
  BY <1>2 DEF PassOver
<1>3. CASE Boot \/ BootWithoutReader
  BY <1>3 DEF Boot, BootWithoutReader, passVars, Quiet
<1>4. CASE BeginPass
  BY <1>4 DEF BeginPass, Candidates, Quiet
<1>5. CASE LastBatch \/ Flushed \/ FlushRaises \/ FlushRow
  BY <1>5 DEF LastBatch, Flushed, FlushRaises, FlushRow, passVars
<1>6. ASSUME NEW p \in Scripts, RunScript(p) PROVE OneBatch'
  BY <1>6 DEF RunScript, Quiet
<1>7. ASSUME NEW k \in Kami, Collect(k) PROVE OneBatch'
  BY <1>7 DEF Collect
<1>8. ASSUME NEW k \in Kami, Worker(k) \/ GetKamiRaises(k) PROVE OneBatch'
  BY <1>8 DEF Worker, GetKami, GetKamiRaises, AccountCached, AccountRead, AccountStored, FetchBuild,
       passVars
<1> QED BY <1>1, <1>2, <1>3, <1>4, <1>5, <1>6, <1>7, <1>8
       DEF Next, vars, passVars, PassStep, Drained, EndPass, ScriptStep, NameAccount,
           ModifiersOf, SplitAffinities, ScriptEnds, Stop, Kill, KamiChanges,
           AccountRenamed, KamiSeen, Ages

LEMMA AccountedStep ==
    ASSUME Typed, Quiet, OneBatch, Accounted, [Next]_vars
    PROVE  Accounted'
<1>0. /\ pending \in Seq(Kami) /\ flush \in Seq(Kami) /\ phase \in [Kami -> Phase]
      /\ left \subseteq Kami
  BY DEF Typed, TypeOK
<1> USE DEF Accounted
<1>1. CASE UNCHANGED <<pc, phase, pending, flush, left>>
  BY <1>1 DEF InPass, Batched
<1>2. ASSUME pc' \notin {"pass", "flush"}, pending' = << >>, flush' = << >>
      PROVE  Accounted'
  BY <1>2, EmptySet DEF Batched
<1>3. CASE PassOver
  BY <1>2, <1>3 DEF PassOver
<1>4. CASE Boot \/ BootWithoutReader
  <2>1. pending = << >> /\ flush = << >> /\ pc = "idle"
    BY <1>4 DEF Boot, BootWithoutReader, Quiet
  <2> QED BY <1>2, <1>4, <2>1 DEF Boot, BootWithoutReader, passVars
<1>5. ASSUME NEW p \in Scripts, RunScript(p) PROVE Accounted'
  BY <1>2, <1>5 DEF RunScript, Quiet
<1>6. CASE BeginPass
  <2>1. pending' = << >> /\ flush' = << >> /\ left' = Candidates /\ pc' = "pass"
    BY <1>6 DEF BeginPass, Quiet
  <2>2. Candidates \subseteq Kami
    BY DEF Candidates, Stale, Unbuilt, Typed, TypeOK
  <2>3. {k \in Kami : phase'[k] # "none"} = Candidates
    BY <1>6, <2>2 DEF BeginPass
  <2> QED BY <2>1, <2>3, EmptySet DEF InPass, Batched
<1>7. ASSUME NEW k \in Kami, Worker(k) \/ GetKamiRaises(k) PROVE Accounted'
  <2>1. phase[k] # "none" /\ phase'[k] # "none" /\ \A x \in Kami \ {k} : phase'[x] = phase[x]
    BY <1>0, <1>7 DEF Worker, GetKami, GetKamiRaises, AccountCached, AccountRead, AccountStored,
         FetchBuild, ToPhase
  <2>2. UNCHANGED <<pc, pending, flush, left>>
    BY <1>7 DEF Worker, GetKami, GetKamiRaises, AccountCached, AccountRead, AccountStored,
         FetchBuild, passVars
  <2>3. {x \in Kami : phase'[x] # "none"} = {x \in Kami : phase[x] # "none"}
    BY <2>1
  <2>4. Batched' = Batched /\ InPass' = InPass /\ Batched \subseteq Kami
    BY <1>0, <2>2, <2>3 DEF Batched, InPass, ToSet
  <2> QED BY <2>1, <2>2, <2>4
<1>8. ASSUME NEW k \in Kami, Collect(k) PROVE Accounted'
  <2>1. /\ pc = "pass" /\ flush = << >> /\ phase[k] # "none" /\ phase'[k] = "none"
        /\ \A x \in Kami \ {k} : phase'[x] = phase[x]
    BY <1>0, <1>8 DEF Collect, ToPhase, OneBatch
  <2>2. {x \in Kami : phase'[x] # "none"} = {x \in Kami : phase[x] # "none"} \ {k}
    BY <2>1
  <2>3. k \notin ToSet(pending)
    BY <2>1 DEF Batched
  <2>4. left = {x \in Kami : phase[x] # "none"} \cup ToSet(pending) /\ k \in left
    BY <2>1, EmptySet DEF InPass
  <2>5. CASE phase[k] = "done"
    <3>1. /\ left' = left
          /\ \/ pending' = << >> /\ flush' = Append(pending, k)
             \/ pending' = Append(pending, k) /\ flush' = flush
      BY <1>8, <2>5 DEF Collect
    <3>2. IsInjective(Append(pending, k)) /\ ToSet(Append(pending, k)) = ToSet(pending) \cup {k}
      BY <1>0, <2>3, InjectiveAppend
    <3>3. Batched' = ToSet(pending) \cup {k} /\ IsInjective(pending') /\ IsInjective(flush')
      BY <2>1, <3>1, <3>2, EmptySet DEF Batched
    <3>4. ASSUME NEW x \in ToSet(pending) PROVE phase'[x] = "none"
      <4>1. x \in Kami /\ phase[x] = "none"
        BY <1>0 DEF Batched, ToSet
      <4> QED BY <2>1, <4>1
    <3>5. InPass' = left'
      BY <2>2, <2>4, <3>1, <3>3 DEF InPass, Batched
    <3> QED BY <2>1, <3>3, <3>4, <3>5
  <2>6. CASE phase[k] # "done"
    <3>1. left' = left \ {k} /\ pending' = pending /\ flush' = flush
      BY <1>8, <2>6 DEF Collect
    <3>2. InPass' = left'
      BY <2>1, <2>2, <2>3, <2>4, <3>1, EmptySet DEF InPass
    <3> QED BY <1>0, <2>1, <3>1, <3>2 DEF Batched, ToSet
  <2> QED BY <2>5, <2>6
<1>9. CASE LastBatch
  BY <1>9, EmptySet DEF LastBatch, InPass, Batched, OneBatch, poolVars
<1>10. CASE FlushRow
  <2>1. /\ IsInjective(Tail(flush)) /\ ToSet(Tail(flush)) = ToSet(flush) \ {Head(flush)}
        /\ Head(flush) \in ToSet(flush)
    BY <1>0, <1>10, InjectiveTail DEF FlushRow
  <2>2. /\ flush' = Tail(flush) /\ left' = left \ {Head(flush)} /\ pending = << >>
        /\ UNCHANGED <<pc, phase, pending>> /\ pc = "flush"
    BY <1>10 DEF FlushRow, OneBatch
  <2>3. phase[Head(flush)] = "none"
    BY <2>1 DEF Batched
  <2>4. InPass' = InPass \ {Head(flush)} /\ Batched' \subseteq Batched
    BY <2>1, <2>2, <2>3, EmptySet DEF InPass, Batched
  <2> QED BY <2>1, <2>2, <2>4, EmptySet
<1>11. CASE Flushed
  BY <1>11, EmptySet DEF Flushed, InPass, Batched, OneBatch, poolVars, passVars
<1>12. CASE FlushRaises
  BY <1>2, <1>12 DEF FlushRaises
<1>13. CASE ScriptStep
  <2>1. UNCHANGED <<pc, phase, pending, flush>> /\ prog \notin {"serve", "all", "build"}
    BY <1>13 DEF ScriptStep, NameAccount, ModifiersOf, SplitAffinities, poolVars
  <2> QED BY <2>1 DEF OneBatch, Batched
<1> QED BY <1>1, <1>3, <1>4, <1>5, <1>6, <1>7, <1>8, <1>9, <1>10, <1>11, <1>12, <1>13
       DEF Next, vars, poolVars, passVars, PassStep, Drained, EndPass,
           ScriptEnds, Stop, Kill, KamiChanges, AccountRenamed, KamiSeen, Ages

LEMMA VersionNat == Version \subseteq Nat
<1>1. \A S \in {1 .. LastVer[k] : k \in Kami} : S \subseteq Nat
  BY KamiStaticAssumption
<1>2. \A S \in {1 .. LastName[a] : a \in Account} : S \subseteq Nat
  BY KamiStaticAssumption
<1> QED BY <1>1, <1>2, Zenon DEF Version

LEMMA ReadSinceBaseStep ==
    ASSUME Typed, Quiet, OneBatch, Accounted, ReadSinceBase, [Next]_vars
    PROVE  ReadSinceBase'
<1>0. /\ pending \in Seq(Kami) /\ flush \in Seq(Kami) /\ phase \in [Kami -> Phase]
      /\ got \in [Kami -> Columns] /\ ver \in [Kami -> Nat] /\ base.ver \in [Kami -> Nat]
      /\ \A k \in Kami : got[k].core \in Nat
  <2>1. base.ver \in [Kami -> Version] /\ ver \in [Kami -> Version]
    BY DEF Typed, TypeOK, Versions
  <2>2. \A k \in Kami : got[k].core \in Version
    BY DEF Typed, TypeOK, Columns
  <2> QED BY <2>1, <2>2, VersionNat DEF Typed, TypeOK
<1>1. CASE UNCHANGED <<pc, phase, pending, flush, got, base, ver>>
  BY <1>1 DEF ReadSinceBase, Reading, ReadInPass, Batched
<1>2. ASSUME pc' \notin {"pass", "flush"}
      PROVE  ReadSinceBase'
  BY <1>2 DEF ReadSinceBase
<1>3. CASE PassOver
  BY <1>2, <1>3 DEF PassOver
<1>4. CASE Boot \/ BootWithoutReader
  BY <1>2, <1>4 DEF Boot, BootWithoutReader, Quiet
<1>5. ASSUME NEW p \in Scripts, RunScript(p) PROVE ReadSinceBase'
  BY <1>2, <1>5 DEF RunScript, Quiet
<1>6. CASE BeginPass
  <2>1. pending' = << >> /\ flush' = << >> /\ base' = Now /\ ver' = ver
    BY <1>6 DEF BeginPass, Quiet, chainVars
  <2>2. \A k \in Kami : phase'[k] \in {"queued", "none"}
    BY <1>6 DEF BeginPass
  <2>3. Batched' = {}
    BY <2>1, EmptySet DEF Batched
  <2>4. \A k \in Kami : base'.ver[k] <= ver'[k]
    BY <1>0, <2>1 DEF Now
  <2> QED BY <2>2, <2>3, <2>4 DEF ReadSinceBase, Reading
<1>7. ASSUME NEW k \in Kami, Worker(k) \/ GetKamiRaises(k), pc \in {"pass", "flush"}
      PROVE  ReadSinceBase'
  <2>1. /\ UNCHANGED <<pc, pending, flush, base, ver>> /\ phase[k] # "none"
        /\ \A x \in Kami \ {k} : phase'[x] = phase[x]
    BY <1>0, <1>7 DEF Worker, GetKami, GetKamiRaises, AccountCached, AccountRead, AccountStored,
         FetchBuild, ToPhase, passVars, chainVars
  <2>2. Batched' = Batched /\ k \notin Batched
    BY <2>1 DEF Batched, Accounted
  <2>3. /\ \A x \in Kami : base.ver[x] <= ver[x]
        /\ \A x \in Kami : Reading(x) => got[x].core <= ver[x]
        /\ \A x \in Kami : Reading(x) \/ phase[x] = "done" \/ x \in Batched => ReadInPass(x)
    BY <1>7 DEF ReadSinceBase
  <2>4. ASSUME \A x \in Kami \ {k} : got'[x] = got[x],
               Reading(k)' => got'[k].core <= ver[k],
               Reading(k)' \/ phase'[k] = "done" => ReadInPass(k)'
        PROVE  ReadSinceBase'
    BY <2>1, <2>2, <2>3, <2>4 DEF ReadSinceBase, Reading, ReadInPass
  <2>5. CASE GetKami(k)
    <3>1. /\ got'[k].core = ver[k] /\ got'[k].level = ver[k] /\ got'[k].build = None
          /\ \A x \in Kami \ {k} : got'[x] = got[x]
      BY <1>0, <2>5 DEF GetKami, Blank
    <3>2. ReadInPass(k)' /\ got'[k].core <= ver[k]
      BY <1>0, <2>1, <2>3, <3>1 DEF ReadInPass
    <3> QED BY <2>4, <3>1, <3>2
  <2>6. CASE AccountCached(k) \/ AccountRead(k) \/ AccountStored(k)
    <3>1. /\ Reading(k) /\ \A x \in Kami \ {k} : got'[x] = got[x]
          /\ got'[k].core = got[k].core /\ got'[k].level = got[k].level
          /\ got'[k].build = got[k].build
      <4>1. CASE got' = got
        BY <2>6, <4>1 DEF AccountCached, AccountRead, AccountStored, Reading
      <4>2. CASE \E name : got' = [got EXCEPT ![k].name = name]
        <5>1. PICK name : got' = [got EXCEPT ![k].name = name]
          BY <4>2
        <5>2. got'[k] = [got[k] EXCEPT !.name = name] /\ \A x \in Kami \ {k} : got'[x] = got[x]
          BY <1>0, <5>1
        <5>3. got[k] \in Columns
          BY <1>0
        <5>4. /\ got'[k].core = got[k].core /\ got'[k].level = got[k].level
              /\ got'[k].build = got[k].build
          BY <5>2, <5>3 DEF Columns
        <5> QED BY <2>6, <5>2, <5>4 DEF AccountCached, AccountRead, AccountStored, Reading
      <4> QED BY <2>6, <4>1, <4>2 DEF AccountCached, AccountRead, AccountStored
    <3>2. ReadInPass(k)' /\ got'[k].core <= ver[k]
      BY <2>1, <2>3, <3>1 DEF ReadInPass
    <3> QED BY <2>4, <3>1, <3>2
  <2>7. CASE FetchBuild(k)
    <3>1. PICK b \in {ver[k], None} :
            got' = [got EXCEPT ![k].build = b, ![k].mods = Modifiers(b), ![k].built = TRUE]
      BY <2>7 DEF FetchBuild
    <3>2. /\ got'[k] = [got[k] EXCEPT !.build = b, !.mods = Modifiers(b), !.built = TRUE]
          /\ \A x \in Kami \ {k} : got'[x] = got[x]
      BY <1>0, <3>1
    <3>3. got[k] \in Columns
      BY <1>0
    <3>4. got'[k].core = got[k].core /\ got'[k].level = got[k].level /\ got'[k].build = b
      BY <3>2, <3>3 DEF Columns
    <3>5. Reading(k) /\ ~Reading(k)'
      BY <1>0, <2>7 DEF FetchBuild, Reading, ToPhase
    <3>6. ReadInPass(k)'
      BY <1>0, <2>1, <2>3, <3>1, <3>4, <3>5 DEF ReadInPass
    <3> QED BY <2>4, <3>2, <3>5, <3>6
  <2>8. CASE GetKamiRaises(k)
    <3>1. got' = got /\ phase'[k] = "failed"
      BY <1>0, <2>8 DEF GetKamiRaises, ToPhase
    <3> QED BY <2>4, <3>1 DEF Reading
  <2> QED BY <1>7, <2>5, <2>6, <2>7, <2>8 DEF Worker
<1>8. ASSUME NEW k \in Kami, Worker(k) \/ GetKamiRaises(k), pc \notin {"pass", "flush"}
      PROVE  ReadSinceBase'
  BY <1>2, <1>8 DEF Worker, GetKami, GetKamiRaises, AccountCached, AccountRead, AccountStored,
       FetchBuild
<1>9. ASSUME NEW k \in Kami, Collect(k) PROVE ReadSinceBase'
  <2>1. /\ pc = "pass" /\ UNCHANGED <<got, base, ver>> /\ phase'[k] = "none"
        /\ \A x \in Kami \ {k} : phase'[x] = phase[x]
    BY <1>0, <1>9 DEF Collect, ToPhase, chainVars
  <2>2. ToSet(Append(pending, k)) = ToSet(pending) \cup {k}
    <3>1. k \notin ToSet(pending) /\ IsInjective(pending)
      BY <1>9 DEF Collect, Accounted, Batched
    <3> QED BY <1>0, <3>1, InjectiveAppend
  <2>3. Batched' \subseteq Batched \cup {k} /\ (phase[k] # "done" => Batched' = Batched)
    BY <1>9, <2>2, EmptySet DEF Collect, Batched
  <2>4. \A x \in Kami : Reading(x)' \/ phase'[x] = "done" => x # k /\ phase'[x] = phase[x]
    BY <2>1 DEF Reading
  <2>5. \A x \in Kami : x \in Batched' => x \in Batched \/ phase[x] = "done"
    BY <2>3
  <2> QED BY <2>1, <2>4, <2>5 DEF ReadSinceBase, Reading, ReadInPass
<1>10. CASE LastBatch \/ Flushed
  <2>1. Batched' = Batched /\ pc \in {"pass", "flush"} /\ UNCHANGED <<phase, got, base, ver>>
    BY <1>10, EmptySet DEF LastBatch, Flushed, OneBatch, Batched, poolVars, passVars, chainVars
  <2> QED BY <2>1 DEF ReadSinceBase, Reading, ReadInPass
<1>11. CASE FlushRow
  <2>1. /\ ToSet(Tail(flush)) = ToSet(flush) \ {Head(flush)} /\ Head(flush) \in ToSet(flush)
        /\ Head(flush) \in Kami
    BY <1>0, <1>11, InjectiveTail DEF FlushRow, Accounted
  <2>2. /\ pc = "flush" /\ pending = << >> /\ flush' = Tail(flush)
        /\ UNCHANGED <<pc, phase, pending, base, ver>>
        /\ got' = [got EXCEPT ![Head(flush)] = Blank]
    BY <1>11 DEF FlushRow, OneBatch, chainVars
  <2>3. Batched' = Batched \ {Head(flush)} /\ phase[Head(flush)] = "none"
    BY <2>1, <2>2, EmptySet DEF Batched, Accounted
  <2>4. \A x \in Kami : x # Head(flush) => got'[x] = got[x]
    BY <1>0, <2>2
  <2> QED BY <2>2, <2>3, <2>4 DEF ReadSinceBase, Reading, ReadInPass
<1>12. CASE FlushRaises
  BY <1>2, <1>12 DEF FlushRaises
<1>13. CASE KamiChanges
  <2>1. /\ UNCHANGED <<pc, phase, pending, flush, got, base>>
        /\ \A k \in Kami : ver'[k] >= ver[k] /\ ver'[k] \in Nat
    BY <1>0, <1>13 DEF KamiChanges, poolVars, passVars
  <2>2. Batched' = Batched
    BY <2>1 DEF Batched
  <2> QED BY <1>0, <2>1, <2>2 DEF ReadSinceBase, Reading, ReadInPass
<1> QED BY <1>1, <1>3, <1>4, <1>5, <1>6, <1>7, <1>8, <1>9, <1>10, <1>11, <1>12, <1>13
       DEF Next, vars, chainVars, poolVars, passVars, PassStep, Drained, EndPass, ScriptStep,
           NameAccount, ModifiersOf, SplitAffinities, ScriptEnds, Stop, Kill,
           AccountRenamed, KamiSeen, Ages

LEMMA PoolInit == Init => PoolInv
BY IInvInit, EmptySet DEF Init, PoolInv, OneBatch, Accounted, Batched, ReadSinceBase

LEMMA PoolStep == PoolInv /\ [Next]_vars => PoolInv'
BY IInvStep, OneBatchStep, AccountedStep, ReadSinceBaseStep DEF PoolInv, IInv

LEMMA PoolCorrect == Spec => []PoolInv
BY PoolInit, PoolStep, PTL DEF Spec

(* Whatever the order in which workers finish, a kami of a pass that is    *)
(* neither written nor failed is with its worker, in the batch that waits  *)
(* or in the one being written, and in one of them only.                   *)
THEOREM NothingLost == Spec => []NoResultLost
<1>1. PoolInv => NoResultLost
  <2> SUFFICES ASSUME PoolInv PROVE NoResultLost
    OBVIOUS
  <2>1. pending \in Seq(Kami) /\ flush \in Seq(Kami)
    BY DEF PoolInv, IInv, Typed, TypeOK
  <2>2. pending \o flush = pending \/ pending \o flush = flush
    BY <2>1 DEF PoolInv, OneBatch
  <2>3. IsInjective(pending \o flush)
    BY <2>2 DEF PoolInv, Accounted
  <2>4. \A k \in ToSet(pending \o flush) : phase[k] = "none"
    BY <2>2 DEF PoolInv, Accounted, Batched
  <2> QED BY <2>3, <2>4 DEF PoolInv, Accounted, InPass, NoResultLost
<1> QED BY PoolCorrect, <1>1, PTL

(* What a pass writes it read: no column of a row is older than the pass,  *)
(* nor its build older than the rest, also after passes that failed.       *)
THEOREM FreshRows == Spec => RowsAreFresh
<1> DEFINE Fresh == \A k \in left \ left' :
               pc = "flush" /\ prog \in {"serve", "all"} /\ pc' = "flush" =>
                  /\ static'[k].core >= base.ver[k] /\ static'[k].level = static'[k].core
                  /\ static'[k].build # None => static'[k].build >= static'[k].core
<1>1. PoolInv /\ [Next]_vars => [Fresh]_vars
  <2> SUFFICES ASSUME PoolInv, Next, NEW k \in left \ left', pc = "flush",
                      prog \in {"serve", "all"}, pc' = "flush"
               PROVE  /\ static'[k].core >= base.ver[k] /\ static'[k].level = static'[k].core
                      /\ static'[k].build # None => static'[k].build >= static'[k].core
    BY DEF vars, passVars
  <2>1. FlushRow /\ k = Head(flush)
    <3>1. FlushRow
      BY DEF Next, PassStep, BeginPass, Worker, GetKami, AccountCached, AccountRead,
           AccountStored, FetchBuild, Collect, LastBatch, Flushed, Drained, EndPass, PassOver,
           Boot, ScriptStep, NameAccount, ModifiersOf, SplitAffinities, ScriptEnds, Stop,
           BootWithoutReader, Kill, FlushRaises, RunScript, GetKamiRaises, KamiChanges,
           AccountRenamed, KamiSeen, Ages, passVars, Scripts
    <3> QED BY <3>1 DEF FlushRow
  <2>2. k \in Kami /\ k \in Batched
    <3>1. flush \in Seq(Kami) /\ flush # << >>
      BY <2>1 DEF FlushRow, PoolInv, IInv, Typed, TypeOK
    <3> QED BY <2>1, <3>1, InjectiveTail DEF PoolInv, Accounted, Batched
  <2>3. ReadInPass(k)
    BY <2>2 DEF PoolInv, ReadSinceBase
  <2>4. static'[k] = got[k]
    BY <2>1 DEF FlushRow, Upserted
  <2> QED BY <2>3, <2>4 DEF ReadInPass
<1> QED BY PoolCorrect, <1>1, PTL DEF Spec, RowsAreFresh

=============================================================================
