---------------------------- MODULE SwiLogProofs ----------------------------
(***************************************************************************)
(* Proofs about the C logger of libs/common/swi_log.c, for any threads,    *)
(* modules, levels and values of SWI_LOG_VERBOSITY and any number of       *)
(* calls: a line carries the header of its own module and severity, and a  *)
(* module is traced up to the level it was given.                          *)
(***************************************************************************)
EXTENDS SwiLog, TLAPS

INSTANCE WellFoundedInduction

Names == Modules \cup {"none"}
Header == [module : Names, level : Int]

CallType == [at : {"idle", "format"}, module : Names, severity : Int, reuse : BOOLEAN, raced : BOOLEAN]
Lines == {<<>>} \cup [own : Header, shown : Header, raced : BOOLEAN]
Sayings == {<<>>} \cup [module : Modules, severity : Int, traced : BOOLEAN]
HistType == [calls : Int, line : Lines, said : Sayings, set : [Modules -> Seq(Levels)]]

TypeOK ==
  /\ DOMAIN env \subseteq Nat \ {0} /\ \A k \in DOMAIN env : env[k].level \in Int
  /\ lev \in [md_list : Seq([name : Modules, level : Levels]), default_level : Int]
  /\ cache \in [Threads -> Header] /\ fmt \in Header
  /\ thr \in [Threads -> CallType]
  /\ hist \in HistType

\* A header that a line may be shown under.
Fits(shown, own) ==
  shown = own \/ (shown.level = own.level /\ <<own.module, shown.module>> \in Within)

\* A thread that has chosen to reuse the shared header still finds its own there.
ReuseFits ==
  \A t \in Threads :
    thr[t].at = "format" /\ thr[t].reuse /\ ~ thr[t].raced =>
      Fits(fmt, [module |-> thr[t].module, level |-> thr[t].severity])

\* md_list has no entry for a module that was given no level, and one entry for
\* one that was given a level once.
Only(m) ==
  \E k \in DOMAIN lev.md_list :
    /\ lev.md_list[k] = [name |-> m, level |-> hist.set[m][1]]
    /\ \A j \in DOMAIN lev.md_list : lev.md_list[j].name = m => j = k

Listed ==
  \A m \in Modules :
    /\ hist.set[m] = <<>> => \A k \in DOMAIN lev.md_list : lev.md_list[k].name # m
    /\ Len(hist.set[m]) = 1 => Only(m)

\* The level a module is to be traced up to.
Named(m) == {k \in DOMAIN env : env[k].name = m}
Wanted(m) == IF Named(m) = {} THEN hist.set[m][1] ELSE env[Min(Named(m))].level

Settled(m) == ~ Mistakable(m) /\ Len(hist.set[m]) = 1 /\ Default = {}

SaidFollows ==
  \A m \in Modules :
    hist.said # <<>> /\ hist.said.module = m /\ Settled(m) =>
      (hist.said.traced <=> hist.said.severity <= Wanted(m))

IInv ==
  /\ TypeOK /\ LineIsOwn /\ ReuseFits
  /\ Listed /\ SaidFollows

-----------------------------------------------------------------------------
\* The first entry of a list that is not empty is one of its entries.
LEMMA MinIn ==
  ASSUME NEW S \in SUBSET Nat, S # {} PROVE Min(S) \in S
  <1> DEFINE less == {p \in Nat \X Nat : p[1] < p[2]}
  <1>1. IsWellFoundedOn(less, Nat)
    BY NatLessThanWellFounded DEF OpToRel
  <1>2. PICK x \in S : \A y \in S : ~ (<<y, x>> \in less)
    BY <1>1, WFMin, Zenon
  <1>3. ASSUME NEW y \in S PROVE x =< y
    <2>1. <<y, x>> \in Nat \X Nat /\ ~ (<<y, x>> \in less)
      BY <1>2
    <2>2. ~ (y < x)
      BY <2>1
    <2> QED
      BY <2>2
  <1> QED
    BY <1>3, Zenon DEF Min

LEMMA MinOne ==
  ASSUME NEW n \in Nat PROVE Min({n}) = n
  BY DEF Min

LEMMA Element ==
  ASSUME NEW S, NEW s \in Seq(S), NEW k \in DOMAIN s PROVE s[k] \in S
  OBVIOUS

\* changeVerbosity() stops at the entry of the module, if there is no default.
LEMMA EntryFacts ==
  ASSUME TypeOK, NEW m
  PROVE  /\ Entry(m) # 0 => Entry(m) \in DOMAIN env
         /\ Default = {} => Entry(m) = (IF Named(m) = {} THEN 0 ELSE Min(Named(m)))
         /\ Named(m) # {} => Min(Named(m)) \in Named(m) /\ Min(Named(m)) # 0
  <1>1. DOMAIN env \subseteq Nat /\ 0 \notin DOMAIN env
    BY DEF TypeOK
  <1>2. ASSUME NEW S \in SUBSET DOMAIN env, S # {} PROVE Min(S) \in S /\ Min(S) # 0
    <2>1. S \in SUBSET Nat
      BY <1>1
    <2>2. Min(S) \in S
      BY <1>2, <2>1, MinIn
    <2> QED
      BY <1>1, <2>2
  <1>3. Named(m) \in SUBSET DOMAIN env
    BY DEF Named
  <1>4. Entry(m) # 0 => Entry(m) \in DOMAIN env
    <2> DEFINE hits == {k \in DOMAIN env : env[k].name \in {m, "default"}}
    <2>1. Entry(m) = IF hits = {} THEN 0 ELSE Min(hits)
      BY DEF Entry
    <2>2. hits \in SUBSET DOMAIN env
      OBVIOUS
    <2>3. hits # {} => Min(hits) \in hits
      BY <1>2, <2>2
    <2> QED
      BY <2>1, <2>2, <2>3
  <1>5. Default = {} => Entry(m) = (IF Named(m) = {} THEN 0 ELSE Min(Named(m)))
    <2>1. Default = {} => {k \in DOMAIN env : env[k].name \in {m, "default"}} = Named(m)
      BY DEF Default, Named
    <2> QED
      BY <2>1, Zenon DEF Entry
  <1> QED
    BY <1>2, <1>3, <1>4, <1>5

\* The level looked up for a module that was given one once is that one, or the
\* one of SWI_LOG_VERBOSITY.
LEMMA LookupFollows ==
  ASSUME TypeOK, Listed, NEW m \in Modules, Len(hist.set[m]) = 1, Default = {}
  PROVE  changeVerbosity(m, Lookup(m)) = Wanted(m)
  <1>1. PICK k \in DOMAIN lev.md_list :
               /\ lev.md_list[k] = [name |-> m, level |-> hist.set[m][1]]
               /\ \A j \in DOMAIN lev.md_list : lev.md_list[j].name = m => j = k
    BY DEF Listed, Only
  <1>2. DOMAIN lev.md_list \subseteq Nat /\ k \in Nat /\ k # 0
    BY DEF TypeOK
  <1>3. {j \in DOMAIN lev.md_list : lev.md_list[j].name = m} = {k}
    BY <1>1
  <1>4. First(lev.md_list, m) = k
    BY <1>2, <1>3, MinOne DEF First
  <1>5. Lookup(m) = hist.set[m][1]
    BY <1>1, <1>2, <1>4 DEF Lookup
  <1>6. CASE Named(m) = {}
    BY <1>5, <1>6, EntryFacts DEF changeVerbosity, Wanted
  <1>7. CASE Named(m) # {}
    <2>1. Entry(m) = Min(Named(m)) /\ Entry(m) # 0 /\ env[Entry(m)].name = m
      BY <1>7, EntryFacts DEF Named
    <2> QED
      BY <1>7, <2>1 DEF changeVerbosity, Wanted
  <1> QED
    BY <1>6, <1>7

\* Levels stay numbers.
LEMMA LevelTypes ==
  ASSUME TypeOK, NEW m
  PROVE  NewDefault(m) \in Int /\ changeVerbosity(m, Lookup(m)) \in Int
  <1>1. /\ lev.default_level \in Int /\ lev.md_list \in Seq([name : Modules, level : Levels])
        /\ \A k \in DOMAIN env : env[k].level \in Int
    BY DEF TypeOK
  <1>3. \A k \in DOMAIN lev.md_list : lev.md_list[k].level \in Int
    <2>1. ASSUME NEW k \in DOMAIN lev.md_list
          PROVE  lev.md_list[k] \in [name : Modules, level : Levels]
      BY <1>1, Element, Zenon
    <2>2. \A k \in DOMAIN lev.md_list : lev.md_list[k].level \in Levels
      BY <2>1
    <2> QED
      BY <2>2, LogAssumption, Zenon
  <1>4. First(lev.md_list, m) # 0 => First(lev.md_list, m) \in DOMAIN lev.md_list
    <2> DEFINE hits == {k \in DOMAIN lev.md_list : lev.md_list[k].name = m}
    <2>1. First(lev.md_list, m) = IF hits = {} THEN 0 ELSE Min(hits)
      BY DEF First
    <2>2. hits \in SUBSET Nat
      BY <1>1
    <2>3. hits # {} => Min(hits) \in hits
      BY <2>2, MinIn
    <2> QED
      BY <2>1, <2>3
  <1>5. Lookup(m) \in Int
    BY <1>1, <1>3, <1>4 DEF Lookup
  <1>6. Entry(m) # 0 => env[Entry(m)].level \in Int
    BY <1>1, EntryFacts
  <1> QED
    BY <1>1, <1>5, <1>6 DEF NewDefault, changeVerbosity

\* The conjuncts about levels and those about headers, for steps that leave
\* alone what they are about.
LEMMA SameLevels ==
  ASSUME Listed, SaidFollows,
         UNCHANGED env, lev'.md_list = lev.md_list,
         hist'.set = hist.set, hist'.said = hist.said
  PROVE  Listed' /\ SaidFollows'
  <1>1. \A m : (Settled(m)' <=> Settled(m)) /\ Wanted(m)' = Wanted(m) /\ (Only(m)' <=> Only(m))
    BY DEF Settled, Wanted, Only, Named, Default
  <1>2. Listed'
    BY <1>1 DEF Listed
  <1>3. SaidFollows'
    BY <1>1 DEF SaidFollows
  <1> QED
    BY <1>2, <1>3

LEMMA SameHeaders ==
  ASSUME LineIsOwn, ReuseFits, UNCHANGED <<fmt, thr>>, hist'.line = hist.line
  PROVE  LineIsOwn' /\ ReuseFits'
  BY DEF LineIsOwn, ReuseFits

\* A call is counted, and nothing else is written down.
LEMMA Counted ==
  ASSUME TypeOK, hist' = [hist EXCEPT !.calls = hist.calls + 1]
  PROVE  hist' \in HistType
  <1>1. hist.calls + 1 \in Int
    BY DEF TypeOK, HistType
  <1> QED
    BY <1>1, Zenon DEF TypeOK, HistType

\* What is written down of a call and of a line.
LEMMA SayingFields ==
  ASSUME NEW m \in Modules, NEW l \in Int, NEW b \in BOOLEAN, NEW r,
         r = [module |-> m, severity |-> l, traced |-> b]
  PROVE  r \in Sayings /\ r.module = m /\ r.severity = l /\ r.traced = b
  BY Zenon DEF Sayings

LEMMA LineFields ==
  ASSUME NEW own \in Header, NEW shown \in Header, NEW b \in BOOLEAN, NEW r,
         r = [own |-> own, shown |-> shown, raced |-> b]
  PROVE  r \in Lines /\ r.own = own /\ r.shown = shown /\ r.raced = b
  BY Zenon DEF Lines

LEMMA HistFields ==
  ASSUME NEW h \in HistType, NEW r, NEW l \in Lines, r = [h EXCEPT !.line = l]
  PROVE  r \in HistType
  BY Zenon DEF HistType

-----------------------------------------------------------------------------
\* One lemma per action.

\* A level is given: it is the only one of its module, or the module is not
\* settled any more.
LEMMA SetLevelKeeps ==
  ASSUME IInv, NEW m \in Modules, NEW l \in Levels, swi_log_setlevel(m, l)
  PROVE  IInv'
  <1> DEFINE entry == [name |-> m, level |-> l]
             old == lev.md_list
  <1>1. UNCHANGED <<env, cache, fmt, thr>>
    BY DEF swi_log_setlevel
  <1>2. /\ old \in Seq([name : Modules, level : Levels])
        /\ lev'.md_list = Append(old, entry) /\ lev'.default_level = lev.default_level
        /\ lev' \in [md_list : Seq([name : Modules, level : Levels]), default_level : Int]
    <2>1. /\ lev \in [md_list : Seq([name : Modules, level : Levels]), default_level : Int]
          /\ lev' = [lev EXCEPT !.md_list = Append(lev.md_list, entry)]
      BY DEF swi_log_setlevel, newlevel, IInv, TypeOK
    <2>2. old \in Seq([name : Modules, level : Levels]) /\ entry \in [name : Modules, level : Levels]
      BY <2>1
    <2>3. Append(old, entry) \in Seq([name : Modules, level : Levels])
      BY <2>2
    <2>4. lev' = [md_list |-> Append(old, entry), default_level |-> lev.default_level]
      BY <2>1, Zenon
    <2>5. lev.default_level \in Int
      BY <2>1
    <2>6. lev' \in [md_list : Seq([name : Modules, level : Levels]), default_level : Int]
      BY <2>3, <2>4, <2>5
    <2>7. lev'.md_list = Append(old, entry) /\ lev'.default_level = lev.default_level
      BY <2>4, Zenon
    <2> QED
      BY <2>2, <2>6, <2>7, Zenon
  <1>3. /\ hist.set \in [Modules -> Seq(Levels)]
        /\ hist'.set = [hist.set EXCEPT ![m] = Append(hist.set[m], l)]
        /\ hist'.line = hist.line /\ hist'.said = <<>> /\ hist'.calls = hist.calls + 1
    BY DEF swi_log_setlevel, IInv, TypeOK, HistType
  <1>4. TypeOK'
    <2>1. hist'.set \in [Modules -> Seq(Levels)]
      BY <1>3 DEF IInv, TypeOK, HistType
    <2>2. hist' = [calls |-> hist.calls + 1, line |-> hist.line, said |-> <<>>, set |-> hist'.set]
      BY Zenon DEF swi_log_setlevel, IInv, TypeOK, HistType
    <2>4. /\ hist.calls + 1 \in Int
          /\ hist.line \in Lines
          /\ <<>> \in Sayings
      BY DEF IInv, TypeOK, HistType, Sayings
    <2>3. hist' \in HistType
      BY <2>1, <2>2, <2>4 DEF HistType
    <2> QED
      BY <1>1, <1>2, <2>3 DEF IInv, TypeOK
  <1>5. LineIsOwn' /\ ReuseFits'
    BY <1>1, <1>3, SameHeaders DEF IInv
  <1>6. /\ hist'.set[m] = Append(hist.set[m], l) /\ hist.set[m] \in Seq(Levels)
        /\ \A n \in Modules : n # m => hist'.set[n] = hist.set[n]
    BY <1>3
  <1>7. /\ hist'.set[m] # <<>> /\ Len(hist'.set[m]) = Len(hist.set[m]) + 1
        /\ Len(hist'.set[m]) = 1 => hist.set[m] = <<>> /\ hist'.set[m][1] = l
    BY <1>6
  <1>8. /\ DOMAIN lev'.md_list = DOMAIN old \cup {Len(old) + 1}
        /\ Len(old) + 1 \notin DOMAIN old
        /\ lev'.md_list[Len(old) + 1] = entry
        /\ \A k \in DOMAIN old : lev'.md_list[k] = old[k]
    BY <1>2
  <1>9. Listed'
    <2>1. ASSUME NEW n \in Modules, n # m, hist'.set[n] = <<>>, NEW k \in DOMAIN lev'.md_list
          PROVE  lev'.md_list[k].name # n
      BY <1>6, <1>8, <2>1 DEF IInv, Listed
    <2>2. ASSUME NEW n \in Modules, n # m, Len(hist'.set[n]) = 1 PROVE Only(n)'
      <3>1. PICK k \in DOMAIN old :
                   /\ old[k] = [name |-> n, level |-> hist.set[n][1]]
                   /\ \A j \in DOMAIN old : old[j].name = n => j = k
        BY <1>6, <2>2 DEF IInv, Listed, Only
      <3>2. k \in DOMAIN lev'.md_list /\ lev'.md_list[k] = [name |-> n, level |-> hist'.set[n][1]]
        BY <1>6, <1>8, <2>2, <3>1
      <3>3. \A j \in DOMAIN lev'.md_list : lev'.md_list[j].name = n => j = k
        BY <1>8, <2>2, <3>1
      <3> QED
        BY <3>2, <3>3 DEF Only
    <2>3. ASSUME Len(hist'.set[m]) = 1 PROVE Only(m)'
      <3>1. \A k \in DOMAIN old : old[k].name # m
        BY <1>7, <2>3, Zenon DEF IInv, Listed
      <3>2. lev'.md_list[Len(old) + 1] = [name |-> m, level |-> hist'.set[m][1]]
        BY <1>7, <1>8, <2>3, Zenon
      <3>3. \A j \in DOMAIN lev'.md_list : lev'.md_list[j].name = m => j = Len(old) + 1
        BY <1>8, <3>1
      <3> QED
        BY <1>8, <3>2, <3>3 DEF Only
    <2> QED
      BY <1>7, <2>1, <2>2, <2>3, Zenon DEF Listed
  <1>10. SaidFollows'
    BY <1>3 DEF SaidFollows
  <1> QED
    BY <1>4, <1>5, <1>9, <1>10 DEF IInv

LEMMA SetDefaultKeeps ==
  ASSUME IInv, NEW l \in Levels, SetDefault(l)
  PROVE  IInv'
  <1>1. UNCHANGED <<env, cache, fmt, thr>>
    BY DEF SetDefault
  <1>2. /\ lev'.md_list = lev.md_list
        /\ lev' \in [md_list : Seq([name : Modules, level : Levels]), default_level : Int]
    BY LogAssumption, Zenon DEF SetDefault, IInv, TypeOK
  <1>3. /\ hist'.line = hist.line /\ hist'.said = hist.said
        /\ hist'.set = hist.set
    BY Zenon DEF SetDefault, IInv, TypeOK, HistType
  <1>4. TypeOK'
    <2>1. hist' = [hist EXCEPT !.calls = hist.calls + 1]
      BY Zenon DEF SetDefault
    <2>2. hist' \in HistType
      BY <2>1, Counted DEF IInv
    <2> QED
      BY <1>1, <1>2, <2>2 DEF IInv, TypeOK
  <1>5. LineIsOwn' /\ ReuseFits'
    BY <1>1, <1>3, SameHeaders DEF IInv
  <1>6. Listed' /\ SaidFollows'
    BY <1>1, <1>2, <1>3, SameLevels DEF IInv
  <1> QED
    BY <1>4, <1>5, <1>6 DEF IInv

\* A header that may be reused fits.
LEMMA ReusableFits ==
  ASSUME TypeOK, NEW m, NEW l, Reusable(m, l)
  PROVE  Fits(fmt, [module |-> m, level |-> l])
  BY DEF TypeOK, Header, Reusable, Occurs, Fits

LEMMA TraceKeeps ==
  ASSUME IInv, NEW t \in Threads, NEW m \in Modules, NEW l \in Levels,
         NEW same \in BOOLEAN, swi_log_trace(t, m, l, same)
  PROVE  IInv'
  <1> DEFINE level == swi_log_musttrace(t, m)
             traced == l <= level
             call == [at |-> IF l <= level THEN "format" ELSE "idle", module |-> m,
                      severity |-> l, reuse |-> same /\ Reusable(m, l), raced |-> FALSE]
  <1>1. /\ UNCHANGED <<env, fmt>>
        /\ cache' = IF Known(t, m) THEN cache ELSE [cache EXCEPT ![t] = [module |-> m, level |-> level]]
        /\ thr' = [thr EXCEPT ![t] = call]
        /\ hist' = [hist EXCEPT !.calls = @ + 1,
                    !.said = [module |-> m, severity |-> l, traced |-> traced]]
        /\ lev' = IF Known(t, m) THEN lev ELSE [lev EXCEPT !.default_level = NewDefault(m)]
    BY Zenon DEF swi_log_trace
  <1>2. level \in Int /\ NewDefault(m) \in Int /\ l \in Int /\ m \in Names
    BY LevelTypes, LogAssumption DEF Names, IInv, TypeOK, Header, swi_log_musttrace
  <1> HIDE DEF level
  <1>0. traced \in BOOLEAN
    OBVIOUS
  <1> HIDE DEF traced
  <1>3. /\ lev'.md_list = lev.md_list
        /\ lev' \in [md_list : Seq([name : Modules, level : Levels]), default_level : Int]
    BY <1>1, <1>2, Zenon DEF IInv, TypeOK
  <1>4. /\ hist'.line = hist.line /\ hist'.set = hist.set
        /\ hist'.said = [module |-> m, severity |-> l, traced |-> traced]
    BY <1>1, Zenon DEF IInv, TypeOK, HistType
  <1>5. cache' \in [Threads -> Header]
    BY <1>1, <1>2 DEF IInv, TypeOK, Header
  <1>6. /\ thr'[t] = call
        /\ \A u \in Threads : u # t => thr'[u] = thr[u]
    BY <1>1 DEF IInv, TypeOK
  <1>7. TypeOK'
    <2>1. call \in CallType
      <3>1. (same /\ Reusable(m, l)) \in BOOLEAN
        BY Zenon
      <3> QED
        BY <1>2, <3>1 DEF CallType
    <2>2. thr' \in [Threads -> CallType]
      <3> HIDE DEF call
      <3> QED
        BY <1>1, <2>1 DEF IInv, TypeOK
    <2>3. hist'.said \in Sayings
      BY <1>0, <1>2, <1>4, SayingFields
    <2>4. /\ hist.calls + 1 \in Int
          /\ hist.line \in Lines
          /\ hist.set \in [Modules -> Seq(Levels)]
      BY DEF IInv, TypeOK, HistType
    <2>5. hist' = [calls |-> hist.calls + 1, line |-> hist.line, said |-> hist'.said, set |-> hist.set]
      BY <1>1, Zenon DEF IInv, TypeOK, HistType
    <2>6. hist' \in HistType
      BY <2>3, <2>4, <2>5 DEF HistType
    <2> QED
      BY <1>1, <1>3, <1>5, <2>2, <2>6 DEF IInv, TypeOK
  <1>8. LineIsOwn'
    BY <1>4, Zenon DEF IInv, LineIsOwn
  <1>9. ReuseFits'
    <2>1. call.reuse => Fits(fmt, [module |-> m, level |-> l])
      BY ReusableFits, Zenon DEF IInv
    <2>2. call.module = m /\ call.severity = l
      OBVIOUS
    <2> HIDE DEF call
    <2> QED
      BY <1>1, <1>6, <2>1, <2>2 DEF IInv, ReuseFits, Fits
  <1>10. \A n : (Settled(n)' <=> Settled(n)) /\ Wanted(n)' = Wanted(n) /\ (Only(n)' <=> Only(n))
    BY <1>1, <1>3, <1>4 DEF Settled, Wanted, Only, Named, Default
  <1>11. Listed'
    BY <1>3, <1>4, <1>10 DEF IInv, Listed
  <1>12. Settled(m) => level = Wanted(m)
    <2>1. Settled(m) => ~ Known(t, m)
      BY DEF Settled, Mistakable, Known
    <2> QED
      BY <2>1, LookupFollows DEF level, swi_log_musttrace, Settled, IInv
  <1>13. SaidFollows'
    <2>1. hist'.said.module = m /\ hist'.said.severity = l /\ hist'.said.traced = traced
      BY <1>0, <1>2, <1>4, SayingFields
    <2>3. Settled(m)' => (l <= level <=> l <= Wanted(m)')
      BY <1>10, <1>12
    <2> QED
      BY <2>1, <2>3, Zenon DEF SaidFollows, traced
  <1> QED
    BY <1>7, <1>8, <1>9, <1>11, <1>13 DEF IInv

\* The shared header changes: a thread that was about to write its line is in a
\* race, another one has nothing to reuse yet.
LEMMA RacedFits ==
  ASSUME TypeOK, NEW T,
         thr' = [u \in Threads |-> IF u \in T THEN Idle
                                  ELSE [thr[u] EXCEPT !.raced = @ \/ thr[u].at = "format"]]
  PROVE  thr' \in [Threads -> CallType] /\ ReuseFits'
  <1>1. ASSUME NEW u \in Threads
        PROVE  /\ [thr[u] EXCEPT !.raced = @ \/ thr[u].at = "format"] \in CallType
               /\ thr'[u].at = "format" => thr'[u].raced
    <2>1. thr[u] \in CallType
      BY DEF TypeOK
    <2>2. (thr[u].raced \/ thr[u].at = "format") \in BOOLEAN
      BY Zenon
    <2>3. [thr[u] EXCEPT !.raced = @ \/ thr[u].at = "format"] \in CallType
      BY <2>1, <2>2, Zenon DEF CallType
    <2>4. thr'[u] = IF u \in T THEN Idle ELSE [thr[u] EXCEPT !.raced = @ \/ thr[u].at = "format"]
      OBVIOUS
    <2>5. CASE u \in T
      BY <2>3, <2>4, <2>5 DEF Idle
    <2>6. CASE u \notin T
      BY <2>1, <2>3, <2>4, <2>6, Zenon DEF CallType
    <2> QED
      BY <2>5, <2>6
  <1>2. Idle \in CallType
    BY DEF Idle, CallType, Names
  <1>3. thr' \in [Threads -> CallType]
    BY <1>1, <1>2, Zenon
  <1>4. ReuseFits'
    BY <1>1, Zenon DEF ReuseFits
  <1> QED
    BY <1>3, <1>4

\* The header shown is the thread's own, or one it may reuse that nobody changed
\* meanwhile; the other threads about to write their line see it change.
LEMMA FormatKeeps ==
  ASSUME IInv, NEW t \in Threads, format_message(t)
  PROVE  IInv'
  <1> DEFINE own == [module |-> thr[t].module, level |-> thr[t].severity]
             shown == IF thr[t].reuse THEN fmt ELSE own
  <1>1. /\ UNCHANGED <<env, lev, cache>> /\ thr[t].at = "format" /\ fmt' = shown
        /\ thr' = [u \in Threads |-> IF u = t THEN Idle
                                     ELSE [thr[u] EXCEPT !.raced = @ \/ thr[u].at = "format"]]
        /\ hist' = [hist EXCEPT !.line = [own |-> own, shown |-> shown, raced |-> thr[t].raced]]
    BY Zenon DEF format_message
  <1>2. /\ own \in Header /\ fmt \in Header /\ thr[t].reuse \in BOOLEAN /\ thr[t].raced \in BOOLEAN
    <2>1. thr[t] \in CallType /\ fmt \in Header
      BY DEF IInv, TypeOK
    <2> QED
      BY <2>1, Zenon DEF CallType, Header
  <1>3. shown \in Header
    BY <1>2
  <1>4. ~ thr[t].raced => Fits(shown, own)
    BY <1>1, <1>2, Zenon DEF IInv, ReuseFits, Fits
  <1> HIDE DEF own, shown
  <1>5. /\ hist'.line = [own |-> own, shown |-> shown, raced |-> thr[t].raced]
        /\ hist'.said = hist.said /\ hist'.set = hist.set
    BY <1>1, Zenon DEF IInv, TypeOK, HistType
  <1>6. LineIsOwn'
    <2>1. hist'.line.own = own /\ hist'.line.shown = shown /\ hist'.line.raced = thr[t].raced
      BY <1>2, <1>3, <1>5, LineFields
    <2> QED
      BY <1>4, <2>1, Zenon DEF LineIsOwn, Fits
  <1>7. ReuseFits' /\ thr' \in [Threads -> CallType]
    <2>1. thr' = [u \in Threads |-> IF u \in {t} THEN Idle
                                   ELSE [thr[u] EXCEPT !.raced = @ \/ thr[u].at = "format"]]
      BY <1>1
    <2> QED
      BY <2>1, RacedFits, Zenon DEF IInv
  <1>8. TypeOK'
    <2>1. hist'.line \in Lines
      BY <1>2, <1>3, <1>5, LineFields
    <2>2. hist' = [hist EXCEPT !.line = hist'.line] /\ hist \in HistType
      BY <1>1, <1>5, Zenon DEF IInv, TypeOK
    <2>3. hist' \in HistType
      BY <2>1, <2>2, HistFields, Zenon
    <2> QED
      BY <1>1, <1>3, <1>7, <2>3 DEF IInv, TypeOK
  <1>9. Listed' /\ SaidFollows'
    BY <1>1, <1>5, SameLevels DEF IInv
  <1> QED
    BY <1>6, <1>7, <1>8, <1>9 DEF IInv

LEMMA SetFormatKeeps ==
  ASSUME IInv, swi_log_setformat
  PROVE  IInv'
  <1>1. /\ UNCHANGED <<env, lev, cache>> /\ fmt' = None
        /\ thr' = [u \in Threads |-> [thr[u] EXCEPT !.raced = @ \/ thr[u].at = "format"]]
        /\ hist' = [hist EXCEPT !.calls = hist.calls + 1]
    BY Zenon DEF swi_log_setformat
  <1>2. /\ hist'.line = hist.line
        /\ hist'.said = hist.said /\ hist'.set = hist.set
    BY <1>1, Zenon DEF IInv, TypeOK, HistType
  <1>3. thr' \in [Threads -> CallType] /\ ReuseFits'
    <2> DEFINE none == {}
    <2>1. thr' = [u \in Threads |-> IF u \in none THEN Idle
                                   ELSE [thr[u] EXCEPT !.raced = @ \/ thr[u].at = "format"]]
      BY <1>1
    <2> HIDE DEF none
    <2> QED
      BY <2>1, RacedFits, Zenon DEF IInv
  <1>4. hist' \in HistType
    BY <1>1, Counted DEF IInv
  <1>5. fmt' \in Header
    BY <1>1 DEF None, Header, Names
  <1>6. TypeOK'
    BY <1>1, <1>3, <1>4, <1>5 DEF IInv, TypeOK
  <1>7. LineIsOwn'
    BY <1>2, Zenon DEF IInv, LineIsOwn
  <1>8. Listed' /\ SaidFollows'
    BY <1>1, <1>2, SameLevels DEF IInv
  <1> QED
    BY <1>3, <1>6, <1>7, <1>8 DEF IInv

-----------------------------------------------------------------------------
LEMMA InitIInv ==
  ASSUME Init PROVE IInv
  <1>1. TypeOK
    <2>1. hist \in HistType
      BY DEF Init, HistType, Lines, Sayings
    <2>2. /\ DOMAIN env \subseteq Nat \ {0} /\ (\A k \in DOMAIN env : env[k].level \in Int) /\ fmt \in Header
          /\ cache \in [Threads -> Header] /\ thr \in [Threads -> CallType]
          /\ lev \in [md_list : Seq([name : Modules, level : Levels]), default_level : Int]
      BY LogAssumption DEF Init, Names, Header, None, Idle, CallType
    <2> QED
      BY <2>1, <2>2 DEF TypeOK
  <1>2. LineIsOwn /\ SaidFollows
    BY DEF Init, LineIsOwn, SaidFollows
  <1>3. ReuseFits
    BY DEF Init, Idle, ReuseFits
  <1>4. Listed
    BY DEF Init, Listed
  <1> QED
    BY <1>1, <1>2, <1>3, <1>4 DEF IInv

LEMMA NextIInv ==
  ASSUME IInv, [Next]_vars PROVE IInv'
  <1>1. ASSUME NEW m \in Modules, NEW l \in Levels,
               \/ swi_log_setlevel(m, l)
               \/ \E t \in Threads, same \in BOOLEAN : swi_log_trace(t, m, l, same)
        PROVE  IInv'
    BY <1>1, SetLevelKeeps, TraceKeeps
  <1>2. ASSUME NEW l \in Levels, SetDefault(l) PROVE IInv'
    BY <1>2, SetDefaultKeeps
  <1>3. ASSUME NEW t \in Threads, format_message(t) PROVE IInv'
    BY <1>3, FormatKeeps
  <1>4. CASE swi_log_setformat
    BY <1>4, SetFormatKeeps
  <1>5. CASE UNCHANGED vars
    <2>1. UNCHANGED <<env, lev, cache, fmt, thr, hist>>
      BY <1>5 DEF vars
    <2>2. TypeOK'
      BY <2>1 DEF IInv, TypeOK
    <2> QED
      BY <2>1, <2>2, SameLevels, SameHeaders DEF IInv
  <1> QED
    BY <1>1, <1>2, <1>3, <1>4, <1>5 DEF Next

LEMMA IInvGives ==
  ASSUME IInv PROVE LogIsOwn
  <1>1. ASSUME hist.said # <<>>, ~ Mistakable(hist.said.module),
               Len(hist.set[hist.said.module]) = 1, Default = {}
        PROVE  hist.said.traced <=> hist.said.severity <= Wanted(hist.said.module)
    <2>1. hist.said.module \in Modules
      BY <1>1 DEF IInv, TypeOK, HistType, Sayings
    <2> QED
      BY <1>1, <2>1, Zenon DEF IInv, SaidFollows, Settled
  <1>2. LevelIsFollowed
    BY <1>1, Zenon DEF LevelIsFollowed, Wanted, Named
  <1> QED
    BY <1>2 DEF IInv, LogIsOwn

\* A line of the log is shown under the module and the severity it was logged
\* for, although swi_log.c reuses the header of an earlier line of any thread,
\* and a module is traced up to the level it was given, although each thread
\* remembers a level of its own and may take one module for another whose name
\* is that of the first with the digit of its level behind it.
THEOREM LogIsOwnThm == Spec => []LogIsOwn
  <1>1. Init => IInv
    BY InitIInv
  <1>2. IInv /\ [Next]_vars => IInv'
    BY NextIInv
  <1>3. IInv => LogIsOwn
    BY IInvGives
  <1> QED
    BY <1>1, <1>2, <1>3, PTL DEF Spec
=============================================================================
