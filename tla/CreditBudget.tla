---------------------------- MODULE CreditBudget ----------------------------
(***************************************************************************)
(* The token credit packer of the axis context (axis/context_builder.py,   *)
(* _apply_token_credit_budget): it picks which bundles of symbols a prompt *)
(* prints, and how richly, within a budget of tokens.                      *)
(*                                                                         *)
(* Coverage buys the cheapest render of each bundle from a lazy heap.      *)
(* Upgrades then climb a ladder of richer renders, in waves over a second  *)
(* heap, or rank by rank with a credit that decays, rung by rung or symbol *)
(* by symbol.  Bundles share symbols and the prompt prints a symbol once,  *)
(* as the first selected bundle that has it renders it: the price of an    *)
(* upgrade depends on what every other bundle shows at that moment.        *)
(*                                                                         *)
(* What a mode prints of a bundle is data, a number of tokens per symbol.  *)
(* What a bundle is worth decides the order in which the heaps are popped  *)
(* and what falls below the density cutoff: both are left open.            *)
(***************************************************************************)
EXTENDS Integers, FiniteSets, Sequences, SequencesExt, FiniteSetsExt

CONSTANTS
    Rows,          \* the bundles of the pool, before packing
    FileOf,        \* the file of each symbol, folded classes included
    Spans,         \* tokens of a symbol's windows, for those retrieval hit
    Profiles,      \* render budgets a request may have
    Budget,        \* token_budget
    ReserveShare,  \* plateau_upgrade_reserve_share; the shares in percent
    SpanShare,     \* decoupled_seed_span_reserve_share
    MaxCoverage,   \* max_coverage_share, as the token budget relaxes it
    HeadShare,     \* rank_decay_head_share
    DecayRate,     \* rank_decay_rate
    ProtectedHead, \* _RANK_DECAY_SPAN_PROTECTED_HEAD
    MinSteps       \* the least bound of a heap walk, 64 in the code

Ladder == <<"impact_surface", "signature_only", "fold_compact", "fold",
            "hybrid_compact", "hybrid", "full">>
Mode == ToSet(Ladder) \cup {"impact_tiered"}
Uid == DOMAIN FileOf
Cutoff == {{}, {"upgrade"}, {"cover", "upgrade"}}
Profile == [mode: Mode, signatures: BOOLEAN, freeze: BOOLEAN,
            rank: {"none", "ladder", "symbols"}, cutoff: Cutoff]

\* Tokens of some of the symbols.
AreTokens(t) == DOMAIN t \subseteq Uid /\ \A u \in DOMAIN t : t[u] \in Nat

ASSUME CreditConstants ==
    /\ IsFiniteSet(Uid)
    /\ Len(Rows) \in Nat /\ DOMAIN Rows = 1..Len(Rows)
    /\ \A i \in DOMAIN Rows :
          /\ Rows[i].seed \in Uid /\ Rows[i].utility \in Int
          /\ DOMAIN Rows[i].text = Mode
          /\ \A m \in Mode : AreTokens(Rows[i].text[m])
          /\ Len(Rows[i].lanes) \in Nat
          /\ DOMAIN Rows[i].lanes = 1..Len(Rows[i].lanes)
          /\ \A j \in DOMAIN Rows[i].lanes :
                /\ Rows[i].lanes[j].target \in DOMAIN Rows[i].text["full"]
                /\ Rows[i].lanes[j].home \in Uid
    /\ AreTokens(Spans)
    /\ Profiles \subseteq Profile
    /\ Budget \in Nat \ {0} /\ MinSteps \in Nat /\ ProtectedHead \in Nat
    /\ {ReserveShare, SpanShare, MaxCoverage, HeadShare, DecayRate} \subseteq 0..100

VARIABLES
    profile,
    bundles,  \* the pool, with the renders of each bundle
    phase,    \* cover, waves, ranks, walk, reserve, lanes, packed
    heap,     \* bundles coverage has not decided on
    stale,    \* those whose value in the heap is not of the last purchase
    selected, \* what is printed: the bundles bought, with their renders
    used,     \* tokens spent
    rejected, \* coverage refused a bundle for its density
    ceiling,  \* upgrade_budget
    wave,     \* the heap walk under way
    upgrades, \* its heap
    steps,    \* pops of this walk
    cache,    \* render_cache: renders asked for, with the limit they met
    turn,     \* the ranked entry whose credit is being spent
    lane,     \* where its lanes are
    covered   \* history: tokens coverage spent

request == <<profile, bundles>>
coverVars == <<heap, stale, rejected>>
waveVars  == <<wave, upgrades, steps, cache>>
rankVars  == <<turn, lane>>
packVars == <<profile, bundles, phase, coverVars, selected, used, ceiling, waveVars,
          rankVars, covered>>

-----------------------------------------------------------------------------
(* The pool.                                                               *)

\* The k-th number of a set, from the smallest on.
Nth(S, k) == CHOOSE i \in S : Cardinality({j \in S : j <= i}) = k

\* One row per seed, where the seed first stands: the row of most utility,
\* the first of them if several have it.
FirstOfSeed == {i \in DOMAIN Rows : \A j \in 1..(i - 1) : Rows[j].seed # Rows[i].seed}
BestRow(i) ==
    CHOOSE j \in DOMAIN Rows :
        /\ Rows[j].seed = Rows[i].seed
        /\ \A k \in DOMAIN Rows : Rows[k].seed = Rows[i].seed =>
              \/ Rows[k].utility < Rows[j].utility
              \/ Rows[k].utility = Rows[j].utility /\ j <= k

\* A symbol of a file no seed is in keeps its signature in every richer mode.
SeedFiles == {FileOf[Rows[i].seed] : i \in DOMAIN Rows}
Frozen(text) ==
    [m \in Mode |-> [u \in DOMAIN text[m] |->
        IF /\ FileOf[u] \notin SeedFiles
           /\ m # "impact_surface" /\ u \in DOMAIN text["signature_only"]
        THEN text["signature_only"][u] ELSE text[m][u]]]

Cost(shows) == SumFunction(shows)
Rendered(mode, shows) == [mode |-> mode, shows |-> shows, cost |-> Cost(shows)]

\* Folding a bundle with nothing to fold returns the bundle as it came.
Renders(row) ==
    LET text == Frozen(row.text)
    IN  [m \in Mode |->
            LET mode == IF m \in {"fold", "fold_compact"} /\ ~row.folds THEN "full" ELSE m
            IN  Rendered(mode, text[mode])]

\* The bundles of the request, each with its renders.
Pool ==
    [b \in 1..Cardinality(FirstOfSeed) |->
        LET row == Rows[BestRow(Nth(FirstOfSeed, b))]
        IN  [seed |-> row.seed, passive |-> row.passive, folds |-> row.folds,
             leader |-> row.leader, lanes |-> row.lanes, renders |-> Renders(row)]]

\* The cap of one ladder step: the budget over the number of leaders.
Leaders == {b \in DOMAIN bundles : bundles[b].leader}
LeaderLimit == Max({1, Budget \div Max({1, Cardinality(Leaders)})})

-----------------------------------------------------------------------------
(* Renders.                                                                *)

Render(b, m) == bundles[b].renders[m]

RungOf(modes, m) == IF \E k \in DOMAIN modes : modes[k] = m
                    THEN CHOOSE k \in DOMAIN modes : modes[k] = m ELSE 0

\* The modes tried for a requested one, from the richest down.
ModesDown(m) ==
    IF RungOf(Ladder, m) = 0 THEN <<m, "fold", "signature_only">>
    ELSE Reverse(SubSeq(Ladder, 1, RungOf(Ladder, m)))

Limited(b, m, limit) ==
    LET down == ModesDown(m)
        fits == {k \in DOMAIN down : \/ Render(b, down[k]).cost <= limit
                                     \/ down[k] \in {"impact_surface", "signature_only"}}
    IN  Render(b, down[Min(fits)])

InitialMode == IF profile.mode \in ToSet(Ladder) THEN profile.mode ELSE "signature_only"

InitialRender(b) ==
    IF profile.signatures \/ bundles[b].passive THEN Render(b, InitialMode)
    ELSE IF bundles[b].folds /\ Render(b, "fold_compact").cost <= LeaderLimit
         THEN Render(b, "fold_compact")
         ELSE Render(b, "signature_only")

\* Rungs an upgrade may go to under this profile.
Rungs == IF profile.mode = "impact_tiered" THEN <<"impact_tiered", "hybrid", "full">>
         ELSE Ladder

-----------------------------------------------------------------------------
(* Prices.                                                                 *)

\* The symbols a selection shows, and the first bundle that shows a symbol.
Shown(sel) == UNION {DOMAIN sel[i].shows : i \in DOMAIN sel}
FirstShowing(sel, u) == Min({i \in DOMAIN sel : u \in DOMAIN sel[i].shows})

\* What the prompt prints of a selection: each symbol as its first bundle
\* shows it.
Printed(sel) == [u \in Shown(sel) |-> sel[FirstShowing(sel, u)].shows[u]]
PrintedTokens(sel) == Cost(Printed(sel))

\* The symbols of a render that no bundle bought before prints.
Fresh(shows) == DOMAIN shows \ Shown(selected)
\* A purchase pays for those.
Price(shows) == SumFunctionOnSet(shows, Fresh(shows))

\* Fault: an upgrade pays the difference of the two renders.
DeltaOfRenders(i, shows) == Cost(shows) - selected[i].cost
\* An upgrade pays what it changes in the prompt, at this moment.
Delta(i, shows) ==
    PrintedTokens([selected EXCEPT ![i].shows = shows]) - used

\* A selected bundle, as it is rendered.
Bought(b, r) == [row |-> b, mode |-> r.mode, shows |-> r.shows, cost |-> r.cost]

\* The density of what is paid may be below the cutoff in force there.
MayBeThin(where, tokens) == where \in profile.cutoff /\ tokens > 0

-----------------------------------------------------------------------------
(* Coverage.                                                               *)

NoWave == [name |-> "none", limit |-> 0, ceiling |-> 0, entries |-> {},
           bypass |-> 0, free |-> FALSE]
NoLane == [at |-> 0, rung |-> "span", ceiling |-> 0, bypass |-> 0,
           done |-> {}, reserved |-> {}]

PackInit ==
    /\ profile \in Profiles /\ bundles = Pool
    /\ phase = "cover"
    /\ heap = DOMAIN bundles /\ stale = DOMAIN bundles
    /\ selected = <<>> /\ used = 0 /\ rejected = FALSE
    /\ ceiling = Budget
    /\ wave = NoWave /\ upgrades = {} /\ steps = 0 /\ cache = <<>>
    /\ turn = 0 /\ lane = NoLane
    /\ covered = 0

Covering == phase = "cover" /\ heap # {} /\ used < Budget
AfterCoverage == <<ceiling, waveVars, rankVars, covered>>

\* A popped bundle whose value has fallen below the next one goes back.
Requeue(b) ==
    /\ Covering /\ b \in stale /\ heap # {b}
    /\ stale' = stale \ {b}
    /\ UNCHANGED <<request, phase, heap, rejected, selected, used, AfterCoverage>>

Thin(b) ==
    /\ Covering /\ b \in heap
    /\ MayBeThin("cover", Price(InitialRender(b).shows))
    /\ heap' = heap \ {b} /\ stale' = stale \ {b}
    /\ rejected' = TRUE
    /\ UNCHANGED <<request, phase, selected, used, AfterCoverage>>

Affordable(b) == selected = <<>> \/ used + Price(InitialRender(b).shows) <= Budget

TooDear(b) ==
    /\ Covering /\ b \in heap
    /\ ~Affordable(b)
    /\ heap' = heap \ {b} /\ stale' = stale \ {b}
    /\ UNCHANGED <<request, phase, rejected, selected, used, AfterCoverage>>

Buy(b) ==
    /\ Covering /\ b \in heap
    /\ Affordable(b)
    /\ LET r == InitialRender(b)
       IN  /\ selected' = Append(selected, Bought(b, r))
           /\ used' = used + Price(r.shows)
    /\ heap' = heap \ {b} /\ stale' = heap'
    /\ UNCHANGED <<request, phase, rejected, AfterCoverage>>

-----------------------------------------------------------------------------
(* The heap walk of an upgrade wave.                                       *)

Limit(b, m, w, c) == IF <<b, m>> \in DOMAIN c THEN c[<<b, m>>] ELSE w.limit
Rung(b, m, w, c) == Limited(b, m, Limit(b, m, w, c))

\* Rungs above the one an entry is at; all of them if it is at none.
Above(e) == (RungOf(Rungs, e.mode) + 1)..Len(Rungs)

\* Fault: any rung but the present mode counts.
ClimbsAnywhere(e, k, r) ==
    /\ Rungs[k] \in {"fold", "fold_compact"} => r.mode = Rungs[k]
    /\ r.mode # e.mode

\* A rung counts only if it is what was asked for and strictly dearer: under
\* a tight limit a rich rung collapses to a cheap one.
Climbs(e, k, r) ==
    /\ Rungs[k] \in {"fold", "fold_compact"} => r.mode = Rungs[k]
    /\ r.mode # e.mode /\ r.cost > e.cost
    /\ RungOf(Rungs, r.mode) \in Above(e)

Higher(e, w, c) == {k \in Above(e) : Climbs(e, k, Rung(e.row, Rungs[k], w, c))}

\* What an entry puts on the heap, and the renders it asks for to find out.
Offer(i, e, w, c) ==
    IF Higher(e, w, c) = {} THEN {}
    ELSE LET r == Rung(e.row, Rungs[Min(Higher(e, w, c))], w, c)
         IN  {[entry |-> i, expected |-> e.cost, render |-> r]}
Asked(e, w, c) ==
    {<<e.row, Rungs[k]>> : k \in {k \in Above(e) : \A h \in Higher(e, w, c) : k <= h}}
Remembered(keys, w, c) ==
    [k \in DOMAIN c \cup keys |-> IF k \in DOMAIN c THEN c[k] ELSE w.limit]

\* Fault: one cache for all waves.
RelaxedSharesCache == cache

\* The two waves after the capped one share a cache, not the capped wave's.
RelaxedCache == <<>>

StartWave(w, c) ==
    /\ phase' = "walk" /\ wave' = w /\ steps' = 0
    /\ upgrades' = UNION {Offer(i, selected[i], w, c) : i \in w.entries}
    /\ cache' = Remembered(UNION {Asked(selected[i], w, c) : i \in w.entries}, w, c)

Wave(name, limit, entries, top) ==
    [name |-> name, limit |-> limit, ceiling |-> top, entries |-> entries,
     bypass |-> 0, free |-> profile.freeze]

Walking == used < wave.ceiling \/ wave.free
MaxSteps == Max({MinSteps, Len(selected) * Len(Ladder) * 4})
WalkOver == upgrades = {} \/ ~Walking \/ steps = MaxSteps

\* The upgrade of an entry, within a ceiling; a protected entry may use its
\* bypass on a rung below the cutoff.
Refused(i, shows, top, bypass) ==
    \/ used + Delta(i, shows) > top
    \/ MayBeThin("upgrade", Delta(i, shows)) /\ bypass = 0
Swap(i, render, top) ==
    /\ used + Delta(i, render.shows) <= top
    /\ selected' = [selected EXCEPT ![i] = Bought(@.row, render)]
    /\ used' = used + Delta(i, render.shows)
BypassAfter(bypass, tokens) ==
    {bypass} \cup IF MayBeThin("upgrade", tokens) /\ bypass > 0 THEN {bypass - 1} ELSE {}

PopRefused(o) ==
    /\ phase = "walk" /\ ~WalkOver /\ o \in upgrades
    /\ \/ selected[o.entry].cost # o.expected
       \/ Refused(o.entry, o.render.shows, wave.ceiling, wave.bypass)
    /\ upgrades' = upgrades \ {o} /\ steps' = steps + 1
    /\ UNCHANGED <<request, phase, coverVars, selected, used, ceiling, wave, cache,
                   rankVars, covered>>

PopUpgrade(o) ==
    /\ phase = "walk" /\ ~WalkOver /\ o \in upgrades
    /\ selected[o.entry].cost = o.expected
    /\ Swap(o.entry, o.render, wave.ceiling)
    /\ \E b \in BypassAfter(wave.bypass, Delta(o.entry, o.render.shows)) :
          wave' = [wave EXCEPT !.bypass = b]
    /\ LET e == selected'[o.entry]
       IN  /\ upgrades' = (upgrades \ {o}) \cup Offer(o.entry, e, wave, cache)
           /\ cache' = Remembered(Asked(e, wave, cache), wave, cache)
    /\ steps' = steps + 1
    /\ UNCHANGED <<request, phase, coverVars, ceiling, rankVars, covered>>

-----------------------------------------------------------------------------
(* From coverage to upgrades, and from wave to wave.                       *)

Share(tokens, percent) == (tokens * percent) \div 100

\* Rank credits are for requests whose coverage left room.
RankActive(tokens) == profile.rank # "none" /\ 100 * tokens <= MaxCoverage * Budget

UpgradeBudget ==
    IF profile.freeze /\ rejected
    THEN Min({Budget, used + Share(Budget, ReserveShare)}) ELSE Budget

EndCoverage ==
    /\ phase = "cover" /\ ~Covering
    /\ covered' = used
    /\ ceiling' = UpgradeBudget
    /\ phase' = IF ~RankActive(used) THEN "waves"
                ELSE IF profile.rank = "ladder" THEN "ranks" ELSE "reserve"
    /\ turn' = 1
    /\ lane' = [NoLane EXCEPT !.ceiling =
                    Min({UpgradeBudget, used + Share(UpgradeBudget, SpanShare)})]
    /\ UNCHANGED <<request, coverVars, selected, used, waveVars>>

StartCapped ==
    /\ phase = "waves"
    /\ StartWave(Wave("capped", LeaderLimit, DOMAIN selected, ceiling), <<>>)
    /\ UNCHANGED <<request, coverVars, selected, used, ceiling, rankVars, covered>>

LeaderEntries == {i \in DOMAIN selected : selected[i].row \in Leaders}

\* With budget left, the leaders climb without the cap, then everyone.
EndWave ==
    /\ phase = "walk" /\ WalkOver /\ wave.name # "rank"
    /\ IF used >= ceiling \/ wave.name = "tail"
       THEN phase' = "packed" /\ UNCHANGED waveVars
       ELSE IF wave.name = "capped" /\ LeaderEntries # {}
       THEN StartWave(Wave("leaders", ceiling, LeaderEntries, ceiling), RelaxedCache)
       ELSE StartWave(Wave("tail", ceiling, DOMAIN selected, ceiling),
                      IF wave.name = "capped" THEN RelaxedCache ELSE cache)
    /\ UNCHANGED <<request, coverVars, selected, used, ceiling, rankVars, covered>>

-----------------------------------------------------------------------------
(* Rank by rank: each entry, as its bundle stands in the pool, has a credit *)
(* of its own.                                                             *)

RowAt(t) == Nth({selected[i].row : i \in DOMAIN selected}, t)

\* The decay of a rank, as a fraction.
Decay[n \in 0..Len(Rows)] ==
    IF n = 0 THEN [of |-> 1, by |-> 1]
    ELSE [of |-> DecayRate * Decay[n - 1].of, by |-> 100 * Decay[n - 1].by]
Credit(b) == (ceiling * HeadShare * Decay[b - 1].of) \div (100 * Decay[b - 1].by)

TurnsOver == turn > Len(selected) \/ Credit(RowAt(turn)) = 0
\* Fault: an entry's turn may spend what the whole pass may.
TurnCeilingOfPass == ceiling
TurnCeiling == Min({ceiling, used + Credit(RowAt(turn))})
\* A seed with windows, in the head, may pass the cutoff once.
TurnBypass ==
    IF /\ "upgrade" \in profile.cutoff
       /\ RowAt(turn) <= ProtectedHead
       /\ bundles[RowAt(turn)].seed \in DOMAIN Spans
    THEN 1 ELSE 0

StartTurn ==
    /\ phase = "ranks"
    /\ IF TurnsOver THEN phase' = "packed" /\ UNCHANGED waveVars
       ELSE StartWave([name |-> "rank", limit |-> ceiling, ceiling |-> TurnCeiling,
                       entries |-> {i \in DOMAIN selected : selected[i].row = RowAt(turn)},
                       bypass |-> TurnBypass, free |-> TRUE],
                      cache)
    /\ UNCHANGED <<request, coverVars, selected, used, ceiling, rankVars, covered>>

EndTurn ==
    /\ phase = "walk" /\ WalkOver /\ wave.name = "rank"
    /\ phase' = IF used >= ceiling THEN "packed" ELSE "ranks"
    /\ turn' = turn + 1
    /\ UNCHANGED <<request, coverVars, selected, used, ceiling, waveVars, lane, covered>>

-----------------------------------------------------------------------------
(* Symbol by symbol: the symbols retrieval has evidence for get their      *)
(* windows and then their bodies, where the prompt shows them.             *)

\* The entry that shows a symbol, 0 if none does.
EntryOf(u) == IF u \in Shown(selected) THEN FirstShowing(selected, u) ELSE 0

Showing(i, u, tokens) ==
    LET shows == selected[i].shows
    IN  [v \in DOMAIN shows \cup {u} |-> IF v = u THEN tokens ELSE shows[v]]

\* The richest text of a symbol in what was selected.
RichestOf(u) ==
    LET texts == {Render(selected[i].row, "full").shows : i \in DOMAIN selected}
    IN  Max({t[u] : t \in {t \in texts : u \in DOMAIN t}})

EndReserve ==
    /\ phase = "reserve"
    /\ turn > Len(selected) \/ Share(ceiling, SpanShare) = 0
    /\ phase' = "lanes" /\ turn' = 1
    /\ UNCHANGED <<request, coverVars, selected, used, ceiling, waveVars, lane, covered>>

\* The windows of the seeds, from a reserve they share.
ReserveSpan ==
    /\ phase = "reserve"
    /\ turn <= Len(selected) /\ Share(ceiling, SpanShare) > 0
    /\ LET u == bundles[RowAt(turn)].seed
           i == EntryOf(u)
       IN  IF u \notin DOMAIN Spans \/ i = 0
           THEN turn' = turn + 1 /\ UNCHANGED <<phase, selected, used, lane>>
           ELSE /\ \/ /\ Refused(i, Showing(i, u, Spans[u]), lane.ceiling, 0)
                      /\ UNCHANGED <<selected, used, lane>>
                   \/ /\ Swap(i, Rendered("symbol", Showing(i, u, Spans[u])), lane.ceiling)
                      /\ lane' = [lane EXCEPT !.reserved = @ \cup {u}]
                /\ IF used' >= lane.ceiling
                   THEN phase' = "lanes" /\ turn' = 1
                   ELSE turn' = turn + 1 /\ UNCHANGED phase
    /\ UNCHANGED <<request, coverVars, ceiling, waveVars, covered>>

spending == <<selected, used>>
OutsideLanes == <<request, coverVars, ceiling, waveVars, covered>>

StartLanes ==
    /\ phase = "lanes" /\ lane.at = 0
    /\ IF TurnsOver THEN phase' = "packed" /\ UNCHANGED lane
       ELSE /\ lane' = [lane EXCEPT !.at = 1, !.rung = "span",
                            !.ceiling = TurnCeiling, !.bypass = TurnBypass]
            /\ UNCHANGED phase
    /\ UNCHANGED <<OutsideLanes, spending, turn>>

LanesOf == bundles[RowAt(turn)].lanes
Target == LanesOf[lane.at].target
\* The entry that shows the symbol, or the one that shows what holds it.
TargetEntry ==
    IF EntryOf(Target) # 0 THEN EntryOf(Target) ELSE EntryOf(LanesOf[lane.at].home)

InLane == phase = "lanes" /\ lane.at > 0 /\ lane.at <= Len(LanesOf)
Skipped == Target \in lane.done \/ TargetEntry = 0
SpanWanted == Target \in DOMAIN Spans \ lane.reserved

SkipLane ==
    /\ InLane /\ Skipped
    /\ lane' = [lane EXCEPT !.at = @ + 1]
    /\ UNCHANGED <<OutsideLanes, spending, phase, turn>>

LeaveLanes ==
    /\ phase = "lanes" /\ lane.at > 0 /\ lane.at > Len(LanesOf)
    /\ turn' = turn + 1 /\ lane' = [lane EXCEPT !.at = 0]
    /\ UNCHANGED <<OutsideLanes, spending, phase>>

\* A refused rung ends the lane, and so does the body.
FinishLane(tokens) ==
    /\ lane' = [lane EXCEPT !.at = @ + 1, !.rung = "span", !.done = @ \cup {Target}]
    /\ phase' = IF tokens >= ceiling THEN "packed" ELSE "lanes"

LaneBypass == IF Target = bundles[RowAt(turn)].seed THEN lane.bypass ELSE 0
Wanted ==
    Showing(TargetEntry, Target,
            IF lane.rung = "span" THEN Spans[Target] ELSE RichestOf(Target))

LaneRefused ==
    /\ InLane /\ ~Skipped
    /\ lane.rung = "span" => SpanWanted
    /\ Refused(TargetEntry, Wanted, lane.ceiling, LaneBypass)
    /\ FinishLane(used)
    /\ UNCHANGED <<OutsideLanes, spending, turn>>

LaneBuys ==
    /\ InLane /\ ~Skipped
    /\ lane.rung = "span" => SpanWanted
    /\ Swap(TargetEntry, Rendered("symbol", Wanted), lane.ceiling)
    /\ \E left \in BypassAfter(LaneBypass, Delta(TargetEntry, Wanted)) :
          LET bypass == lane.bypass - (LaneBypass - left)
          IN  IF lane.rung = "span"
              THEN /\ lane' = [lane EXCEPT !.rung = "body", !.bypass = bypass]
                   /\ UNCHANGED phase
              ELSE /\ lane' = [lane EXCEPT !.at = @ + 1, !.rung = "span",
                                   !.done = @ \cup {Target}, !.bypass = bypass]
                   /\ phase' = IF used' >= ceiling THEN "packed" ELSE "lanes"
    /\ UNCHANGED <<OutsideLanes, turn>>

NoSpan ==
    /\ InLane /\ ~Skipped /\ lane.rung = "span" /\ ~SpanWanted
    /\ lane' = [lane EXCEPT !.rung = "body"]
    /\ UNCHANGED <<OutsideLanes, spending, phase, turn>>

-----------------------------------------------------------------------------
Cover == \E b \in DOMAIN bundles : Requeue(b) \/ Thin(b) \/ TooDear(b) \/ Buy(b)
Walk == \E o \in upgrades : PopRefused(o) \/ PopUpgrade(o)
Lanes == EndReserve \/ ReserveSpan \/ StartLanes \/ SkipLane \/ LeaveLanes
         \/ LaneRefused \/ LaneBuys \/ NoSpan

PackNext ==
    Cover \/ EndCoverage \/ StartCapped \/ Walk \/ EndWave
    \/ StartTurn \/ EndTurn \/ Lanes

PackSpec == PackInit /\ [][PackNext]_packVars

-----------------------------------------------------------------------------
(* Properties.                                                             *)

\* "The ground truth used must track" (context_builder.py:2721): whatever
\* the bundles share and whichever of them shows a shared symbol now, the
\* tokens spent are the tokens the prompt prints.
UsedIsPrinted == used = PrintedTokens(selected)

\* What is printed fits: the budget, unless one bundle alone is larger; the
\* ceiling of a plateau once coverage ended; and, rank by rank, the credits
\* of the entries whose turn has come, first-wins swaps included.
PrintsWithinCredit ==
    /\ PrintedTokens(selected) > Budget => Len(selected) = 1
    /\ phase # "cover" => PrintedTokens(selected) <= Max({covered, ceiling})
    /\ phase # "cover" /\ RankActive(covered) =>
          PrintedTokens(selected) <=
              covered
              + (IF profile.rank = "symbols" THEN Share(ceiling, SpanShare) ELSE 0)
              + SumFunction([t \in 1..Min({turn, Len(selected)}) |-> Credit(RowAt(t))])

\* The bound on the pops of a heap walk is a guard against upgrades that
\* bounce between two renders (context_builder.py:3078): a walk is never cut
\* short by it.
StepBoundIsSlack ==
    phase = "walk" /\ steps = MaxSteps => upgrades = {} \/ ~Walking

\* A render remembered from an earlier request is what this walk's limit
\* gives: waves of different limits do not see each other's renders.
RemembersForThisLimit ==
    phase = "walk" => \A k \in DOMAIN cache :
        Limited(k[1], k[2], cache[k]) = Limited(k[1], k[2], wave.limit)

=============================================================================
