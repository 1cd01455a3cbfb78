----------------------------- MODULE PrefixStore -----------------------------
(***************************************************************************)
(* The shared prefix cache with its named contexts (engine.c: PFX), the    *)
(* slots' own caches (engine_rewind) and the steps in which a request, a   *)
(* context creation or an export use them (completion.c, server.c).        *)
(*                                                                         *)
(* The cache is a linked list of snapshots under PFX.mu: each critical     *)
(* section is one action.  A snapshot's contents, and a slot's KV rows and *)
(* recurrent state, are abstracted to the token sequence they were computed*)
(* from; attention rows may be sliced, a recurrent fold may not.  One model*)
(* is loaded, without a KV ring and without tied-V.  There is no drafting, *)
(* so no speculation snapshot of the fold for a rewind to restore, and a   *)
(* turn mark can always be taken and restored.                             *)
(***************************************************************************)
EXTENDS Integers, Sequences, SequencesExt, FiniteSets, FiniteSetsExt, Functions

CONSTANTS Slots,       \* the slot threads
          Names,       \* context names
          Prompts,     \* the prompts clients send, as token sequences
          Contexts,    \* the prompts clients pin, two tokens at least
          Modes,       \* the modes of requests, among those of AllModes
          Tokens,      \* what a generation may produce
          MinTokens,   \* PFX_MIN_TOKENS (16)
          MaxEntries,  \* PFX_MAX_ENTRIES (64)
          Budget,      \* PFX.budget, in tokens' worth of bytes
          Folds,       \* bytes of a recurrent fold; 0 for attention only
          Expires,     \* whether entries may outlive the TTL
          AllocFails,  \* whether a store's allocation may fail
          NoName       \* an entry that is not pinned, a request without context

\* How a request uses the caches: both tiers (share), the slot's own only
\* (prefix_cache false), neither (cache_prompt false), or neither and published
\* all the same (a prompt that is scored).
AllModes == {"share", "own", "fresh", "score"}

ASSUME PrefixAssumption ==
    /\ IsFiniteSet(Slots)
    /\ NoName \notin Names
    /\ Modes \subseteq AllModes
    /\ Prompts \subseteq Seq(Nat) \ {<<>>}   \* an empty prompt is answered 400
    /\ Contexts \subseteq Seq(Nat) /\ \A toks \in Contexts : Len(toks) >= 2
    /\ Tokens \subseteq Nat
    /\ MinTokens \in Nat \ {0} /\ MaxEntries \in Nat \ {0}
    /\ Budget \in Nat \ {0} /\ Folds \subseteq Nat
    /\ Expires \in BOOLEAN /\ AllocFails \in BOOLEAN

VARIABLES
    \* PFX, guarded by PFX.mu
    list,     \* the linked entries, the newest at the head
    bytes,    \* PFX.bytes
    dropped,  \* unlinked entries that an export still reads
    \* the model that is served: the bytes of its fold, 0 if it has none
    fold,
    \* the slots
    pc,       \* where the slot's request stands
    req,      \* its prompt, the context it names, that context's length
    hist,     \* e->hist[0, e->pos)
    state,    \* the tokens the slot's rows (and fold) were computed from
    mark,     \* the turn mark of a recurrent slot: the tokens it folds
    gone      \* history: the slots whose named context was released, replaced
              \* or cleared since they checked it

storeVars == <<list, bytes, dropped, fold>>
slotVars  == <<hist, state, mark>>
vars == <<storeVars, pc, req, slotVars, gone>>

Recurrent == fold > 0

\* An entry: its tokens, what its rows were computed from, its name if pinned,
\* whether it was ever forked, its places in the order of use and in the order
\* of insertion (1 is the least recent) and the slots whose exports read it.
Entries == [toks : Seq(Nat), kv : Seq(Nat), name : Names \cup {NoName},
            hit : BOOLEAN, used : Nat, born : Nat, readers : SUBSET Slots]

----------------------------------------------------------------------------
(* Token sequences *)

Take(s, n) == SubSeq(s, 1, n)

\* How many leading tokens two sequences share.
Common(s, t) == Max({n \in 0 .. Min({Len(s), Len(t)}) : Take(s, n) = Take(t, n)})

\* prefix_cache_entry_bytes
EntryBytes(n) == n + fold

----------------------------------------------------------------------------
(* The store, as a record: what one critical section works on *)

Store == [list |-> list, bytes |-> bytes, dropped |-> dropped]

Becomes(st) ==
    /\ list' = st.list /\ bytes' = st.bytes /\ dropped' = st.dropped
    /\ UNCHANGED fold

Pinned(e) == e.name # NoName

\* Both orders as ranks again, after entries left or were used.
Rank(e, L) == [e EXCEPT !.used = Cardinality({d \in L : d.used <= e.used}),
                        !.born = Cardinality({d \in L : d.born <= e.born})]

Ranked(L) == {Rank(e, L) : e \in L}

\* The entry of S that a scan from the head meets first.
Newest(S) == CHOOSE e \in S : \A d \in S : d.born <= e.born

Size(e) == EntryBytes(Len(e.toks))
Bytes(S) == SumFunctionOnSet([e \in S |-> Size(e)], S)

\* For mutation: an entry is freed whoever reads it.
DropRead(st, out) ==
    [list    |-> Ranked(st.list \ out),
     bytes   |-> st.bytes - Bytes(out),
     dropped |-> st.dropped]

\* pfx_drop of the entries in out: unlinked, their bytes given back, freed
\* unless an export reads them.
Drop(st, out) ==
    [list    |-> Ranked(st.list \ out),
     bytes   |-> st.bytes - Bytes(out),
     dropped |-> st.dropped \cup {[e EXCEPT !.used = 0, !.born = 0] :
                                     e \in {d \in out : d.readers # {}}}]

\* Entry e is used now; hit says whether it has ever been forked.
Touch(st, e, hit) ==
    LET touched == [e EXCEPT !.used = Cardinality(st.list) + 1, !.hit = hit]
    IN  [st EXCEPT !.list = Ranked((@ \ {e}) \cup {touched})]

\* For mutation: a pinned entry expires like any other.
ExpirePinned(st, k) == Drop(st, {e \in st.list : e.used <= k})

\* pfx_expire when the k least recently used entries are older than the TTL.
Expire(st, k) == Drop(st, {e \in st.list : e.used <= k /\ ~Pinned(e)})

\* How many of them may have expired by now.
Aged == IF Expires THEN 0 .. Cardinality(list) ELSE {0}

\* The first k entries pfx_trim evicts: those nobody forked yet first, least
\* recently used first, never a pinned one.
Evictable(st) == {e \in st.list : ~Pinned(e)}

Victims(st, k) ==
    LET Before(d, e) == IF d.hit = e.hit THEN d.used < e.used ELSE e.hit
    IN  {e \in Evictable(st) : Cardinality({d \in Evictable(st) : Before(d, e)}) < k}

\* pfx_trim: evict until need more bytes fit and an entry is free, or nothing
\* evictable is left.
Trim(st, need) ==
    LET After(k) == Drop(st, Victims(st, k))
        Fits(k) == /\ After(k).bytes + need <= Budget
                   /\ Cardinality(After(k).list) < MaxEntries
        all == Cardinality(Evictable(st))
        ks == {k \in 0 .. all : Fits(k)}
    IN  After(IF ks = {} THEN all ELSE Min(ks))

\* A new entry becomes the head of the list.
Insert(st, toks, kv, name) ==
    LET new == [toks |-> toks, kv |-> kv, name |-> name, hit |-> FALSE, readers |-> {},
                used |-> Cardinality(st.list) + 1, born |-> Cardinality(st.list) + 1]
    IN  [st EXCEPT !.list = @ \cup {new}, !.bytes = @ + EntryBytes(Len(toks))]

\* pfx_find_named
Named(st, name) == {e \in st.list : e.name = name}

----------------------------------------------------------------------------
(* A slot's own cache *)

\* engine_rewind: what the slot keeps of its history for a new prompt.  A
\* recurrent fold cannot be cut: it stays whole, goes back to the turn mark,
\* or starts over.
Rewind(s, toks) ==
    LET agree == Min({Common(hist[s], toks), Len(toks) - 1})
        onMark == mark[s] # <<>> /\ Len(mark[s]) <= agree /\ IsPrefix(mark[s], toks)
        keep == IF ~Recurrent \/ agree = Len(hist[s]) THEN agree
                ELSE IF onMark THEN Len(mark[s]) ELSE 0
    IN  [keep  |-> keep,
         state |-> IF ~Recurrent \/ keep = Len(hist[s]) THEN Take(state[s], keep)
                   ELSE IF keep > 0 THEN mark[s] ELSE <<>>,
         mark  |-> IF Len(mark[s]) > keep THEN <<>> ELSE mark[s]]

\* engine_prefix_reuse: the slot's own cache first, then the longest snapshot
\* that says more.  Some k of the entries have expired.
Shared(e, toks) == Min({Common(e.toks, toks), Len(toks) - 1})

Best(st, toks) == Max({0} \cup {Shared(e, toks) : e \in st.list})

Hit(st, toks) == Newest({e \in st.list : Shared(e, toks) = Best(st, toks)})

\* A recurrent snapshot serves only as a whole.
Sliceable(e, best) == ~Recurrent \/ best = Len(e.toks)

Forkable(st, toks, keep) ==
    LET best == Best(st, toks)
    IN  /\ best >= MinTokens /\ best > keep
        /\ Sliceable(Hit(st, toks), best)

Reuse(s, toks, k) ==
    LET own  == Rewind(s, toks)
        st   == IF Len(toks) < 2 THEN Store ELSE Expire(Store, k)
        best == Best(st, toks)
        e    == Hit(st, toks)
    IN  IF Len(toks) >= 2 /\ Forkable(st, toks, own.keep)
        THEN [keep |-> best, mark |-> own.mark,
              state |-> IF Recurrent THEN e.kv ELSE Take(e.kv, best),
              store |-> Touch(st, e, TRUE)]
        ELSE [keep |-> own.keep, mark |-> own.mark, state |-> own.state, store |-> st]

\* The slot's engine after a reuse: history, rows and position agree on keep.
Install(s, toks, r) ==
    /\ hist' = [hist EXCEPT ![s] = Take(toks, r.keep)]
    /\ state' = [state EXCEPT ![s] = r.state]
    /\ mark' = [mark EXCEPT ![s] = r.mark]

\* A recurrent slot feeds its prompt up to one token short of the end, marks its
\* fold there, and feeds the last token on its own.
MarkAt(s) ==
    IF Recurrent /\ pc[s] = "feed" /\ req[s].mode \in {"share", "own"} /\ Len(req[s].toks) > 1
    THEN Len(req[s].toks) - 1 ELSE Len(req[s].toks)

\* engine_feed of what is not kept, engine_mark_turn included.
Feed(s, toks) ==
    LET rest(n) == SubSeq(toks, Len(hist[s]) + 1, n)
    IN  /\ hist' = [hist EXCEPT ![s] = toks]
        /\ state' = [state EXCEPT ![s] = @ \o rest(Len(toks))]
        /\ mark' = [mark EXCEPT ![s] = IF MarkAt(s) < Len(toks)
                                      THEN state[s] \o rest(MarkAt(s)) ELSE @]

----------------------------------------------------------------------------
(* Publishing *)

\* For mutation: the recurrent snapshot is cut short like any other.
StoreLenCut(n) ==
    IF EntryBytes(n) <= Budget \div 2 THEN n ELSE Budget \div 2 - fold

\* How much of an n-token prompt may be stored: half the budget; what cannot
\* be cut short is then not stored at all.
StoreLen(n) ==
    IF EntryBytes(n) <= Budget \div 2 THEN n
    ELSE IF Recurrent THEN 0 ELSE (Budget \div 2) \div EntryBytes(1)

Extends(toks, e) == IsStrictPrefix(e.toks, toks)

\* The entries that already cover toks.
Covers(st, toks) == {e \in st.list : IsPrefix(toks, e.toks)}

\* Entries the prompt strictly extends are dropped as the scan meets them, up
\* to an entry that covers it; pinned ones stay.
Superseded(st, toks) ==
    {e \in st.list : /\ Extends(toks, e) /\ ~Pinned(e)
                     /\ \A c \in Covers(st, toks) : c.born < e.born}

\* The longest prefix shared with an entry the prompt diverges from.
DivergeAt(st, toks) ==
    Max({0} \cup {Common(e.toks, toks) : e \in {d \in st.list :
            ~IsPrefix(toks, d.toks) /\ ~IsPrefix(d.toks, toks)}})

\* What engine_prefix_publish makes of the store for the prompt toks whose
\* rows are kv; alloc says whether its allocations succeed.
Published(st, toks, kv, alloc) ==
    LET st1     == Drop(st, Superseded(st, toks))
        covers  == Covers(st1, toks)
        diverge == DivergeAt(st1, toks)
        sibling == Newest({e \in st1.list : Common(e.toks, toks) >= diverge})
        need    == EntryBytes(Len(toks))
        st2     == Trim(st1, need)
    IN  IF covers # {} THEN Touch(st1, Newest(covers), Newest(covers).hit)
        ELSE IF ~Recurrent /\ diverge >= MinTokens /\ diverge < Len(toks)
        THEN Touch(st1, sibling, sibling.hit)
        ELSE IF st2.bytes + need > Budget \/ ~alloc THEN st2
        ELSE Insert(st2, toks, kv, NoName)

\* The bytes a new pin may count as free: those of the context it replaces.
OldBytes(st, name) == Bytes(Named(st, name))

\* For mutation: the new entry alone is held against the budget.
PinFitsTwice(st, toks, name) == EntryBytes(Len(toks)) <= Budget

PinFits(st, toks, name) == st.bytes - OldBytes(st, name) + EntryBytes(Len(toks)) <= Budget

----------------------------------------------------------------------------
NoReq == [toks |-> <<>>, name |-> NoName, len |-> 0, mode |-> "share"]

Init ==
    /\ list = {} /\ bytes = 0 /\ dropped = {}
    /\ fold \in Folds
    /\ pc = [s \in Slots |-> "idle"]
    /\ req = [s \in Slots |-> NoReq]
    /\ hist = [s \in Slots |-> <<>>]
    /\ state = [s \in Slots |-> <<>>]
    /\ mark = [s \in Slots |-> <<>>]
    /\ gone = {}

Goto(s, p) == pc' = [pc EXCEPT ![s] = p]
Finish(s) == Goto(s, "idle") /\ req' = [req EXCEPT ![s] = NoReq]

\* The contexts in names are taken from the requests that wait to fork them.
TakenFrom(names) ==
    gone' = gone \cup {s \in Slots : pc[s] = "fork" /\ req[s].name \in names}

\* A request without a context.
Begin(s) ==
    /\ pc[s] = "idle"
    /\ \E toks \in Prompts, mode \in Modes :
          req' = [req EXCEPT ![s] = [NoReq EXCEPT !.toks = toks, !.mode = mode]]
    /\ Goto(s, "fork")
    /\ UNCHANGED <<storeVars, slotVars, gone>>

\* A request that names a context: prefix_context_check must find it pinned and
\* the prompt must strictly extend it.
BeginNamed(s) ==
    /\ pc[s] = "idle"
    /\ \E toks \in Prompts : \E e \in {d \in list : Pinned(d)} :
          /\ IsStrictPrefix(e.toks, toks)
          /\ req' = [req EXCEPT ![s] = [toks |-> toks, name |-> e.name,
                                        len |-> Len(e.toks), mode |-> "share"]]
    /\ Goto(s, "fork")
    /\ UNCHANGED <<storeVars, slotVars, gone>>

\* What the slot keeps for its prompt, in the device turn.
Kept(s, k) ==
    LET own == Rewind(s, req[s].toks)
    IN  CASE req[s].mode = "share" -> Reuse(s, req[s].toks, k)
          [] req[s].mode = "own"   -> [keep |-> own.keep, mark |-> own.mark,
                                       state |-> own.state, store |-> Store]
          [] OTHER                 -> [keep |-> 0, mark |-> <<>>, state |-> <<>>, store |-> Store]

Fork(s) ==
    /\ pc[s] = "fork"
    /\ \E k \in Aged :
          LET r == Kept(s, k)
          IN  /\ Install(s, req[s].toks, r)
              /\ Becomes(r.store)
              /\ Goto(s, IF req[s].name # NoName /\ r.keep < req[s].len
                         THEN "refused" ELSE "feed")
    /\ gone' = gone \ {s}
    /\ UNCHANGED req

\* 409: the named context could not be forked.
Refuse(s) ==
    /\ pc[s] = "refused"
    /\ Finish(s)
    /\ UNCHANGED <<storeVars, slotVars, gone>>

Publishes(s) == req[s].mode \in {"share", "score"} /\ Len(req[s].toks) >= MinTokens

\* The rest of the prompt is fed and, unless the request opted out, the prompt
\* is published.
FeedAndPublish(s) ==
    /\ pc[s] = "feed"
    /\ Feed(s, req[s].toks)
    /\ \/ /\ Publishes(s)
          /\ \E k \in Aged, alloc \in {TRUE, ~AllocFails} :
                LET st == Expire(Store, k)
                    n  == StoreLen(Len(req[s].toks))
                IN  IF n < MinTokens THEN Becomes(st)
                    ELSE Becomes(Published(st, Take(req[s].toks, n),
                                           IF Recurrent THEN state'[s] ELSE Take(state'[s], n),
                                           alloc))
       \/ ~Publishes(s) /\ UNCHANGED storeVars
    /\ Goto(s, "generate")
    /\ UNCHANGED <<req, gone>>

\* The feed is stopped between two chunks (deadline, client gone, shutdown), or
\* a scored prompt has no tables: the slot keeps what it has and nothing is
\* published or pinned.
FeedStopped(s) ==
    /\ pc[s] \in {"feed", "pin"}
    /\ \E n \in (IF req[s].mode = "score" THEN 0 ELSE Len(hist[s]) + 1) .. MarkAt(s) - 1 :
          /\ hist' = [hist EXCEPT ![s] = Take(req[s].toks, n)]
          /\ state' = [state EXCEPT ![s] = @ \o SubSeq(req[s].toks, Len(hist[s]) + 1, n)]
    /\ Finish(s)
    /\ UNCHANGED <<storeVars, mark, gone>>

\* The generation appends to the slot's history; at most one token here.
Generate(s) ==
    /\ pc[s] = "generate"
    /\ \E g \in {<<>>} \cup {<<t>> : t \in Tokens} :
          /\ hist' = [hist EXCEPT ![s] = @ \o g]
          /\ state' = [state EXCEPT ![s] = @ \o g]
    /\ Finish(s)
    /\ UNCHANGED <<storeVars, mark, gone>>

----------------------------------------------------------------------------
(* Named contexts *)

\* POST /v1/runner/contexts: the prompt is forked from what there is ...
PinBegin(s) ==
    /\ pc[s] = "idle"
    /\ \E toks \in Contexts, name \in Names, k \in Aged :
          LET r == Reuse(s, toks, k)
          IN  /\ req' = [req EXCEPT ![s] = [NoReq EXCEPT !.toks = toks, !.name = name]]
              /\ Install(s, toks, r)
              /\ Becomes(r.store)
    /\ Goto(s, "pin")
    /\ UNCHANGED gone

\* prefix_context_pin and prefix_context_import once the new entry is built: it
\* replaces the context of its name if it fits with the old one's bytes
\* credited.  A refusal leaves the old one.
Pin(toks, kv, name) ==
    \E k \in Aged :
       LET st0  == Expire(Store, k)
           old  == OldBytes(st0, name)
           need == EntryBytes(Len(toks))
           st   == Trim(st0, IF need > old THEN need - old ELSE 0)
       IN  IF PinFits(st, toks, name)
           THEN /\ Becomes(Insert(Drop(st, Named(st, name)), toks, kv, name))
                /\ TakenFrom({name})
           ELSE Becomes(st) /\ UNCHANGED gone

\* ... the rest is fed, and the slot's rows are pinned under the name.
PinEnd(s) ==
    /\ pc[s] = "pin"
    /\ Feed(s, req[s].toks)
    /\ \/ Pin(req[s].toks, state'[s], req[s].name)
       \/ AllocFails /\ UNCHANGED <<storeVars, gone>>
    /\ Finish(s)

\* DELETE /v1/runner/contexts/{id}, from a slot.
Release(name) ==
    /\ Named(Store, name) # {}
    /\ Becomes(Drop(Store, Named(Store, name)))
    /\ TakenFrom({name})
    /\ UNCHANGED <<pc, req, slotVars>>

\* prefix_cache_clear: the operator's, an unload's, the shutdown's.
Clear ==
    /\ list # {}
    /\ Becomes([Drop(Store, list) EXCEPT !.bytes = 0])
    /\ TakenFrom(Names)
    /\ UNCHANGED <<pc, req, slotVars>>

\* prefix_context_export: the entry is found and counted as read ...
ExportBegin(s) ==
    /\ pc[s] = "idle"
    /\ \E e \in list :
          /\ Pinned(e)
          /\ list' = (list \ {e}) \cup {[e EXCEPT !.readers = @ \cup {s}]}
          /\ req' = [req EXCEPT ![s].toks = e.toks]
    /\ Goto(s, "export")
    /\ UNCHANGED <<bytes, dropped, fold, slotVars, gone>>

\* ... written without the lock, and let go: the last reader frees an entry that
\* was dropped meanwhile (pfx_release_reader).
Unread(e, s) == [e EXCEPT !.readers = @ \ {s}]

ReleaseReader(s) ==
    /\ list' = {Unread(e, s) : e \in list}
    /\ dropped' = {e \in {Unread(d, s) : d \in dropped} : e.readers # {}}

ExportEnd(s) ==
    /\ pc[s] = "export"
    /\ ReleaseReader(s)
    /\ Finish(s)
    /\ UNCHANGED <<bytes, fold, slotVars, gone>>

\* prefix_context_import: a snapshot of an earlier export is pinned.  The file
\* was checked, so its rows are those of its tokens.
Import ==
    /\ \E toks \in Contexts, name \in Names : Pin(toks, toks, name)
    /\ UNCHANGED <<pc, req, slotVars>>

----------------------------------------------------------------------------
Next ==
    \/ \E s \in Slots :
          \/ Begin(s) \/ BeginNamed(s) \/ Fork(s) \/ Refuse(s)
          \/ FeedAndPublish(s) \/ FeedStopped(s) \/ Generate(s)
          \/ PinBegin(s) \/ PinEnd(s)
          \/ ExportBegin(s) \/ ExportEnd(s)
    \/ \E name \in Names : Release(name)
    \/ Clear
    \/ Import

Spec == Init /\ [][Next]_vars

----------------------------------------------------------------------------
TypeOK ==
    /\ list \subseteq Entries
    /\ bytes \in Nat /\ fold \in Folds
    /\ dropped \subseteq Entries
    /\ pc \in [Slots -> {"idle", "fork", "refused", "feed", "generate", "pin", "export"}]
    /\ req \in [Slots -> [toks : Seq(Nat), name : Names \cup {NoName}, len : Nat,
                          mode : AllModes]]
    /\ gone \subseteq Slots
    /\ \A v \in {hist, state, mark} : v \in [Slots -> Seq(Nat)]

\* PFX.bytes is what the linked entries occupy, whatever sequence of stores,
\* evictions, expiries, re-pins and drops led here, and it stays in the budget.
BytesExact ==
    /\ bytes = Bytes(list)
    /\ bytes <= Budget

\* The slot's rows (and fold) are those of the history the slot goes by, and an
\* entry's are those of its tokens: "installing a prefix that does not match the
\* prompt is the one failure mode that produces a plausible wrong answer"
\* (engine.h).  Covers rewinds, forks, cut snapshots and turn marks.
RowsAreTokens ==
    /\ \A s \in Slots : state[s] = hist[s] /\ IsPrefix(mark[s], hist[s])
    /\ \A e \in list \cup dropped : e.kv = e.toks

\* An export reads, without the lock, the entry it found: dropped, replaced or
\* cleared meanwhile, it is not freed before its last reader is done, and
\* then it is.
ReadersSafe ==
    /\ \A s \in Slots : pc[s] = "export" =>
          \E e \in list \cup dropped : s \in e.readers /\ e.toks = req[s].toks
    /\ \A e \in dropped : e.readers # {}

\* A request that named a context is refused only when the context was released,
\* replaced or cleared after its check: no eviction, expiry or publish of another
\* request takes a pinned context away or gets in front of it.  (Two cases apart:
\* the cache forks nothing below MinTokens, and on a recurrent model the entry that
\* matches furthest is the only one tried.)
RefusedOnlyIfGone ==
    [][\A s \in Slots : (pc[s] = "fork" /\ pc'[s] = "refused") =>
          s \in gone \/ req[s].len < MinTokens \/ Recurrent]_vars
=============================================================================
