------------------------------ MODULE Cluster ------------------------------
(* Cluster configuration sync (meshtastic_cluster.c, meshtastic_cluster_doc.c):
   the replicated document of every member, the digest that states it, the
   walk (vector request, vector, entry request, entries in fragments) that
   repairs a difference, push on change, the declared scope and its narrowing,
   the local writers promote / pin / unpin / publish, persistence, and the
   reconciler that applies the document to the configuration store.

   Three threads meet in a node: the RX thread (On...), the system work queue
   (Digest, Tx, Reconcile...) and the shell (the writers).  cluster_lock makes
   each action below one step; where the code gives the lock up between two
   accesses (on_entry's gate and its merge, a writer's reading of the store
   and its write) there are two.

   The hash of the digest stands for the rows it covers (key, stamp, tombstone),
   so entry_count follows from it.  Statistics and logging are left out.      *)
EXTENDS Hlc, FiniteSets, FiniteSetsExt, SequencesExt

CONSTANTS
    Nodes,          \* members, by node id (positive)
    Setups,         \* what a run starts from and may spend (see Init)
    PayloadLen,     \* [value -> its length in fragments]
    Private,        \* sections without a place in the configuration store (FW)
    Held,           \* sections replicated and never applied (lora)
    VectorRows,     \* CLUSTER_VECTOR_ROWS
    PullKeys,       \* CLUSTER_PULL_KEYS
    ServeBurst,     \* CLUSTER_SERVE_BURST
    PushBurst,      \* CLUSTER_PUSH_BURST
    PushQueue,      \* CLUSTER_PUSH_QUEUE
    Threshold,      \* CLUSTER_FRUITLESS_THRESHOLD
    BackstopPeriods \* CONFIG_MESHTASTIC_CLUSTER_BACKSTOP_PERIODS

ASSUME ClusterConstants ==
    /\ Nodes \subseteq Nat \ {0}
    /\ PushBurst \in 1..PushQueue
    \* BUILD_ASSERT: the table holds base and this node's own sections.
    /\ \A s \in Setups : 2 * Cardinality(DOMAIN s.tag) <= s.cap

VARIABLES
    ram,        \* [node -> the static struct cluster and what its threads hold]
    flash,      \* [node -> the mtclus/ subtree: rows and recorded scope]
    cfg,        \* [node -> the configuration store: its clock and sections]
    saved,      \* [node -> the sections as the last save left them in flash]
    wall,       \* [node -> wall clock; 0 when it was never set]
    known,      \* [node -> nodes whose NodeInfo and key it holds]
    air,        \* frames on the way, one copy for each receiver
    left,       \* what of the setup's budget is left
    setup,
    minted      \* every version written so far (history)

vars == <<ram, flash, cfg, saved, wall, known, air, left, setup, minted>>

Tomb == "tombstone"
Junk == "fragments of two versions"
NoRow == [stamp |-> Unset, val |-> "none", sig |-> FALSE]
Values == DOMAIN PayloadLen
LenOf(v) == IF v = Tomb THEN 0 ELSE PayloadLen[v]
Nothing == [key |-> <<0, "none">>]

----------------------------------------------------------------------------
(* The document.  A key is <<owner, section>>; owner 0 is the BASE layer.    *)

Sections == DOMAIN setup.tag
Keys == ({0} \cup Nodes) \X Sections

\* Total order over keys: layer, node, section tag.
KeyBefore(a, b) ==
    \/ a[1] < b[1]
    \/ a[1] = b[1] /\ setup.tag[a[2]] < setup.tag[b[2]]

Present(d) == {k \in DOMAIN d : d[k].stamp # Unset}
Table(d) == SetToSortSeq(Present(d), KeyBefore)

Scope(kind, owner) == [kind |-> kind, owner |-> IF kind = "core" THEN owner ELSE 0]
BaseScope == Scope("base", 0)

ClaimsNoBase(scope, key) == scope.kind = "full" \/ key[1] = scope.owner

\* The one membership rule.
Claims(scope, key) ==
    \/ scope.kind = "full"
    \/ key[1] = 0
    \/ scope.kind = "core" /\ key[1] = scope.owner

Intersect(a, b) ==
    IF a.kind = "full" THEN b
    ELSE IF b.kind = "full" THEN a
    ELSE IF a.kind = "core" /\ a = b THEN a
    ELSE BaseScope

\* What the hash of a digest covers: payloads and signatures are not in it.
Rows(d, scope) ==
    {<<k, d[k].stamp, d[k].val = Tomb>> : k \in {x \in Present(d) : Claims(scope, x)}}

MaxStamp(rows) ==
    IF rows = {} THEN Unset
    ELSE (CHOOSE r \in rows : \A q \in rows : ~Newer(q[2], r[2]))[2]

\* meshtastic_cluster_doc_accept_signed: last writer wins.
Accept(d, k, stamp, val) ==
    IF k[1] = 0 /\ val = Tomb THEN "invalid"
    ELSE IF k \in Present(d) THEN IF Newer(stamp, d[k].stamp) THEN "applied" ELSE "stale"
    ELSE IF Cardinality(Present(d)) >= setup.cap THEN "no_space"
    ELSE "applied"

\* meshtastic_cluster_doc_want
Want(d, scope, k, stamp) ==
    IF ~Claims(scope, k) THEN "no"
    ELSE IF k \in Present(d) THEN IF Newer(stamp, d[k].stamp) THEN "yes" ELSE "no"
    ELSE IF Cardinality(Present(d)) < setup.cap THEN "yes" ELSE "no_space"

Retain(d, scope) == [k \in DOMAIN d |-> IF Claims(scope, k) THEN d[k] ELSE NoRow]

\* meshtastic_cluster_doc_effective: a node's own row unless it is a tombstone, else base.
Effective(d, n, s) ==
    IF <<n, s>> \in Present(d) /\ d[<<n, s>>].val # Tomb THEN d[<<n, s>>] ELSE d[<<0, s>>]

\* meshtastic_cluster_doc_effective_version: the newest stamp of both layers.
EffectiveVersion(d, n, s) ==
    IF Newer(d[<<0, s>>].stamp, d[<<n, s>>].stamp) THEN d[<<0, s>>].stamp
    ELSE d[<<n, s>>].stamp

----------------------------------------------------------------------------
(* A node's RAM.                                                             *)

NoVec == [dest |-> 0, off |-> 0, sent |-> 0, kind |-> "full"]
NoEnt == [dest |-> 0, keys |-> <<>>, off |-> 0]
NoAsm == [from |-> 0]

CompiledKind == IF setup.build = "core" THEN "core" ELSE "full"
CompiledPin == setup.build # "auto"

\* meshtastic_cluster_init on the rows and the scope that flash gave back.
Boot(kind, doc, clk) ==
    [doc |-> doc, hlc |-> clk, kind |-> kind, pinned |-> CompiledPin,
     pull |-> "idle", why |-> "digest", peer |-> 0, want |-> <<>>,
     asked |-> FALSE, merged |-> FALSE, fruitless |-> 0, held |-> FALSE,
     vec |-> NoVec, ent |-> NoEnt, push |-> <<>>, poff |-> 0, asm |-> NoAsm,
     serve |-> ServeBurst, ptok |-> PushBurst, bpeer |-> 0, bcount |-> 0,
     tx |-> FALSE, rec |-> Present(doc) # {}, rx |-> Nothing, op |-> Nothing,
     heard |-> [m \in Nodes |-> "never"], chan |-> TRUE]

MyScope(n, r) == Scope(r.kind, n)

PullReset(r) ==
    [r EXCEPT !.pull = "idle", !.why = "digest", !.peer = 0, !.want = <<>>]
FragReset(r) == [r EXCEPT !.ent.off = 0, !.poff = 0, !.asm = NoAsm]
DropExchange(r) == FragReset([PullReset(r) EXCEPT !.vec = NoVec, !.ent = NoEnt])

\* scope_set_locked: the claim, and the table made to match it.
ScopeSet(n, r, kind, pinned) ==
    LET claim == [r EXCEPT !.kind = kind, !.pinned = pinned, !.doc = Retain(@, Scope(kind, n))]
    IN  IF claim.doc = r.doc THEN claim ELSE DropExchange(claim)

DemoteNever(n, r) == r

Demote(n, r) ==
    IF r.pinned \/ r.kind = "core" THEN r ELSE ScopeSet(n, r, "core", FALSE)

PersistNothing(n, r) == flash

\* persist_entry, forget_entry and persist_scope follow each change of the table
\* and each narrowing inside the same critical section.
Persist(n, r) ==
    [flash EXCEPT
        ![n].doc = [k \in Keys |-> IF r.doc[k] = ram[n].doc[k] THEN @[k] ELSE r.doc[k]],
        ![n].kind = IF r.kind = ram[n].kind THEN @ ELSE r.kind]

\* push_enqueue_locked: over budget, or queued already, the push is dropped.
PushEnqueue(r, key) ==
    IF key \in ToSet(r.push) \/ Len(r.push) >= PushQueue \/ r.ptok = 0 THEN r
    ELSE [r EXCEPT !.push = Append(@, key), !.ptok = @ - 1]

\* The verdict on the previous walk, when it asked for entries.
JudgeLastWalk(r) ==
    IF ~r.asked THEN r
    ELSE [r EXCEPT !.asked = FALSE, !.merged = FALSE,
                   !.fruitless = IF r.merged THEN 0 ELSE Min({@ + 1, Threshold})]

\* pull_start_locked; started when the result is no longer idle.
PullStart(r, peer, why) ==
    LET j == JudgeLastWalk(r)
        backing == why # "backstop" /\ j.fruitless >= Threshold
    IN  IF r.pull # "idle" THEN r
        ELSE IF backing /\ j.held THEN j
        ELSE [j EXCEPT !.pull = "send_vector_req", !.why = why, !.peer = peer,
                       !.held = @ \/ backing, !.tx = TRUE]

WithinHorizon(n, stamp) == ~Clamped(stamp, wall[n])

EntryAuthorized(n, key, stamp) ==
    \/ stamp.n = n
    \/ key[1] # 0 /\ stamp.n = key[1]
    \/ stamp.n \in setup.masters \cap known[n]

\* The signature policy: none is accepted unless required, one must be checkable.
SignatureOk(n, stamp, sig) ==
    IF sig THEN stamp.n = n \/ stamp.n \in known[n] ELSE ~setup.sig_required \/ stamp.n = n

----------------------------------------------------------------------------
(* The system work queue: digest timer, transmit worker, reconciler.         *)

To(n, m, body) == body @@ [from |-> n, to |-> m]
Broadcast(n, body) == {To(n, m, body @@ [uni |-> FALSE]) : m \in Nodes \ {n}}

\* A unicast to a node whose key is not held is refused (-EACCES).
Unicast(n, m, body) == IF m \in known[n] THEN {To(n, m, body @@ [uni |-> TRUE])} ELSE {}

\* Bound on the frames on the way: setup.air.
RoomInAir == Cardinality(air) < setup.air

BackstopNever(n, r) == r

\* backstop_tick: a narrowed node walks a full one every few digest periods.
BackstopTick(n, r) ==
    IF r.kind # "core" THEN [r EXCEPT !.bcount = 0]
    ELSE IF r.bcount > 0 THEN [r EXCEPT !.bcount = @ - 1]
    ELSE LET w == [r EXCEPT !.bcount = BackstopPeriods]
         IN  IF r.bpeer = 0 THEN w ELSE PullStart(w, r.bpeer, "backstop")

\* digest_work_fn.  A digest period outlasts both refill intervals, so the token
\* buckets are full again.  No second digest is sent while the first is on the way.
Digest(n) ==
    LET r == ram[n]
        body == [type |-> "digest", kind |-> r.kind,
                 rows |-> Rows(r.doc, MyScope(n, r)), base |-> Rows(r.doc, BaseScope)]
    IN  /\ r.chan /\ n \notin setup.slow
        /\ RoomInAir /\ ~\E f \in air : f.from = n /\ f.type = "digest"
        /\ air' = air \cup Broadcast(n, body)
        /\ ram' = [ram EXCEPT ![n] =
                      [BackstopTick(n, r) EXCEPT !.serve = ServeBurst, !.ptok = PushBurst]]
        /\ UNCHANGED <<flash, cfg, saved, wall, known, left, setup, minted>>

\* entry_to_pb_frag: the fragment at a cursor, which restarts when it is past
\* the end of the entry it finds.
FragAt(d, key, off) ==
    LET total == LenOf(d[key].val)
        at == IF off > total THEN 0 ELSE off
        len == IF at < total THEN 1 ELSE 0
    IN  [type |-> "entry", key |-> key, stamp |-> d[key].stamp, val |-> d[key].val,
         total |-> total, off |-> at, len |-> len, sig |-> d[key].sig /\ at + len >= total]

LastFrag(f) == f.off + f.len >= f.total

\* The keys still to serve, from the first one that the document holds.
FromLive(keys, d) ==
    LET live == {i \in DOMAIN keys : keys[i] \in Present(d)}
    IN  IF live = {} THEN <<>> ELSE SubSeq(keys, Min(live), Len(keys))

\* tx_next_locked: replies outrank our requests, and a push comes last.
Job(r) ==
    IF FromLive(r.ent.keys, r.doc) # <<>> THEN "entry"
    ELSE IF r.vec.dest # 0 THEN "vector"
    ELSE IF r.pull = "send_entry_req" THEN "entry_req"
    ELSE IF r.pull = "send_vector_req" THEN "vector_req"
    ELSE IF FromLive(r.push, r.doc) # <<>> THEN "push"
    ELSE "none"

Transmit(n, r, frames) ==
    /\ RoomInAir
    /\ air' = air \cup frames
    /\ ram' = [ram EXCEPT ![n] = r]

\* 1. An entry a peer asked for.
TxEntry(n, r) ==
    LET keys == FromLive(r.ent.keys, r.doc)
        f == FragAt(r.doc, keys[1], IF keys = r.ent.keys THEN r.ent.off ELSE 0)
        rest == IF LastFrag(f) THEN Tail(keys) ELSE keys
    IN  /\ Job(r) = "entry"
        /\ Transmit(n, [r EXCEPT !.ent = IF rest = <<>> THEN NoEnt
                                         ELSE [dest |-> r.ent.dest, keys |-> rest,
                                               off |-> IF LastFrag(f) THEN 0 ELSE f.off + f.len]],
                    Unicast(n, r.ent.dest, f))

\* 2. The next chunk of a vector, over what the requester claims.
TxVector(n, r) ==
    LET want == Scope(r.vec.kind, r.vec.dest)
        table == Table(r.doc)
        theirs == {i \in r.vec.off + 1 .. Len(table) : Claims(want, table[i])}
        chosen == {i \in theirs : Cardinality({j \in theirs : j < i}) < VectorRows}
        off == IF Cardinality(chosen) = VectorRows THEN Max(chosen) ELSE Len(table)
        seq == SetToSortSeq(chosen, <)
        total == Cardinality({k \in Present(r.doc) : Claims(want, k)})
        body == [type |-> "vector", off |-> r.vec.sent, total |-> total,
                 rows |-> [i \in DOMAIN seq |-> <<table[seq[i]], r.doc[table[seq[i]]].stamp>>]]
    IN  /\ Job(r) = "vector"
        /\ Transmit(n, [r EXCEPT !.ent = NoEnt,
                                 !.vec = IF off >= Len(table) THEN NoVec
                                         ELSE [@ EXCEPT !.off = off, !.sent = @ + Len(seq)]],
                    Unicast(n, r.vec.dest, body))

\* 3. Our entry request, which ends the exchange on our side.
TxEntryReq(n, r) ==
    /\ Job(r) = "entry_req"
    /\ Transmit(n, [PullReset(r) EXCEPT !.ent = NoEnt, !.asked = TRUE, !.merged = FALSE],
                Unicast(n, r.peer, [type |-> "entry_req", keys |-> r.want]))

\* 4. Our vector request.
TxVectorReq(n, r) ==
    /\ Job(r) = "vector_req"
    /\ Transmit(n, [r EXCEPT !.ent = NoEnt, !.pull = "await_vector"],
                Unicast(n, r.peer, [type |-> "vector_req", kind |-> r.kind]))

\* 5. A change of ours, broadcast once.
TxPush(n, r) ==
    LET keys == FromLive(r.push, r.doc)
        f == FragAt(r.doc, keys[1], IF keys = r.push THEN r.poff ELSE 0)
    IN  /\ Job(r) = "push"
        /\ Transmit(n, [r EXCEPT !.ent = NoEnt,
                                 !.push = IF LastFrag(f) THEN Tail(keys) ELSE keys,
                                 !.poff = IF LastFrag(f) THEN 0 ELSE f.off + f.len],
                    Broadcast(n, f))

\* Nothing to send: the worker stays scheduled only for a deadline.
TxNothing(n, r) ==
    /\ Job(r) = "none"
    /\ ram' = [ram EXCEPT ![n] = [r EXCEPT !.ent = NoEnt, !.push = <<>>,
                                           !.poff = IF r.push = <<>> THEN @ ELSE 0,
                                           !.tx = r.pull = "await_vector"]]
    /\ UNCHANGED air

\* The channel is gone: everything pending is dropped.
TxNoChannel(n) ==
    /\ ram' = [ram EXCEPT ![n] = [DropExchange(@) EXCEPT !.tx = FALSE]]
    /\ UNCHANGED air

\* An answer to n's vector request is still to be expected.
AnswerComing(n) ==
    \/ \E f \in air :
          (f.type = "vector_req" /\ f.from = n) \/ (f.type = "vector" /\ f.to = n)
    \/ \E m \in Nodes : ram[m].vec.dest = n

Early(n) == <<"early", n>> \in DOMAIN left /\ left[<<"early", n>>] > 0
SpendEarly(n, used) ==
    left' = IF used THEN [left EXCEPT ![<<"early", n>>] = @ - 1] ELSE left

\* The sync timeout outlasts an exchange, but for a few times (the early budget).
Timely(n) ==
    LET r == ram[n]
    IN  IF r.pull # "await_vector" THEN {r}
        ELSE IF ~AnswerComing(n) \/ Early(n) THEN {r, PullReset(r)} ELSE {r}

\* tx_work_fn
Tx(n) ==
    /\ ram[n].tx
    /\ \/ ~ram[n].chan /\ TxNoChannel(n) /\ UNCHANGED left
       \/ /\ ram[n].chan
          /\ \E r \in Timely(n) :
             /\ SpendEarly(n, r # ram[n] /\ AnswerComing(n))
             /\ \/ TxEntry(n, r)
                \/ TxVector(n, r)
                \/ TxEntryReq(n, r)
                \/ TxVectorReq(n, r)
                \/ TxPush(n, r)
                \/ TxNothing(n, r)
    /\ UNCHANGED <<flash, cfg, saved, wall, known, setup, minted>>

\* meshtastic_config_store_merge_config under the document's version; a section
\* already at that version is left alone, and lora is held.
MergeConfig(n, c, p) ==
    IF c.at[p.section].stamp = p.version \/ p.section \in Held THEN c
    ELSE [clk |-> Observe(c.clk, p.version, wall[n]),
          at |-> IF Newer(p.version, c.at[p.section].stamp)
                 THEN [c.at EXCEPT ![p.section] = [val |-> p.val, stamp |-> p.version]]
                 ELSE c.at]

\* What reconcile_section reads of the document; no opinion is no plan.
Plan(n) ==
    LET d == ram[n].doc
    IN  {[section |-> s, val |-> Effective(d, n, s).val, version |-> EffectiveVersion(d, n, s)] :
            s \in {t \in Sections \ Private : Effective(d, n, t).stamp # Unset}}

\* reconcile_work_fn.  The document cannot move between the reading and the merge
\* without submitting the work again, and the merge compares versions itself.
Reconcile(n) ==
    /\ ram[n].rec
    /\ cfg' = [cfg EXCEPT ![n] = FoldSet(LAMBDA p, c : MergeConfig(n, c, p), @, Plan(n))]
    /\ ram' = [ram EXCEPT ![n].rec = FALSE]
    /\ UNCHANGED <<flash, saved, wall, known, air, left, setup, minted>>

----------------------------------------------------------------------------
(* The RX thread.  One frame at a time, and an entry that passed its gates is
   merged before the next frame is looked at.                                *)

Receive(n, f, type) ==
    /\ f.to = n /\ f.type = type
    /\ ram[n].chan /\ ram[n].rx = Nothing
    /\ f.uni => f.from \in known[n]
    /\ air' = air \ {f}

\* Not a member, or a unicast that does not decrypt here.
Ignore(n, f) ==
    /\ f.to = n /\ ram[n].rx = Nothing
    /\ ~ram[n].chan \/ (f.uni /\ f.from \notin known[n])
    /\ air' = air \ {f}
    /\ UNCHANGED <<ram, flash, cfg, saved, wall, known, left, setup, minted>>

\* digest_compare_locked: over the sender's scope when we claim all of it, else base.
DigestMatches(n, r, f) ==
    LET peer == Scope(f.kind, f.from)
    IN  IF Intersect(MyScope(n, r), peer) = peer THEN Rows(r.doc, peer) = f.rows
        ELSE Rows(r.doc, BaseScope) = f.base

OnDigest(n, f) ==
    LET r == ram[n]
        match == DigestMatches(n, r, f)
        noted == [r EXCEPT !.hlc = Observe(@, MaxStamp(f.rows), wall[n]),
                           !.bpeer = IF f.kind = "full" THEN f.from ELSE @,
                           !.heard[f.from] = IF ~setup.watch THEN @
                                             ELSE IF match THEN "agreed" ELSE "diverged"]
    IN  /\ Receive(n, f, "digest")
        /\ ram' = [ram EXCEPT ![n] = IF match THEN noted ELSE PullStart(noted, f.from, "digest")]
        /\ UNCHANGED <<flash, cfg, saved, wall, known, left, setup, minted>>

\* Idle and within the token bucket.
OnVectorReq(n, f) ==
    LET r == ram[n]
    IN  /\ Receive(n, f, "vector_req")
        /\ ram' = IF r.vec.dest # 0 \/ r.serve = 0 THEN ram
                  ELSE [ram EXCEPT ![n] = [r EXCEPT
                          !.vec = [NoVec EXCEPT !.dest = f.from, !.kind = f.kind],
                          !.serve = @ - 1, !.tx = TRUE]]
        /\ UNCHANGED <<flash, cfg, saved, wall, known, left, setup, minted>>

OnEntryReq(n, f) ==
    LET r == ram[n]
    IN  /\ Receive(n, f, "entry_req")
        /\ ram' = IF r.ent.dest # 0 \/ r.serve = 0 THEN ram
                  ELSE [ram EXCEPT ![n] = [r EXCEPT
                          !.ent = [dest |-> f.from, keys |-> f.keys, off |-> 0],
                          !.serve = @ - 1, !.tx = TRUE]]
        /\ UNCHANGED <<flash, cfg, saved, wall, known, left, setup, minted>>

\* One row of a vector, while there is room for another key to ask for.
DiffRow(n, acc, row) ==
    IF Len(acc.want) >= PullKeys \/ ~WithinHorizon(n, row[2]) THEN acc
    ELSE LET w == Want(acc.doc, MyScope(n, acc), row[1], row[2])
         IN  [acc EXCEPT !.hlc = Observe(@, row[2], wall[n]),
                         !.want = IF w = "yes" THEN Append(@, row[1]) ELSE @,
                         !.why = IF w = "no_space" THEN "no_space" ELSE @]

\* on_vector: chunks are diffed independently.  A claimed row that does not fit
\* narrows the claim and ends the walk; a walk on a mismatch that finds nothing
\* counts as fruitless.
OnVector(n, f) ==
    LET r == ram[n]
        diff == FoldLeft(LAMBDA acc, row : DiffRow(n, acc, row), r, f.rows)
        last == f.off + Len(f.rows) >= f.total
        next == IF diff.why = "no_space" THEN PullReset(Demote(n, diff))
                ELSE IF ~last /\ Len(diff.want) < PullKeys THEN diff
                ELSE IF diff.want # <<>> THEN [diff EXCEPT !.pull = "send_entry_req", !.tx = TRUE]
                ELSE PullReset([diff EXCEPT !.fruitless =
                         IF r.why = "digest" THEN Min({@ + 1, Threshold}) ELSE @])
    IN  /\ Receive(n, f, "vector")
        /\ IF r.pull # "await_vector" \/ r.peer # f.from THEN UNCHANGED <<ram, flash>>
           ELSE ram' = [ram EXCEPT ![n] = next] /\ flash' = Persist(n, next)
        /\ UNCHANGED <<cfg, saved, wall, known, left, setup, minted>>

\* reassemble_entry's slot holds what has come so far of one entry.
Slot(f) == [from |-> f.from, key |-> f.key, stamp |-> f.stamp, tomb |-> f.val = Tomb,
            total |-> f.total, parts |-> <<>>]
SameKey(asm, f) == asm # NoAsm /\ [asm EXCEPT !.parts = <<>>, !.stamp = f.stamp] = Slot(f)
SameEntry(asm, f) == asm # NoAsm /\ [asm EXCEPT !.parts = <<>>] = Slot(f)

Whole(parts) ==
    IF \A i \in DOMAIN parts : parts[i] = parts[1] THEN parts[1] ELSE Junk

ReassembleLate(asm, f) ==
    LET slot == IF SameEntry(asm, f) THEN asm ELSE Slot(f)
    IN  IF f.off = 0 /\ f.len = f.total THEN [asm |-> asm, done |-> TRUE, val |-> f.val]
        ELSE [asm |-> [slot EXCEPT !.parts = Append(@, f.val)], done |-> FALSE]

\* The slot after a fragment, and the payload when the entry is complete.
Reassemble(asm, f) ==
    LET slot == IF SameEntry(asm, f) THEN asm ELSE Slot(f)
        grown == [slot EXCEPT !.parts = Append(@, f.val)]
    IN  IF f.off = 0 /\ f.len = f.total THEN [asm |-> asm, done |-> TRUE, val |-> f.val]
        ELSE IF ~SameEntry(asm, f) /\ f.off # 0 THEN [asm |-> asm, done |-> FALSE]
        ELSE IF f.off # Len(slot.parts) THEN [asm |-> slot, done |-> FALSE]
        ELSE IF Len(grown.parts) < f.total THEN [asm |-> grown, done |-> FALSE]
        ELSE [asm |-> NoAsm, done |-> TRUE, val |-> Whole(grown.parts)]

\* on_entry up to the merge: scope, authorship, horizon, a known owner,
\* reassembly (the slot's deadline may have passed), the payload and its signature.
OnEntry(n, f) == \E asm \in {ram[n].asm} \cup (IF Early(n) THEN {NoAsm} ELSE {}) :
    LET r == ram[n]
        admitted == /\ Claims(MyScope(n, r), f.key)
                    /\ EntryAuthorized(n, f.key, f.stamp)
                    /\ WithinHorizon(n, f.stamp)
                    /\ f.key[1] \in {0, n} \cup known[n]
        got == Reassemble(asm, f)
        sound == got.done /\ SignatureOk(n, f.stamp, f.sig)
    IN  /\ Receive(n, f, "entry")
        /\ SpendEarly(n, asm # r.asm)
        /\ ram' = IF ~admitted THEN ram
                  ELSE [ram EXCEPT ![n].asm = got.asm,
                          ![n].rx = IF sound THEN [key |-> f.key, stamp |-> f.stamp,
                                                   val |-> got.val, sig |-> f.sig]
                                    ELSE Nothing]
        /\ UNCHANGED <<flash, cfg, saved, wall, known, setup, minted>>

\* on_entry's second critical section.
OnEntryMerge(n) ==
    LET r == ram[n]
        e == r.rx
        seen == [r EXCEPT !.rx = Nothing, !.hlc = Observe(@, e.stamp, wall[n])]
        next == IF Accept(r.doc, e.key, e.stamp, e.val) # "applied" THEN seen
                ELSE [seen EXCEPT !.doc[e.key] = [stamp |-> e.stamp, val |-> e.val, sig |-> e.sig],
                                  !.merged = r.asked, !.fruitless = 0, !.held = FALSE,
                                  !.rec = TRUE]
    IN  /\ e # Nothing
        /\ ram' = [ram EXCEPT ![n] = next]
        /\ flash' = Persist(n, next)
        /\ UNCHANGED <<cfg, saved, wall, known, air, left, setup, minted>>

----------------------------------------------------------------------------
(* Time.                                                                     *)

Time(n, r) ==
    /\ ram' = [ram EXCEPT ![n] = r]
    /\ UNCHANGED <<flash, cfg, saved, wall, known, air, left, setup, minted>>

\* The backoff hold ends.
HoldExpires(n) == ram[n].held /\ Time(n, [ram[n] EXCEPT !.held = FALSE])
\* A verdict older than the fleet window no longer counts.
PeerAges(n, m) ==
    /\ ram[n].heard[m] \in {"agreed", "diverged"}
    /\ Time(n, [ram[n] EXCEPT !.heard[m] = "stale"])

----------------------------------------------------------------------------
(* The operator and the environment.  Each kind of act has a budget.         *)

Spend(op, n) ==
    /\ <<op, n>> \in DOMAIN left /\ left[<<op, n>>] > 0
    /\ left' = [left EXCEPT ![<<op, n>>] = @ - 1]

EditUnstamped(n, s, v) ==
    /\ s \notin Private
    /\ Spend("edit", n)
    /\ cfg' = [cfg EXCEPT ![n].at[s].val = v]
    /\ UNCHANGED <<ram, flash, saved, wall, known, air, setup, minted>>

\* meshtastic_config_store_set_config: a local edit, stamped by the store's own clock.
Edit(n, s, v) ==
    LET clk == Local(cfg[n].clk, wall[n])
    IN  /\ s \notin Private
        /\ Spend("edit", n)
        /\ cfg' = [cfg EXCEPT ![n].clk = clk, ![n].at[s] = [val |-> v, stamp |-> Mint(clk, n)]]
        /\ UNCHANGED <<ram, flash, saved, wall, known, air, setup, minted>>

\* The store's delayed save reaches flash.
Save(n) ==
    /\ saved[n] # cfg[n].at
    /\ setup.saves
    /\ saved' = [saved EXCEPT ![n] = cfg[n].at]
    /\ UNCHANGED <<ram, flash, cfg, wall, known, air, left, setup, minted>>

Begin(n, op) ==
    /\ ram[n].op = Nothing /\ n \notin setup.managed
    /\ ram' = [ram EXCEPT ![n].op = op]
    /\ UNCHANGED <<flash, cfg, saved, wall, known, air, setup, minted>>

\* store_came_from: the origin marker.
CameFrom(n, key) ==
    LET row == ram[n].doc[key]
    IN  key \in Present(ram[n].doc) /\ row.val # Tomb /\ row.stamp = cfg[n].at[key[2]].stamp

\* promote (owner 0) and pin (owner n), up to the write: the store's value and stamp.
Snapshot(n, owner, s) ==
    /\ s \notin Private \cup Held
    /\ ~CameFrom(n, <<owner, s>>)
    /\ Begin(n, [key |-> <<owner, s>>, seen |-> cfg[n].at[s].stamp, val |-> cfg[n].at[s].val])

Promote(n, s) == Spend("promote", n) /\ Snapshot(n, 0, s)
Pin(n, s) == Spend("pin", n) /\ Snapshot(n, n, s)

Unpin(n, s) ==
    /\ Spend("unpin", n)
    /\ <<n, s>> \in Present(ram[n].doc) /\ ram[n].doc[<<n, s>>].val # Tomb
    /\ Begin(n, [key |-> <<n, s>>, val |-> Tomb,
                 seen |-> IF s \in Private THEN Unset ELSE cfg[n].at[s].stamp])

\* meshtastic_cluster_publish: a private section, for the fleet or for any node.
Publish(n, key, v) ==
    /\ Spend("publish", n)
    /\ key[2] \in Private
    /\ Begin(n, [key |-> key, seen |-> Unset, val |-> v])

\* doc_write_local: mint, accept (narrowing once for room), persist, push, reconcile.
Write(n) ==
    LET r == ram[n]
        key == r.op.key
        clk == Local(Observe(r.hlc, r.op.seen, wall[n]), wall[n])
        row == [stamp |-> Mint(clk, n), val |-> r.op.val, sig |-> n \in setup.signers]
        ready == [r EXCEPT !.op = Nothing, !.hlc = clk]
        room == IF Accept(r.doc, key, row.stamp, row.val) = "no_space" THEN Demote(n, ready)
                ELSE ready
        applied == Accept(room.doc, key, row.stamp, row.val) = "applied"
        next == IF ~applied THEN room
                ELSE PushEnqueue([room EXCEPT !.doc[key] = row, !.rec = TRUE, !.tx = TRUE], key)
    IN  /\ r.op # Nothing
        /\ ram' = [ram EXCEPT ![n] = next]
        /\ flash' = Persist(n, next)
        /\ minted' = IF applied THEN minted \cup {[key |-> key, stamp |-> row.stamp, val |-> row.val]}
                     ELSE minted
        /\ UNCHANGED <<cfg, saved, wall, known, air, left, setup>>

\* meshtastic_cluster_pull
Pull(n, m) ==
    /\ Spend("pull", n)
    /\ ram[n].chan /\ n # m
    /\ ram' = [ram EXCEPT ![n] = PullStart(@, m, "shell")]
    /\ UNCHANGED <<flash, cfg, saved, wall, known, air, setup, minted>>

\* meshtastic_cluster_scope_select
ScopeSelect(n, choice) ==
    LET kind == IF choice = "core" THEN "core" ELSE "full"
        next == ScopeSet(n, ram[n], kind, choice # "auto")
    IN  /\ Spend("scope", n)
        /\ <<ram[n].kind, ram[n].pinned>> # <<kind, choice # "auto">>
        /\ ram' = [ram EXCEPT ![n] = next]
        /\ flash' = [Persist(n, next) EXCEPT ![n].kind = IF choice = "auto" THEN "none" ELSE kind]
        /\ UNCHANGED <<cfg, saved, wall, known, air, setup, minted>>

Empty == [k \in Keys |-> NoRow]

\* meshtastic_cluster_reset: the table, its records, the claim and every verdict.
ResetDocument(n) ==
    /\ Spend("reset", n)
    /\ ram' = [ram EXCEPT ![n] = [DropExchange(@) EXCEPT
                  !.doc = Empty, !.kind = CompiledKind, !.pinned = CompiledPin,
                  !.heard = [m \in Nodes |-> "never"], !.push = <<>>]]
    /\ flash' = [flash EXCEPT ![n] = [doc |-> Empty, kind |-> "none"]]
    /\ UNCHANGED <<cfg, saved, wall, known, air, setup, minted>>

\* The clock a load leaves behind: every stamp read is observed.
LoadClock(stamps, now) ==
    FoldSet(LAMBDA s, h : Observe(h, s, now), [p |-> 0, c |-> 0], stamps)

\* A reset of the board: RAM is lost, flash is loaded, the wall clock may be lost too.
Reboot(n) ==
    LET kind == IF setup.build = "auto" /\ flash[n].kind # "none" THEN flash[n].kind
                ELSE CompiledKind
        doc == Retain(flash[n].doc, Scope(kind, n))
    IN  /\ Spend("reboot", n)
        /\ \E now \in {0, wall[n]} :
              /\ wall' = [wall EXCEPT ![n] = now]
              /\ ram' = [ram EXCEPT ![n] =
                    [Boot(kind, doc, LoadClock({doc[k].stamp : k \in Present(doc)}, now))
                        EXCEPT !.chan = ram[n].chan]]
              /\ cfg' = [cfg EXCEPT ![n] =
                    [clk |-> LoadClock({saved[n][s].stamp : s \in DOMAIN saved[n]}, now),
                     at |-> saved[n]]]
        /\ flash' = [flash EXCEPT ![n].doc = doc]
        /\ UNCHANGED <<saved, known, air, setup, minted>>

\* The cluster channel is renamed, disabled or provisioned again.
Channel(n) ==
    /\ Spend("channel", n)
    /\ ram' = [ram EXCEPT ![n].chan = ~@]
    /\ UNCHANGED <<flash, cfg, saved, wall, known, air, setup, minted>>

\* The wall clock is set, or moves on.
SetClock(n, t) ==
    /\ t > wall[n]
    /\ Spend("clock", n)
    /\ wall' = [wall EXCEPT ![n] = t]
    /\ UNCHANGED <<ram, flash, cfg, saved, known, air, setup, minted>>

\* A NodeInfo arrives.
Learn(n, m) ==
    /\ m \notin known[n] \cup {n}
    /\ known' = [known EXCEPT ![n] = @ \cup {m}]
    /\ UNCHANGED <<ram, flash, cfg, saved, wall, air, left, setup, minted>>

Lose(f) ==
    /\ Spend("lose", 0)
    /\ air' = air \ {f}
    /\ UNCHANGED <<ram, flash, cfg, saved, wall, known, setup, minted>>

----------------------------------------------------------------------------

Init ==
    /\ setup \in Setups
    /\ wall = setup.wall /\ known = setup.known /\ air = {} /\ left = setup.budget
    /\ flash = [n \in Nodes |-> [doc |-> setup.doc[n], kind |-> setup.kind[n]]]
    /\ saved = setup.store
    /\ cfg = [n \in Nodes |->
                 [clk |-> LoadClock({saved[n][s].stamp : s \in DOMAIN saved[n]}, wall[n]),
                  at |-> saved[n]]]
    /\ ram = [n \in Nodes |->
                 LET d == setup.doc[n]
                 IN  Boot(IF setup.kind[n] = "none" THEN CompiledKind ELSE setup.kind[n], d,
                          LoadClock({d[k].stamp : k \in Present(d)}, wall[n]))]
    /\ minted = UNION {{[key |-> k, stamp |-> setup.doc[n][k].stamp, val |-> setup.doc[n][k].val]
                          : k \in Present(setup.doc[n])} : n \in Nodes}

Worker(n) == Digest(n) \/ Tx(n) \/ Reconcile(n)

Rx(n) ==
    \/ \E f \in air : \/ Ignore(n, f)
                      \/ OnDigest(n, f)
                      \/ OnVectorReq(n, f)
                      \/ OnVector(n, f)
                      \/ OnEntryReq(n, f)
                      \/ OnEntry(n, f)
    \/ OnEntryMerge(n)

Passing(n) ==
    \/ HoldExpires(n)
    \/ \E m \in Nodes : PeerAges(n, m) \/ Learn(n, m)
    \/ Save(n)

Operator(n) ==
    \/ \E s \in Sections : \/ \E v \in setup.values : Edit(n, s, v)
                           \/ Promote(n, s)
                           \/ Pin(n, s)
                           \/ Unpin(n, s)
    \/ \E key \in setup.publish, v \in setup.values \cup {Tomb} : Publish(n, key, v)
    \/ Write(n)
    \/ \E m \in Nodes : Pull(n, m)
    \/ \E choice \in {"auto", "full", "core"} : ScopeSelect(n, choice)
    \/ ResetDocument(n)
    \/ Reboot(n)
    \/ Channel(n)
    \/ \E t \in setup.times : SetClock(n, t)

Next ==
    \/ \E n \in Nodes : Worker(n) \/ Rx(n) \/ Passing(n) \/ Operator(n)
    \/ \E f \in air : Lose(f)

Spec == Init /\ [][Next]_vars

Replying(n) == Job(ram[n]) \in {"entry", "vector"}

(* The work queue runs what is submitted and gets its turn on the air, and the
   limit on replies leaves it turns for requests of its own; the RX
   thread takes a frame that is not lost (with room for one frame in the air,
   every such frame); a call once made returns; timers expire, a clock that is
   behind catches up and NodeInfo is repeated.  Nothing is assumed of the
   operator.                                                                 *)
FairSpec ==
    /\ Spec
    /\ \A n \in Nodes :
          /\ SF_vars(Digest(n)) /\ WF_vars(Reconcile(n))
          /\ SF_vars(Tx(n) /\ Replying(n)) /\ SF_vars(Tx(n) /\ ~Replying(n))
          /\ WF_vars(Rx(n)) /\ WF_vars(Write(n)) /\ WF_vars(HoldExpires(n))
          /\ WF_vars(\E t \in setup.times : SetClock(n, t))
          /\ WF_vars(\E m \in Nodes : Learn(n, m))

----------------------------------------------------------------------------
(* Properties.                                                               *)

\* The state is well formed: claims, exchange states, buckets and queues stay in range.
TypeOK ==
    \A n \in Nodes :
        LET r == ram[n]
        IN  /\ r.kind \in {"full", "core"} /\ flash[n].kind \in {"none", "full", "core"}
            /\ r.pull \in {"idle", "send_vector_req", "await_vector", "send_entry_req"}
            /\ (r.pull = "idle") = (r.peer = 0)
            /\ (r.pull = "send_entry_req") => (r.want # <<>> /\ Len(r.want) <= PullKeys)
            /\ r.fruitless \in 0..Threshold /\ r.bcount \in 0..BackstopPeriods
            /\ r.serve \in 0..ServeBurst /\ r.ptok \in 0..PushBurst
            /\ Len(r.push) <= PushQueue /\ IsInjective(r.push)
            /\ Cardinality(Present(r.doc)) <= setup.cap
            /\ r.asm # NoAsm => Len(r.asm.parts) < r.asm.total

\* Whatever a member holds, in RAM or in flash, is a version somebody wrote: an
\* entry is never spliced together from fragments of two versions
\* (reassemble_entry's match on sender, key, stamp, tombstone and total).
EntryIsWhole ==
    \A n \in Nodes, k \in Keys :
        \A d \in {ram[n].doc, flash[n].doc} :
            k \in Present(d) => [key |-> k, stamp |-> d[k].stamp, val |-> d[k].val] \in minted

\* One stamp names one version: two writes to a key never carry the same stamp,
\* or last-writer-wins would keep a different value on each member for ever.
StampNamesOneVersion ==
    \A a, b \in minted : a.key = b.key /\ a.stamp = b.stamp => a.val = b.val

\* A member's document never goes back: a row is replaced by a newer one only,
\* and goes away only when the member stops claiming it or is told to forget
\* everything, across a reboot included.
RowNeverGoesBack ==
    [][\A n \in Nodes : \A k \in Present(ram[n].doc) :
          \/ k \in Present(ram'[n].doc) /\ ~Newer(ram[n].doc[k].stamp, ram'[n].doc[k].stamp)
          \/ ~Claims(Scope(ram'[n].kind, n), k)
          \/ ResetDocument(n)]_vars

\* Narrowing the claim never changes what the node itself runs: CORE(me) is the
\* closure of effective(me).
NarrowKeepsEffective ==
    [][\A n \in Nodes :
          ram[n].kind = "full" /\ ram'[n].kind = "core" =>
              \A s \in Sections :
                 \/ Effective(ram'[n].doc, n, s) = Effective(ram[n].doc, n, s)
                 \/ Write(n) /\ s = ram[n].op.key[2]]_vars

\* A local write takes effect: promote, pin and unpin leave their value in the
\* document under a stamp newer than every stamp the node has there.
LocalWriteTakes ==
    [][\A n \in Nodes :
          Write(n) /\ ram[n].op.key[2] \notin Private =>
              LET row == ram'[n].doc[ram[n].op.key]
              IN  /\ row.val = ram[n].op.val
                  /\ \A k \in Present(ram[n].doc) : Newer(row.stamp, ram[n].doc[k].stamp)]_vars

\* The document has an answer for the section and the reconciler is done with it.
Settled(n, s) ==
    /\ s \notin Private \cup Held
    /\ Effective(ram[n].doc, n, s).stamp # Unset
    /\ ~ram[n].rec

AtVersion(n, s) == cfg[n].at[s].stamp = EffectiveVersion(ram[n].doc, n, s)

\* The origin marker is honest about what came from elsewhere: while this node's
\* own row is not a tombstone, a section stored under a version that another node
\* minted holds the document's value (section_is_doc_derived and store_came_from
\* conclude the one from the other).
MarkerIsHonest ==
    \A n \in Nodes, s \in Sections :
        /\ Settled(n, s) /\ AtVersion(n, s)
        /\ ram[n].doc[<<n, s>>].val # Tomb
        /\ EffectiveVersion(ram[n].doc, n, s).n \in Nodes \ {n}
        => cfg[n].at[s].val = Effective(ram[n].doc, n, s).val

\* The version written into the store says that the store runs the document's
\* current answer (meshtastic_cluster_doc.h), tombstones included.
VersionMeansAnswer ==
    \A n \in Nodes, s \in Sections :
        Settled(n, s) /\ AtVersion(n, s) =>
            cfg[n].at[s].val = Effective(ram[n].doc, n, s).val

Agree(n, m) ==
    LET both == Intersect(MyScope(n, ram[n]), MyScope(m, ram[m]))
    IN  Rows(ram[n].doc, both) = Rows(ram[m].doc, both)

AllMembers == \A n \in Nodes : ram[n].chan

\* No section of n's store is behind the document's version of it.
Applied(n) ==
    \A s \in Sections \ (Private \cup Held) :
        Effective(ram[n].doc, n, s).stamp # Unset =>
            ~Newer(EffectiveVersion(ram[n].doc, n, s), cfg[n].at[s].stamp)

\* Anti-entropy converges: once the operator, the losses and the reboots stop,
\* every two members come to hold the same rows over what both of them claim, and
\* each of them runs what it holds.
Converges ==
    <>[](AllMembers => \A n \in Nodes : Applied(n) /\ \A m \in Nodes : Agree(n, m))
=============================================================================
