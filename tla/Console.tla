------------------------------ MODULE Console -------------------------------
(***************************************************************************)
(* The console's pages and write routes (src/src/routes/live-ui.ts) over   *)
(* the database: what each browser has on screen, the request it posts,    *)
(* the plan made from a snapshot (ProductWrites) and the commit, which     *)
(* other browsers' commits may precede at every step.                      *)
(*                                                                         *)
(* The database is the one AtomicStore describes: snapshots are whole, and *)
(* a batch takes effect at one instant, if what it expects still holds.    *)
(***************************************************************************)
EXTENDS ProductWrites

CONSTANTS
  Browser,          \* operators' pages
  Drafts,           \* the sets of keys a form may declare
  Stores,           \* the databases a run may start from
  MaxPosts          \* bound: requests posted, confirmations not counted

ASSUME ConsoleAssumption ==
  /\ Drafts \subseteq Fields(Definition)
  /\ \A s \in Stores : WellFormed(s) /\ Whole(s)
  /\ MaxPosts \in Nat

VARIABLES
  store,            \* store[path]: the document, or Absent
  page,             \* page[b]: what browser b shows
  call,             \* call[b]: the request of b the server is at
  posts             \* number of requests posted

vars == <<store, page, call, posts>>

NoPage == [kind |-> "none"]
Idle   == [stage |-> "idle"]

-----------------------------------------------------------------------------
(* Pages.                                                                  *)

(* The product page: the values and the ETag of one snapshot.  After a     *)
(* refusal the fields show what was typed, under the new ETag.  A secret   *)
(* is never shown; ticks.js puts back the one that was typed.              *)
ProductPage(p, e, typed, touched, ask) ==
  IF ~ Known(store, p) THEN NoPage
  ELSE [kind |-> "product", p |-> p, e |-> e, etag |-> store[ConfigOf(p, e)],
        shown |-> [k \in Keys(store, p) |->
                     IF k \in DOMAIN typed THEN typed[k]
                     ELSE IF k \in DOMAIN Values(store, p, e) /\ ~ Secret(store, p, k)
                          THEN Values(store, p, e)[k] ELSE Blank],
        hidden |-> {k \in Keys(store, p) : Secret(store, p, k)},
        again |-> typed # Nothing, touched |-> touched, ask |-> ask]

Confirm(what, p, e, keys, force) ==
  [kind |-> what, p |-> p, e |-> e, keys |-> keys, base |-> Base(store, p), force |-> force]

Ready(b) == call[b] = Idle
On(b, kind) == Ready(b) /\ page[b].kind = kind

Show(b, shown) == page' = [page EXCEPT ![b] = shown]

Open(b) ==
  /\ On(b, "none")
  /\ \E p \in Product, e \in Env :
       Known(store, p) /\ Show(b, ProductPage(p, e, Nothing, {}, FALSE))
  /\ UNCHANGED <<store, call, posts>>

(* The flags as a client of /flags read them.                              *)
OpenFlags(b) ==
  /\ On(b, "none")
  /\ Show(b, [kind |-> "flags", etag |-> store[Flags]])
  /\ UNCHANGED <<store, call, posts>>

(* A confirmation page carries the base of the snapshot it was built from. *)
AskCreate(b) ==
  /\ On(b, "product") /\ page[b].etag = Absent
  /\ Show(b, Confirm("create", page[b].p, page[b].e, {}, FALSE))
  /\ UNCHANGED <<store, call, posts>>

AskDelete(b) ==
  /\ On(b, "product") /\ page[b].etag # Absent
  /\ \E K \in SUBSET DOMAIN page[b].shown \ {{}} :
       /\ K \subseteq Keys(store, page[b].p)
       /\ Show(b, Confirm("delete", page[b].p, page[b].e, K, FALSE))
  /\ UNCHANGED <<store, call, posts>>

AskArchive(b) ==
  /\ On(b, "none")
  /\ \E p \in Product :
       Known(store, p) /\ store[SchemaOf(p)].retiring
       /\ Show(b, Confirm("archive", p, Lowest, {}, FALSE))
  /\ UNCHANGED <<store, call, posts>>

-----------------------------------------------------------------------------
(* Posts.                                                                  *)

Send(b, r) ==
  /\ posts < MaxPosts
  /\ posts' = posts + 1
  /\ call' = [call EXCEPT ![b] = [stage |-> "posted", r |-> r]]
  /\ UNCHANGED <<store, page>>

(* ticks.js offers to save only when a field differs from what the page    *)
(* came with, which for a secret is the blank.                             *)
Dirty(shown, hidden, fields) ==
  \E k \in DOMAIN shown : fields[k] # (IF k \in hidden THEN Blank ELSE shown[k])

(* A save posts every field of the page, the touched one as typed; a blank *)
(* secret asks for nothing.                                                *)
Asked(p, fields) ==
  Without(fields, {k \in DOMAIN fields : Secret(store, p, k) /\ fields[k] = Blank})

Save(b) ==
  /\ On(b, "product") /\ page[b].etag # Absent
  /\ \E K \in {{}} \cup {{k} : k \in DOMAIN page[b].shown}, v \in Typed \cup {Bad} :
       LET fields == [k \in DOMAIN page[b].shown |-> IF k \in K THEN v ELSE page[b].shown[k]] IN
       /\ Dirty(page[b].shown, page[b].hidden, fields)
       /\ Send(b, [op |-> "save", p |-> page[b].p, e |-> page[b].e, fields |-> fields,
                   changes |-> Asked(page[b].p, fields), etag |-> page[b].etag,
                   again |-> page[b].again, touched |-> page[b].touched \cup K])

(* The route compares the base with its own snapshot, takes the defaults   *)
(* of that snapshot and requires the file to be absent.                    *)
Create(b) ==
  /\ On(b, "create")
  /\ IF page[b].base = Base(store, page[b].p)
     THEN Send(b, [op |-> "save", p |-> page[b].p, e |-> page[b].e, fields |-> Nothing,
                   changes |-> DefaultsFor(Declared(store, page[b].p)), etag |-> Absent,
                   again |-> FALSE, touched |-> {}])
     ELSE /\ Show(b, ProductPage(page[b].p, page[b].e, Nothing, {}, FALSE))
          /\ UNCHANGED <<store, call, posts>>

PostPromote(b) ==
  /\ On(b, "product") /\ page[b].etag # Absent
  /\ \E K \in SUBSET DOMAIN page[b].shown \ {{}} :
       Send(b, [op |-> "promote", p |-> page[b].p, e |-> page[b].e, keys |-> K,
                fields |-> page[b].shown, touched |-> page[b].touched])

PostDelete(b) ==
  /\ On(b, "delete")
  /\ Send(b, [op |-> "delete", p |-> page[b].p, e |-> page[b].e, keys |-> page[b].keys,
              base |-> page[b].base])

PostAddKeys(b) ==
  /\ On(b, "product") /\ page[b].etag # Absent
  /\ \E drafts \in Drafts :
       Send(b, [op |-> "add", p |-> page[b].p, e |-> page[b].e, drafts |-> drafts,
                etag |-> page[b].etag])

PostRetire(b) ==
  /\ On(b, "product")
  /\ \E retiring \in BOOLEAN :
       Send(b, [op |-> "retire", p |-> page[b].p, e |-> page[b].e, retiring |-> retiring,
                force |-> page[b].ask])

PostArchive(b) ==
  /\ On(b, "archive")
  /\ Send(b, [op |-> "archive", p |-> page[b].p, e |-> page[b].e, base |-> page[b].base,
              force |-> page[b].force])

PostNew(b) ==
  /\ On(b, "none")
  /\ \E p \in Product, uid \in Uid, E \in SUBSET Env \ {{}}, drafts \in Drafts :
       Send(b, [op |-> "new", p |-> p, e |-> Lowest, uid |-> uid, envs |-> E, drafts |-> drafts])

(* /features sets a flag whatever the file holds by then; /flags requires  *)
(* the file the client read.                                               *)
Click(b) ==
  \E f \in Flag, e \in Env, value \in BOOLEAN :
    \/ /\ On(b, "none")
       /\ Send(b, [op |-> "flag", flag |-> f, e |-> e, value |-> value, etag |-> Any])
    \/ /\ On(b, "flags") /\ page[b].etag # Absent
       /\ Send(b, [op |-> "flag", flag |-> f, e |-> e, value |-> value, etag |-> page[b].etag])

-----------------------------------------------------------------------------
(* The server.                                                             *)

PlanOf(s, r) ==
  CASE r.op = "save"    -> WriteValues(s, r)
    [] r.op = "promote" -> Promote(s, r)
    [] r.op = "delete"  -> DeleteKeys(s, r)
    [] r.op = "add"     -> AddKeys(s, r)
    [] r.op = "retire"  -> SetRetiring(s, r)
    [] r.op = "archive" -> ArchiveProduct(s, r)
    [] r.op = "new"     -> CreateProduct(s, r)
    [] r.op = "flag"    -> SetFlag(s, r)

At(b, stage) == call[b].stage = stage

(* run(): one snapshot, and the operation's decision on it.  Decryption    *)
(* and encryption are awaited before the commit.                           *)
Decide(b) ==
  /\ At(b, "posted")
  /\ LET plan == PlanOf(store, call[b].r) IN
     call' = [call EXCEPT ![b] =
       IF plan.verdict = "ok" THEN [stage |-> "planned", r |-> @.r, plan |-> plan]
       ELSE [stage |-> "refused", r |-> @.r, code |-> plan.verdict]]
  /\ UNCHANGED <<store, page, posts>>

(* What writeMany checks; without the collection of environment files, and *)
(* with the ETags of the written documents only.                           *)
StillDocuments(s, plan) == \A path \in DOMAIN plan.expects : s[path] = plan.expects[path]

StillWrites(s, plan) ==
  /\ \A path \in DOMAIN plan.expects \cap DOMAIN plan.writes : s[path] = plan.expects[path]
  /\ \A c \in plan.collections : Environments(s, c[1]) = c[2]

Still(s, plan) ==
  /\ \A path \in DOMAIN plan.expects : s[path] = plan.expects[path]
  /\ \A c \in plan.collections : Environments(s, c[1]) = c[2]

(* The commit, and the redirect that leaves the page.                      *)
Commit(b) ==
  /\ At(b, "planned")
  /\ Still(store, call[b].plan)
  /\ store' = Merge(store, call[b].plan.writes)
  /\ call' = [call EXCEPT ![b] = Idle]
  /\ Show(b, NoPage)
  /\ UNCHANGED posts

Conflict(b) ==
  /\ At(b, "planned")
  /\ ~ Still(store, call[b].plan)
  /\ call' = [call EXCEPT ![b] = [stage |-> "refused", r |-> @.r, code |-> "conflict"]]
  /\ UNCHANGED <<store, page, posts>>

(* The answer to a refusal, from a snapshot of its own: 409 or 422 with    *)
(* the product page and what was typed, the forced form of the question    *)
(* when an archive is in the way, or a page left behind.                   *)
PageAfter(b, r, code) ==
  CASE r.op \in {"save", "promote"}      -> ProductPage(r.p, r.e, r.fields, r.touched, FALSE)
    [] r.op \in {"delete", "add"}        -> ProductPage(r.p, r.e, Nothing, {}, FALSE)
    [] r.op = "retire"                   -> ProductPage(r.p, r.e, Nothing, {}, code = "exists")
    [] r.op = "archive" /\ code = "exists" -> [page[b] EXCEPT !.force = TRUE]
    [] OTHER                             -> NoPage

Rerender(b) ==
  /\ At(b, "refused")
  /\ Show(b, PageAfter(b, call[b].r, call[b].code))
  /\ call' = [call EXCEPT ![b] = Idle]
  /\ UNCHANGED <<store, posts>>

-----------------------------------------------------------------------------
Init ==
  /\ store \in Stores
  /\ page = [b \in Browser |-> NoPage]
  /\ call = [b \in Browser |-> Idle]
  /\ posts = 0

Next ==
  \E b \in Browser :
    \/ Open(b) \/ OpenFlags(b) \/ AskCreate(b) \/ AskDelete(b) \/ AskArchive(b)
    \/ Save(b) \/ Create(b) \/ PostPromote(b) \/ PostDelete(b) \/ PostAddKeys(b)
    \/ PostRetire(b) \/ PostArchive(b) \/ PostNew(b) \/ Click(b)
    \/ Decide(b) \/ Commit(b) \/ Conflict(b) \/ Rerender(b)

Spec == Init /\ [][Next]_vars

-----------------------------------------------------------------------------
TypeOK ==
  /\ WellFormed(store)
  /\ posts \in 0..MaxPosts
  /\ DOMAIN page = Browser /\ DOMAIN call = Browser
  /\ \A b \in Browser :
       /\ call[b].stage \in {"idle", "posted", "planned", "refused"}
       /\ page[b].kind \in {"none", "product", "flags", "create", "delete", "archive"}

(* Creating, archiving and creating an environment are batches over        *)
(* several documents, each planned on a snapshot of its own.  However they *)
(* overlap, a product is registered exactly while it has a schema, no      *)
(* environment file outlives its product, and no two products share the    *)
(* uid a process is authorized by.                                         *)
ProductsAreWhole == Whole(store)

Landed(b) == At(b, "planned") /\ call'[b] = Idle

(* A click on /features states no ETag, and neither the ETag of a flag set *)
(* on another file than the one the route read, nor the archive that a     *)
(* plan to retire looked for, is part of what the commit requires.         *)
Optimistic(b) ==
  CASE call[b].r.op = "retire" -> FALSE
    [] call[b].r.op = "flag"   -> call[b].r.etag = call[b].plan.read
    [] OTHER                   -> TRUE

(* Optimistic operations are serializable: what lands is what the          *)
(* operation would decide on the store it lands on, although it was        *)
(* planned on an older one.                                                *)
CommitIsSerial ==
  [][\A b \in Browser :
       Landed(b) /\ Optimistic(b) =>
         /\ PlanOf(store, call[b].r).verdict = "ok"
         /\ PlanOf(store, call[b].r).writes = call[b].plan.writes]_vars

(* Every write validates against the schema that is there when it lands: a *)
(* written file holds only declared keys and values of their types, and    *)
(* after a change of the schema so does every file of the product.         *)
WhatLandsValidates ==
  [][\A b \in Browser :
       Landed(b) /\ call[b].r.op \in {"save", "promote", "add", "delete", "new"} =>
         LET p == call[b].r.p IN
         \A e \in Environments(store', p) :
           \/ /\ store'[ConfigOf(p, e)] = store[ConfigOf(p, e)]
              /\ store'[SchemaOf(p)] = store[SchemaOf(p)]
           \/ Validates(store'[SchemaOf(p)].keys, Values(store', p, e))]_vars

(* A deletion or an archive destroys what the confirmation page showed and *)
(* nothing that changed behind it, and an archive holds all that leaves.   *)
ConfirmedIsWhatHappens ==
  [][\A b \in Browser :
       Landed(b) /\ call[b].r.op \in {"delete", "archive"} =>
         /\ call[b].r.base = Base(store, call[b].r.p)
         /\ call[b].r.op = "archive" =>
              store'[ArchiveOf(call[b].r.p)] = Base(store, call[b].r.p)]_vars

(* What an editor may not do to others: a save changes no key that is set  *)
(* and that its operator did not touch; a promotion changes no secret.     *)
Untouched(b) ==
  LET r == call[b].r IN
  /\ r.op = "save" =>
       \A k \in DOMAIN Values(store, r.p, r.e) \ r.touched :
         Values(store', r.p, r.e)[k] = Values(store, r.p, r.e)[k]
  /\ r.op = "promote" =>
       \A k \in DOMAIN Values(store, r.p, NextEnv(r.e)) :
         Secret(store, r.p, k) =>
           Values(store', r.p, NextEnv(r.e))[k] = Values(store, r.p, NextEnv(r.e))[k]

(* A page opened afresh cannot overwrite what was written since.           *)
EditorsKeepOthers ==
  [][\A b \in Browser : Landed(b) /\ ~ (call[b].r.op = "save" /\ call[b].r.again) => Untouched(b)]_vars

(* A stale editor cannot overwrite someone else's change, also when the    *)
(* page it saves is the one a refusal brought back.  The code does not     *)
(* keep to this: that page has a fresh ETag and the old values.            *)
StaleEditorIsRefused == [][\A b \in Browser : Landed(b) => Untouched(b)]_vars
=============================================================================
