-------------------------- MODULE CapabilityRegistry --------------------------
(***************************************************************************)
(* The capability registry of one organization: requests that add a        *)
(* version, and the version a slug resolves to.  With PostgreSQL one       *)
(* INSERT under two unique keys decides; without it a request reads the    *)
(* whole file, checks it, and puts a snapshot of the new state on a chain  *)
(* of writes.  A request runs alongside the others.                        *)
(***************************************************************************)
EXTENDS CapabilityFabric, FiniteSetsExt

CONSTANTS
    Entries,        \* what requests may add: [id, slug, version, kind]
    Postgres,       \* the kinds of store to try, a set of booleans
    MaxRequests,    \* bound: requests
    MaxFailures     \* bound: failing reads, writes, queries and restarts

ASSUME RegistryAssumption == Postgres \subseteq BOOLEAN /\ MaxRequests \in Nat /\ MaxFailures \in Nat

VARIABLES
    postgres,   \* is the store a database
    stored,     \* the entries on the disk or in the table: with .at
    requests,   \* [request -> [step, entry, seen]]
    chain,      \* JSON: snapshots to write, with their requests
    overlapped, \* two requests of a JSON store were under way at once
    failures

registryVars == <<postgres, stored, requests, chain, overlapped, failures>>

RegistryInit ==
    /\ postgres \in Postgres
    /\ stored = {} /\ requests = <<>> /\ chain = <<>>
    /\ overlapped = FALSE /\ failures = 0

Ask(r, step, seen) == requests' = [requests EXCEPT ![r].step = step, ![r].seen = seen]
Open(r) == requests[r].step \in {"read", "check", "write", "insert"}

\* createEntry: the time of the request goes into the entry.
AddCapability(entry) ==
    /\ Len(requests) < MaxRequests
    /\ requests' = Append(requests, [step |-> IF postgres THEN "insert" ELSE "read", seen |-> {},
                                     entry |-> entry @@ [at |-> Len(requests) + 1]])
    /\ overlapped' = (overlapped \/ (~postgres /\ \E r \in DOMAIN requests : Open(r)))
    /\ UNCHANGED <<postgres, stored, chain, failures>>

ReadLocalState(r) ==
    /\ requests[r].step = "read"
    /\ Ask(r, "check", stored)
    /\ UNCHANGED <<postgres, stored, chain, overlapped, failures>>

\* Variant: a file that cannot be read is taken for an empty one.
UnreadableIsEmpty(r) == Ask(r, "check", {})

\* Only a missing file is an empty one; anything else fails the request.
Unreadable(r) == Ask(r, "failed", {})

ReadFails(r) ==
    /\ requests[r].step = "read" /\ failures < MaxFailures
    /\ failures' = failures + 1
    /\ Unreadable(r)
    /\ UNCHANGED <<postgres, stored, chain, overlapped>>

\* The two unique keys.
Same(a, b) == (a.id = b.id \/ a.slug = b.slug) /\ a.version = b.version

\* A taken version is a conflict; otherwise the snapshot goes on the chain.
CheckAndChain(r) ==
    /\ requests[r].step = "check"
    /\ IF \E e \in requests[r].seen : Same(e, requests[r].entry)
       THEN Ask(r, "conflict", {}) /\ UNCHANGED chain
       ELSE /\ Ask(r, "write", {})
            /\ chain' = Append(chain, [of |-> r, state |-> requests[r].seen \cup {requests[r].entry}])
    /\ UNCHANGED <<postgres, stored, overlapped, failures>>

\* One write after another: a file of its own and a rename.
WriteSnapshot ==
    /\ chain # <<>> /\ chain' = Tail(chain)
    /\ stored' = Head(chain).state
    /\ Ask(Head(chain).of, "created", {})
    /\ UNCHANGED <<postgres, overlapped, failures>>

Rest(c) == Tail(c)

\* Its request fails, the next write goes on.
WriteFails ==
    /\ chain # <<>> /\ failures < MaxFailures
    /\ failures' = failures + 1 /\ chain' = Rest(chain)
    /\ Ask(Head(chain).of, "failed", {})
    /\ UNCHANGED <<postgres, stored, overlapped>>

Insert(r) ==
    /\ requests[r].step = "insert"
    /\ IF \E e \in stored : Same(e, requests[r].entry)
       THEN Ask(r, "conflict", {}) /\ UNCHANGED stored
       ELSE Ask(r, "created", {}) /\ stored' = stored \cup {requests[r].entry}
    /\ UNCHANGED <<postgres, chain, overlapped, failures>>

\* The migration or the INSERT fails; the next request tries the migration again.
QueryFails(r) ==
    /\ requests[r].step = "insert" /\ failures < MaxFailures
    /\ failures' = failures + 1
    /\ Ask(r, "failed", {})
    /\ UNCHANGED <<postgres, stored, chain, overlapped>>

\* The process dies with what it had not written.
Restart ==
    /\ failures < MaxFailures /\ \E r \in DOMAIN requests : Open(r)
    /\ failures' = failures + 1 /\ chain' = <<>>
    /\ requests' = [r \in DOMAIN requests |-> IF Open(r) THEN [requests[r] EXCEPT !.step = "failed", !.seen = {}] ELSE requests[r]]
    /\ UNCHANGED <<postgres, stored, overlapped>>

Serve ==
    \/ \E r \in DOMAIN requests : ReadLocalState(r) \/ CheckAndChain(r) \/ Insert(r)
    \/ WriteSnapshot

RegistryNext ==
    \/ \E entry \in Entries : AddCapability(entry)
    \/ Serve
    \/ \E r \in DOMAIN requests : ReadFails(r) \/ QueryFails(r)
    \/ WriteFails \/ Restart

RegistrySpec == RegistryInit /\ [][RegistryNext]_registryVars

-----------------------------------------------------------------------------
(***************************************************************************)
(* Reading.                                                                *)
(***************************************************************************)
\* sortEntries: newest version first, then the latest addition.
SortEntries(entries) ==
    SetToSortSeq(entries, LAMBDA a, b : LET order == Compare(a.version, b.version) IN
                                          order > 0 \/ (order = 0 /\ a.at > b.at))

Of(slug) == {e \in stored : e.slug = slug}

\* selectVersion without a version, of a slug that has one.
Resolve(slug) == SortEntries(Of(slug))[1]

\* listByOrganization: the filters come first, then the first entry of each slug.
List(kinds) ==
    LET sorted == SortEntries({e \in stored : e.kind \in kinds})
    IN {sorted[i] : i \in {k \in DOMAIN sorted : \A m \in 1..k - 1 : sorted[m].slug # sorted[k].slug}}

-----------------------------------------------------------------------------
(***************************************************************************)
(* What must hold.                                                         *)
(***************************************************************************)
\* Every variable keeps its shape; a request that is answered holds nothing.
RegistryTypeOK ==
    /\ \A r \in DOMAIN requests :
         /\ requests[r].step \in {"read", "check", "write", "insert", "created", "conflict", "failed"}
         /\ requests[r].step # "check" => requests[r].seen = {}
         /\ requests[r].step = "write" <=> (\E i \in DOMAIN chain : chain[i].of = r)
    /\ postgres => (chain = <<>> /\ ~overlapped)
    /\ failures \in 0..MaxFailures

\* Whichever requests overlap, no two stored entries share a version under
\* one slug or of one capability.
VersionsAreUnique ==
    \A a, b \in stored : (a.version = b.version /\ (a.id = b.id \/ a.slug = b.slug)) => a = b

\* An entry whose creation was confirmed stays and is never replaced, unless
\* a JSON store served two requests at once.
CreatedStays ==
    overlapped \/ \A r \in DOMAIN requests :
      requests[r].step = "created" => requests[r].entry \in stored

(* What these two need to be inductive.                                    *)
\* Entries with the time of their request, and what the variables hold.
Stamped == {entry @@ [at |-> n] : entry \in Entries, n \in 1..MaxRequests}
RequestRows == [step : {"read", "check", "write", "insert", "created", "conflict", "failed"},
                entry : Stamped, seen : SUBSET Stamped]
Snapshots == [of : 1..MaxRequests, state : SUBSET Stamped]

RegistryShape ==
    /\ postgres \in BOOLEAN /\ overlapped \in BOOLEAN /\ failures \in 0..MaxFailures
    /\ stored \in SUBSET Stamped
    /\ requests \in Seq(RequestRows) /\ Len(requests) <= MaxRequests
    /\ chain \in Seq(Snapshots)
    /\ \A i \in DOMAIN chain : chain[i].of \in DOMAIN requests

\* The two stores have steps of their own, and a request waits for one write.
OneWriteEach ==
    /\ \A r \in DOMAIN requests :
         /\ postgres => requests[r].step \notin {"read", "check", "write"}
         /\ ~postgres => requests[r].step # "insert"
    /\ \A i, k \in DOMAIN chain : chain[i].of = chain[k].of => i = k

\* What a request has read and what it will write has no version twice.
Distinct(entries) == \A a, b \in entries : Same(a, b) => a = b
SnapshotsAreDistinct ==
    /\ Distinct(stored)
    /\ \A r \in DOMAIN requests : Distinct(requests[r].seen)
    /\ \A i \in DOMAIN chain : Distinct(chain[i].state)

\* As long as requests come one at a time, what one has read is what is
\* stored, and its snapshot adds its entry to that.
OneAtATime ==
    (~overlapped /\ ~postgres) =>
      /\ \A r, q \in DOMAIN requests : Open(r) /\ Open(q) => r = q
      /\ \A r \in DOMAIN requests : requests[r].step = "check" => requests[r].seen = stored
      /\ \A i \in DOMAIN chain : chain[i].state = stored \cup {requests[chain[i].of].entry}

RegistryIInv ==
    /\ RegistryTypeOK /\ RegistryShape /\ OneWriteEach
    /\ SnapshotsAreDistinct /\ OneAtATime /\ CreatedStays

\* The reference: a precedes b in the order of semantic versions.
Precedes(a, b) ==
    \/ a.core < b.core
    \/ a.core = b.core /\ a.pre # 0 /\ (b.pre = 0 \/ a.pre < b.pre)

\* Two prereleases of one core, or one that begins with a dash, are compared
\* by their texts only.
TextDecides(a, b) ==
    /\ a.core = b.core
    /\ (a.pre # 0 /\ b.pre # 0) \/ \E v \in {a, b} : v.pre # 0 /\ v.text = 0

\* A slug resolves to a version that precedes no other one of the slug, except
\* where texts decide, and the list of the newest versions shows the same entry.
LatestIsNewest ==
    \A slug \in {e.slug : e \in stored} :
      /\ \A e \in Of(slug) :
           Precedes(Resolve(slug).version, e.version) => TextDecides(Resolve(slug).version, e.version)
      /\ {e \in List(Kinds) : e.slug = slug} = {Resolve(slug)}

=============================================================================
