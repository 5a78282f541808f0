------------------------------ MODULE Catalog ------------------------------
(***************************************************************************)
(* How a tools/list becomes a pin: canonical JSON (core/canonical.go), the *)
(* hashes, the comparison and the verification of pins (core/pin.go).      *)
(*                                                                         *)
(* Names are numbers, in the order of sort.Strings; 0 is a blank name.     *)
(* Raw JSON is blank, null, or the members of an object in the order in    *)
(* which the server wrote them; values are opaque.  SHA-256 is taken to be *)
(* free of collisions: the hash of a value is the value under a tag.       *)
(***************************************************************************)
EXTENDS Integers, Sequences, FiniteSets, TLC

Elements(s) == {s[i] : i \in DOMAIN s}

\* What a server may list: any sequence of tools.
Listing(tools) ==
  tools \in Seq(Elements(tools)) /\ \A t \in Elements(tools) : t.name \in Nat

Blank == [kind |-> "blank", members |-> <<>>]
Null == [kind |-> "null", members |-> <<>>]
Object(members) == [kind |-> "object", members |-> members]

\* decodeJSON and normalize: an object is its members by key; of a repeated
\* key the last one counts.
Normalize(raw) ==
  LET at(k) == CHOOSE i \in DOMAIN raw.members :
                 /\ raw.members[i][1] = k
                 /\ \A j \in DOMAIN raw.members : raw.members[j][1] = k => j <= i
  IN  [k \in {m[1] : m \in Elements(raw.members)} |-> raw.members[at(k)][2]]

\* toolPayload: no schema is the empty schema, while no annotations are left
\* out, which differs from empty ones.
Payload(t) ==
  [name |-> t.name, description |-> t.description, inputSchema |-> Normalize(t.inputSchema),
   annotations |-> IF t.annotations.kind = "object" THEN {Normalize(t.annotations)} ELSE {}]

NoHash == <<>>
Junk == <<"not hexadecimal">>
Sha256(v) == <<"sha256", v>>

\* validSHA256Hex.
IsHash(h) == h \notin {NoHash, Junk}

\* sortToolsByName refuses a blank and a repeated name ...
Refused(tools) ==
  \/ \E t \in Elements(tools) : t.name = 0
  \/ \E i, j \in DOMAIN tools : i # j /\ tools[i].name = tools[j].name

\* ... so the order it sorts the others into is strict: the k-th tool is the one
\* with k names up to its own.
ByName(tools, k) ==
  CHOOSE t \in Elements(tools) : Cardinality({u \in Elements(tools) : u.name <= t.name}) = k

\* Mutant of HashCatalog: the tools are hashed in the order of the server.
HashCatalogUnsorted(tools) ==
  LET payload(n) == Payload(CHOOSE t \in Elements(tools) : t.name = n)
  IN  [aggregate |-> Sha256([k \in DOMAIN tools |-> Payload(tools[k])]),
       hashes |-> [n \in {t.name : t \in Elements(tools)} |-> Sha256(payload(n))],
       tools |-> [k \in DOMAIN tools |-> ByName(tools, k)]]

\* hashCatalog, of a listing that is not refused: the aggregate is the hash of
\* all payloads in order, and each name has the hash of its own.
HashCatalog(tools) ==
  LET payload(n) == Payload(CHOOSE t \in Elements(tools) : t.name = n)
  IN  [aggregate |-> Sha256([k \in DOMAIN tools |-> Payload(ByName(tools, k))]),
       hashes |-> [n \in {t.name : t \in Elements(tools)} |-> Sha256(payload(n))],
       tools |-> [k \in DOMAIN tools |-> ByName(tools, k)]]

\* PinTools: a refused listing becomes a pin without a hash.
PinTools(tools) ==
  IF Refused(tools) THEN [aggregate |-> NoHash, hashes |-> <<>>, tools |-> <<>>]
  ELSE HashCatalog(tools)

\* Mutant of Summary: a tool that comes is taken for one that goes.
SummarySwapped(old, live) ==
  [added |-> DOMAIN old.hashes \ DOMAIN live.hashes,
   removed |-> DOMAIN live.hashes \ DOMAIN old.hashes,
   changed |-> {n \in DOMAIN old.hashes \intersect DOMAIN live.hashes : old.hashes[n] # live.hashes[n]}]

\* summarize: names that come, go, and stay with another hash.
Summary(old, live) ==
  [added |-> DOMAIN live.hashes \ DOMAIN old.hashes,
   removed |-> DOMAIN old.hashes \ DOMAIN live.hashes,
   changed |-> {n \in DOMAIN old.hashes \intersect DOMAIN live.hashes : old.hashes[n] # live.hashes[n]}]

\* VerifyPin.  With tools, or with nothing at all, the aggregate is computed
\* again and the hash of each tool is not looked at; with hashes only, their
\* form is all that can be checked.
Verified(p) ==
  /\ p.aggregate # NoHash
  /\ \/ /\ p.tools # <<>> \/ DOMAIN p.hashes = {}
        /\ ~Refused(p.tools)
        /\ HashCatalog(p.tools).aggregate = p.aggregate
     \/ /\ p.tools = <<>> /\ DOMAIN p.hashes # {}
        /\ IsHash(p.aggregate)
        /\ \A n \in DOMAIN p.hashes : n # 0 /\ IsHash(p.hashes[n])
=============================================================================
