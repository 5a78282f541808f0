------------------------------ MODULE Identity ------------------------------
(***************************************************************************)
(* The configuration of a guarded server as its pin remembers it           *)
(* (core/fingerprint.go).                                                  *)
(*                                                                         *)
(* A word of argv is a flag with or without `=value`, or, with the flag    *)
(* "", a plain word.  A value is the list of its comma-separated items, in *)
(* the order of sort.Strings: 0 is a blank item and -n is n with spaces    *)
(* around it.  ServerNameFromArgv is the plain word argv begins with.      *)
(***************************************************************************)
EXTENDS Integers, Sequences, TLC

Word(value) == [flag |-> "", inline |-> FALSE, value |-> value]
Flag(name) == [flag |-> name, inline |-> FALSE, value |-> <<>>]
Inline(name, value) == [flag |-> name, inline |-> TRUE, value |-> value]

InventoryEnvKeys ==
  {"DEADBUGZ_CREDENTIAL_SCOPE", "GITHUB_CONTENT_FILTER", "GITHUB_DYNAMIC_TOOLSETS",
   "GITHUB_READ_ONLY", "GITHUB_SCOPES", "GITHUB_TOOLS", "GITHUB_TOOLSETS", "GH_SCOPES",
   "MCP_TOOLS", "MCP_TOOLSETS"}
InventoryCSVEnv == {"GITHUB_TOOLS", "GITHUB_TOOLSETS", "MCP_TOOLS", "MCP_TOOLSETS"}
InventoryCSVFlags == {"--tools", "--toolsets"}

\* Trim the items, drop the blank ones and sort the rest, repeated or not.
SortCSV(value) ==
  LET trimmed == [i \in DOMAIN value |-> IF value[i] < 0 THEN -value[i] ELSE value[i]]
  IN  SortSeq(SelectSeq(trimmed, LAMBDA item : item # 0), LAMBDA a, b : a < b)

\* A CSV flag without a value of its own takes the next word, unless that is a
\* flag.
Takes(argv, i) ==
  /\ argv[i].flag \in InventoryCSVFlags /\ ~argv[i].inline
  /\ i < Len(argv) /\ argv[i + 1].flag = ""

StableWord(argv, i) ==
  CASE Takes(argv, i) -> Inline(argv[i].flag, SortCSV(argv[i + 1].value))
    [] argv[i].flag \in InventoryCSVFlags /\ argv[i].inline -> Inline(argv[i].flag, SortCSV(argv[i].value))
    [] OTHER -> argv[i]

\* The stable words from each position on: a word that was taken disappears.
StableFrom(argv) ==
  LET from[i \in 1 .. Len(argv) + 1] ==
        IF i > Len(argv) THEN <<>>
        ELSE <<StableWord(argv, i)>> \o from[IF Takes(argv, i) THEN i + 2 ELSE i + 1]
  IN  from
StableArgv(argv) == StableFrom(argv)[1]

\* SubsetEnv and stableEnv: the inventory variables, none of which secretEnvKey
\* matches.  Of a variable that is set twice the last value counts.
SubsetEnv(environ) ==
  LET set(k) == {i \in DOMAIN environ : environ[i].key = k}
      value(k) == environ[CHOOSE i \in set(k) : \A j \in set(k) : j <= i].value
  IN  [k \in {k \in InventoryEnvKeys : set(k) # {}} |->
         IF k \in InventoryCSVEnv THEN SortCSV(value(k)) ELSE value(k)]

NoFingerprint == <<>>

\* ConfigFingerprint.
Fingerprint(argv, environ) == <<StableArgv(argv), SubsetEnv(environ)>>

\* BindPinIdentity.  ComputePinID hashes the same three fields into pin_id,
\* which nothing reads back.
BindPinIdentity(pin, argv, environ) ==
  [pin EXCEPT !.fingerprint = Fingerprint(argv, environ)]
=============================================================================
