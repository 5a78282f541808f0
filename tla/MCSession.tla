----------------------------- MODULE MCSession -----------------------------
(***************************************************************************)
(* Session with three launches, two of which mean the same, and five       *)
(* listings, one of which is the mock's in other words.                    *)
(***************************************************************************)
EXTENDS Session

\* Items of CSV values and plain words.
Server == Word(<<9>>)
Repos == 1
Issues == 2

Env(key, value) == [key |-> key, value |-> value]
Scope == Env("GITHUB_TOOLSETS", <<Repos>>)

\* `server --toolsets repos,issues`, and the same written in another way, in an
\* environment with another secret.
Both == [argv |-> <<Server, Flag("--toolsets"), Word(<<Repos, Issues>>)>>,
         environ |-> <<Scope, Env("GITHUB_TOKEN", <<3>>)>>,
         mock |-> TRUE, meaning |-> "repos and issues"]
BothRespelled == [argv |-> <<Server, Inline("--toolsets", <<-Issues, 0, Repos>>)>>,
                  environ |-> <<Env("GITHUB_TOKEN", <<4>>), Env("GITHUB_TOOLSETS", <<Issues>>),
                                Env("GITHUB_TOOLSETS", <<0, -Repos>>)>>,
                  mock |-> FALSE, meaning |-> "repos and issues"]
\* The flag without a value, before another flag.
One == [argv |-> <<Server, Flag("--toolsets"), Flag("--read-only")>>,
        environ |-> <<Scope>>, mock |-> FALSE, meaning |-> "read only"]

MCConfigs == {Both, BothRespelled, One}

\* Alpha with the members of its schema in another order and one of them twice.
AlphaRespelled ==
  [Alpha EXCEPT !.inputSchema =
     Object(<< <<"properties", "old">>, <<"properties", "none">>, <<"type", "object">> >>),
   !.annotations = Null]
AlphaAnnotated == [Alpha EXCEPT !.annotations = Object(<<>>), !.says = "alpha, annotated"]

AlphaNameless == [Alpha EXCEPT !.name = 0, !.says = "nameless"]
AlphaAgain == [Alpha EXCEPT !.says = "alpha, again"]

MCListings ==
  {<<>>, <<Bravo, AlphaRespelled>>, <<AlphaAnnotated, Bravo>>, <<Alpha, AlphaAgain>>,
   <<AlphaNameless, Bravo>>}
=============================================================================
