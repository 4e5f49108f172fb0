------------------------------- MODULE Domain -------------------------------
(***************************************************************************)
(* Values of internal/core/domains shared by every component: clients,     *)
(* languages, the language pair of a search and the waiting user.          *)
(***************************************************************************)

CONSTANTS Client,     \* client ids; ServeHTTP draws a fresh one per connection
          Language,   \* language codes that NewLanguage accepts
          None        \* "no client", "no room", "no request id": Go's zero value

ASSUME NoneIsNoClient == None \notin Client

\* NewLanguagePair refuses a pair that learns its own native language.
LanguagePair == { p \in [native : Language, learning : Language] :
                    p.native # p.learning }

\* LanguagePair.IsCompatibleWith: each side learns what the other speaks.
IsCompatibleWith(p, q) == /\ p.native = q.learning
                          /\ p.learning = q.native

WaitingUser == [client : Client, pair : LanguagePair]

\* NewConnectedClientsPair refuses to pair a client with itself.
ConnectedClientsPair ==
  { p \in SUBSET Client : \E a, b \in Client : a # b /\ p = {a, b} }
=============================================================================
