------------------------------- MODULE Server -------------------------------
(***************************************************************************)
(* The life of the server process: main() reads its settings from a TOML   *)
(* file and from the environment, refuses to start when they will not do,  *)
(* and serves the HTTP API until it is stopped.  What it holds in memory   *)
(* goes with it.                                                           *)
(*                                                                         *)
(* Two settings stand for all: signing_key for those that have no default  *)
(* (database, http, mqtt, registration, suspension and notifications fail  *)
(* to deserialise in the same way), api_key for those that have one.       *)
(***************************************************************************)
EXTENDS Integers, FiniteSets

CONSTANTS
  Values,   \* values a setting may have
  Empty,    \* the empty string
  Bad,      \* a string that is not base64
  None,     \* model value: the setting is absent, the process is down
  Parsed,   \* what try_parsing makes of a value: a number is written anew
  Sources   \* contents of file and environment to consider

Setting == {"signing_key", "api_key"}

ASSUME ServerAssumption ==
  /\ {Empty, Bad} \subseteq Values /\ None \notin Values
  /\ Parsed \in [Values -> Values]
  /\ \A v \in Values : Parsed[v] = Empty <=> v = Empty
  /\ LET Source == [Setting -> Values \cup {None}] IN
     Sources \subseteq [file : Source, env : Source]

VARIABLES
  sources,  \* the file and the environment
  config    \* AppState.config of the running process, or None

server == <<sources, config>>

Config == [Setting -> Values]

-----------------------------------------------------------------------------
\* config::Config: a source that is added later overrides the earlier one, also
\* with an empty string.  Text from the environment that looks like a number
\* becomes one, and is written out again for a field that is a string.
Merged(s) ==
  [k \in Setting |->
     IF s.env[k] # None THEN Parsed[s.env[k]] ELSE s.file[k]]

\* try_deserialize: api_key has a default.
Deserialised(m) == [m EXCEPT !.api_key = IF @ = None THEN Empty ELSE @]

\* Mutant: the check is forgotten.
ValidateNothing(c) == TRUE

\* Config::validate.
Validate(c) == c.api_key # Empty

\* Config::load succeeds and yields c.
Load(s, c) ==
  /\ c = Deserialised(Merged(s))
  /\ \A k \in Setting : c[k] # None
  /\ Validate(c)

\* JwtKeys::from_base64.
Decodes(key) == key # Bad

\* main() up to axum::serve; any error on the way ends the process again.
Start ==
  /\ config = None
  /\ \E c \in Config :
       /\ Load(sources, c)
       /\ Decodes(c.signing_key)
       /\ config' = c
  /\ sources' = sources

\* The operator edits the file or the environment.  They are read when the
\* process starts and at no other time, so it need not be running.
Edit(s) ==
  /\ config = None
  /\ s # sources
  /\ sources' = s
  /\ config' = config

\* The process ends.
Stop ==
  /\ config # None
  /\ config' = None
  /\ sources' = sources

\* require_admin_key: a missing header reads as the empty string.
RequireAdminKey(provided) == config # None /\ provided = config.api_key

ServerInit ==
  /\ sources \in Sources
  /\ config = None

ServerTypeOK ==
  /\ sources \in Sources
  /\ config \in Config \cup {None}
=============================================================================
