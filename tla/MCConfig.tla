------------------------------ MODULE MCConfig ------------------------------
(* Inputs for Config, one group of keys at a time: the keys of different    *)
(* groups do not meet in the code.  Outside its group an input gives what   *)
(* Validate demands.                                                        *)
EXTENDS Config

Groups == {{"server", "serverPort", "port", "password"},
           {"cipher", "method", "timeout", "level"},
           {"unified", "http", "socks", "auth"}}

Needed(g) == {"server", "password"} \ g

InputsOf(g) ==
  [hasFile : {TRUE}, file : {Needed(g) \cup S : S \in SUBSET (g \cap FileKeys)},
   env : SUBSET (g \cap EnvKeys), flag : SUBSET (g \cap FlagKeys)]
  \cup
  [hasFile : {FALSE}, file : {{}}, env : {{}, g \cap EnvKeys},
   flag : {Needed(g) \cup S : S \in SUBSET (g \cap FlagKeys)}]

GroupedInputs == {i \in UNION {InputsOf(g) : g \in Groups} : Possible(i)}
=============================================================================
