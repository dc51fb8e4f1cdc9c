------------------------------ MODULE MCCommands ------------------------------
(* Inputs for Commands: those of Config, one group of keys at a time, and   *)
(* foreign files with the environment and the flags that meet them.         *)
EXTENDS Commands, MCConfig

\* Every set of keys, and with all keys every plugin.
ForeignFiles ==
  [format : {"ss-local"}, keys : {{"server", "password"} \cup S :
                                  S \in SUBSET (SsLocalKeys \ {"server", "password"})},
   plugin : {"none"}, opts : {<<>>}, ss : {FALSE}]
  \cup
  [format : {"clash"}, keys : SUBSET ClashKeys, plugin : {"none"}, opts : {<<>>}, ss : {TRUE}]
  \cup
  [format : {"ss-local"}, keys : {SsLocalKeys}, plugin : Plugins,
   opts : {<<>>, <<{"obfs"}>>}, ss : {FALSE}]
  \cup
  [format : {"clash"}, keys : {ClashKeys}, plugin : Plugins,
   opts : {<<>>, <<{}>>, <<{"obfs", "host"}>>}, ss : {TRUE}]
  \cup
  [format : {"clash", "other"}, keys : {{"server"}}, plugin : {"none"}, opts : {<<>>},
   ss : {FALSE}]

\* What the environment and the flags add to a converted file.
Over == [hasFile : {TRUE}, file : {{}},
         env : SUBSET {"cipher", "socks"}, flag : SUBSET {"port", "method", "timeout"}]

OwnInputs == GroupedInputs \cup Over

\* The files a conversion may write.
Files == {FileOf(f) : f \in {g \in ForeignFiles : g.format /= "other"}}

AllInputs == OwnInputs
  \cup UNION {[hasFile : {TRUE}, file : Files, env : {o.env}, flag : {o.flag}] :
                o \in {i \in OwnInputs : i.hasFile /\ i.file = {}}}
=============================================================================
