--------------------------- MODULE ReloadRegister ---------------------------
(***************************************************************************)
(* What a hot reload promises, without locks, handlers or configuration     *)
(* structures: the manager keeps a history of installed Shadowsocks         *)
(* clients whose last element is current; a reload either appends exactly   *)
(* one client and is then answered "ok", or appends nothing and is          *)
(* "refused"; a proxied connection binds, in one instant, to the client     *)
(* that is current, and keeps it until it closes.                           *)
(* HotReload refines this module.                                           *)
(***************************************************************************)
EXTENDS Naturals, Sequences

CONSTANTS Reloaders,   \* callers of POST /reload
          Dialers,     \* proxied connections
          Clients      \* identities of Shadowsocks clients

VARIABLES
  installed,   \* history of installed clients; the last one is current
  reload,      \* per caller: "idle", "pending" (asked) or "applied"
  answer,      \* per caller: its last answer
  bound        \* per connection: <<>>, or <<c>> when it uses client c

vars == <<installed, reload, answer, bound>>

Current == installed[Len(installed)]

TypeOK ==
  /\ installed \in Seq(Clients) /\ installed /= <<>>
  /\ reload \in [Reloaders -> {"idle", "pending", "applied"}]
  /\ answer \in [Reloaders -> {"none", "ok", "refused"}]
  /\ \A d \in Dialers : bound[d] = <<>> \/ \E c \in Clients : bound[d] = <<c>>

Init ==
  /\ installed \in Seq(Clients) /\ Len(installed) = 1
  /\ reload = [r \in Reloaders |-> "idle"]
  /\ answer = [r \in Reloaders |-> "none"]
  /\ bound = [d \in Dialers |-> <<>>]

Submit(r) ==
  /\ reload[r] = "idle"
  /\ reload' = [reload EXCEPT ![r] = "pending"]
  /\ answer' = [answer EXCEPT ![r] = "none"]
  /\ UNCHANGED <<installed, bound>>

\* Refused before anything was installed: at once, or after some work.
Refuse(r) ==
  /\ reload[r] \in {"idle", "pending"}
  /\ reload' = [reload EXCEPT ![r] = "idle"]
  /\ answer' = [answer EXCEPT ![r] = "refused"]
  /\ UNCHANGED <<installed, bound>>

Apply(r) ==
  /\ reload[r] = "pending"
  /\ reload' = [reload EXCEPT ![r] = "applied"]
  /\ installed' \in Seq(Clients) /\ Len(installed') = Len(installed) + 1
  /\ SubSeq(installed', 1, Len(installed)) = installed
  /\ UNCHANGED <<answer, bound>>

Confirm(r) ==
  /\ reload[r] = "applied"
  /\ reload' = [reload EXCEPT ![r] = "idle"]
  /\ answer' = [answer EXCEPT ![r] = "ok"]
  /\ UNCHANGED <<installed, bound>>

Bind(d) ==
  /\ bound[d] = <<>>
  /\ bound' = [bound EXCEPT ![d] = <<Current>>]
  /\ UNCHANGED <<installed, reload, answer>>

Release(d) ==
  /\ bound[d] /= <<>>
  /\ bound' = [bound EXCEPT ![d] = <<>>]
  /\ UNCHANGED <<installed, reload, answer>>

Next ==
  \/ \E r \in Reloaders : Submit(r) \/ Refuse(r) \/ Apply(r) \/ Confirm(r)
  \/ \E d \in Dialers : Bind(d) \/ Release(d)

Spec == Init /\ [][Next]_vars
=============================================================================
