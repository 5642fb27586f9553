-------------------------- MODULE IdentityRegistry --------------------------
(***************************************************************************)
(* What the Client table promises: on each server a voice identity belongs *)
(* to at most one user.  A user may be given a free identity, in addition  *)
(* to or in place of an own one; nobody takes over another user's.         *)
(***************************************************************************)
CONSTANTS Servers, Users, Idents

VARIABLE links   \* a set of [server, user, ident]

Init == links = {}

FreeIdent(s, d) == \A l \in links : l.server = s => l.ident # d

Link(s, u, d) ==
    LET new == [server |-> s, user |-> u, ident |-> d] IN
    /\ FreeIdent(s, d)
    /\ \/ links' = links \cup {new}
       \/ \E l \in links : /\ l.server = s /\ l.user = u
                           /\ links' = (links \ {l}) \cup {new}

Next == \E s \in Servers, u \in Users, d \in Idents : Link(s, u, d)

Spec == Init /\ [][Next]_links

\* The unique keys of Client, as a user of the service may put it: a voice
\* identity of a server is linked once, so it stands for one user.
OneUser == \A k, l \in links : k.server = l.server /\ k.ident = l.ident => k = l
=============================================================================
