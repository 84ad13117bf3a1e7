-------------------------- MODULE MCSqlTransaction --------------------------
(***************************************************************************)
(* Bodies of InTransaction for TLC.                                        *)
(***************************************************************************)
EXTENDS SqlTransaction

Made(how, writes, finds, events, opaque, until) ==
  [how |-> how, writes |-> writes, finds |-> finds, events |-> events, opaque |-> opaque,
   until |-> until]

\* Handlers that were written for it, as in the tests of InTransaction.
Flat == <<Made("plain", 2, {}, {1}, FALSE, {}), Made("plain", 1, {}, {1}, TRUE, {}),
          Made("plain", 1, {}, {}, FALSE, {})>>

\* SQLStore.ensureMainOrgAndAdminUser: return if there are
\* users; createUser (the main organization, the user, the
\* membership); the organization, which is there already.
Startup ==
  <<Made("closing", 0, {}, {}, FALSE, {<<2, 2>>}),
    Made("nested", 3, {1}, {1, 2}, TRUE, {}),
    Made("nested", 0, {}, {}, FALSE, {})>>

Both == {Flat, Startup}
=============================================================================
