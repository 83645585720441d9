-------------------------- MODULE MCConcludeBatch --------------------------
(* Puts 1 to 3 land on node "a" and 4 on node "b"; 5 failed, 6 has lost its
   allocation, 7 reports no digest.  Put 2 was allocated without a digest and
   put 3's PDP task is already concluded.  Puts 1 and 3 are between them answered
   in every way but malformed, put 2 in every way but a failure. *)
EXTENDS ConcludeBatch
MCKind == <<"ok", "ok", "ok", "ok", "failed", "lost", "nodigest">>
MCProvider == <<"a", "a", "a", "b", "a", "a", "b">>
MCReplies == <<{"ok", "bare", "failure"}, {"ok", "bare", "mismatch", "malformed"},
               {"ok", "mismatch", "failure"}, {"ok", "failure"}, {}, {}, {}>>
MCDeliveries == {<<1, 2, 3, 4>>, <<4, 5, 3, 2>>, <<5, 2, 7>>, <<1, 6>>, <<2, 3, 2>>}
=============================================================================
