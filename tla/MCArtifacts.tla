---------------------------- MODULE MCArtifacts ----------------------------
(***************************************************************************)
(* The two parts that vouch for a published day, each checked by itself:   *)
(* `part' says which one runs, and the other one rests.                    *)
(*                                                                         *)
(* Binding: a published day directory behind a link, a second one beside   *)
(* it with the same layout, a link within the first, and links that lead   *)
(* from the first into the second.                                         *)
(*                                                                         *)
(* Certification: two channels, one of three rows in two row groups, one   *)
(* of a single row.                                                        *)
(***************************************************************************)
EXTENDS ManifestBinding, Certification

VARIABLE part

MCDirs == {"top", "D1", "D2", "C1", "C2"}
MCFiles == {"A1", "A2"}
MCLinks == {"now", "later", "inner", "dir", "file"}
MCNames == {"now", "d1", "d2", "ch", "a"}
MCTarget == [l \in MCLinks |->
    CASE l = "now"   -> <<"d1">>
      [] l = "later" -> <<"d2">>
      [] l = "inner" -> <<"d1", "ch">>
      [] l = "dir"   -> <<"d2", "ch">>
      [] l = "file"  -> <<"d2", "ch", "a">>]
MCTree == [s \in {<<"top", "now">>, <<"top", "d1">>, <<"top", "d2">>, <<"D1", "ch">>,
                  <<"D1", "a">>, <<"D2", "ch">>, <<"C1", "a">>, <<"C2", "a">>} |->
    CASE s = <<"top", "now">> -> "now"
      [] s = <<"top", "d1">>  -> "D1"
      [] s = <<"top", "d2">>  -> "D2"
      [] s = <<"D1", "ch">>   -> "C1"
      [] s = <<"D1", "a">>    -> "inner"
      [] s = <<"D2", "ch">>   -> "C2"
      [] s = <<"C1", "a">>    -> "A1"
      [] s = <<"C2", "a">>    -> "A2"]
MCContent == [f \in MCFiles |-> IF f = "A1" THEN <<1>> ELSE <<2>>]
MCManifestParent == <<"now">>
MCRequests == {[path |-> <<"ch", "a">>, lexical |-> TRUE, hash |-> <<1>>],
               [path |-> <<"a", "a">>, lexical |-> TRUE, hash |-> None],
               [path |-> <<"ch">>, lexical |-> TRUE, hash |-> None],
               [path |-> <<"..", "a">>, lexical |-> FALSE, hash |-> None]}

Row(channel, biz, kind) ==
    [day |-> 7, channel |-> channel, biz |-> biz, nano |-> 10 * biz, ordinal |-> biz,
     kind |-> kind, body |-> TRUE, envelope |-> TRUE]
File(rowGroups) == [groups |-> rowGroups, width |-> Width, nullable |-> FALSE]

MCPayloads == <<File(<< <<Row(1, 1, "order"), Row(1, 2, "trade")>>, <<Row(1, 3, "order")>> >>),
                File(<< <<Row(2, 4, "trade")>> >>)>>
MCManifest ==
    [version |-> 1, day |-> 7, format |-> "fixed-binary-v1", width |-> Width,
     indivisible |-> TRUE, claims |-> FALSE, scope |-> "none",
     counts |-> [channels |-> 2, rows |-> 4, orders |-> 2, trades |-> 2],
     channels |-> <<[id |-> 1, rows |-> 3, groups |-> 2, first |-> 1, last |-> 3,
                     orders |-> 2, trades |-> 1, least |-> 10, greatest |-> 30],
                    [id |-> 2, rows |-> 1, groups |-> 0, first |-> 4, last |-> 4,
                     orders |-> Absent, trades |-> 1, least |-> 40, greatest |-> Absent]>>]
MCRowCaps == {Absent, 3, 4}

MCInit ==
    \/ part = "binding" /\ Init /\ CertifyInit
    \/ part = "certification" /\ consumer = "read" /\ Init /\ CertifyInit

MCNext ==
    \/ /\ part = "binding" /\ Next
       /\ UNCHANGED <<part, manifest, payload, lanes, edits, run>>
    \/ part = "certification" /\ CertifyNext /\ UNCHANGED <<part, vars>>

MCSpec == MCInit /\ [][MCNext]_<<part, vars, certifyVars>>
=============================================================================
