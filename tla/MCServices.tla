----------------------------- MODULE MCServices -----------------------------
(* The services on a small instance. *)
EXTENDS Services

MCLengths == <<2, 0, 3>>
MCServers ==
  [head : {"answers", "refused", "unreadable"}, get : {"answers", "refused"},
   ranges : BOOLEAN, accepts : BOOLEAN, headLength : BOOLEAN, headTag : BOOLEAN,
   getLength : BOOLEAN, getTag : BOOLEAN]

(* Unknown size, one file, empty files between and after others *)
MCLayouts == {<<0>>, <<4>>, <<1, 3>>, <<2, 0, 2>>, <<0, 1, 1, 2>>, <<3, 0>>}

(* The links of the magnet task have more peers than the limit allows. *)
MCOwn == {<<"tracker", "t1">>, <<"peer", "p1">>, <<"peer", "p2">>}
(* The request of the other task brings more trackers than the limit. *)
MCBrought ==
  [r \in Resolvers |-> IF r \in Magnets THEN {<<"tracker", "t5">>}
                       ELSE {<<"tracker", n>> : n \in {"t1", "t2", "t5", "t6"}}]
MCConfigs == {<<"static", "list">>, <<"magnet", "index", "discovery">>}
MCStatic == <<<<"tracker", "t2">>, <<"peer", "p3">>, <<"peer", "nohost">>, <<"seed", "s1">>>>
MCLists == <<<<"t3">>, <<"t3", "t4">>>>
MCPage ==
  [torrent |-> FALSE, feed |-> FALSE,
   found |-> <<<<"magnet", "m1">>, <<"tracker", "t1">>, <<"seed", "s2">>, <<"torrent", "url">>, <<"magnet", "m1">>>>]
MCAnswers == <<MCPage, [MCPage EXCEPT !.torrent = TRUE]>>
MCLimits == [tracker |-> 3, peer |-> 1, seed |-> 1, locator |-> 2]
=============================================================================
