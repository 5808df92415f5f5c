--------------------------- MODULE MCOOCSIGraphVis ---------------------------
(* Three clients below one node, of which one has an empty component in its   *)
(* name, and a subscriber of two characters; a channel below another.  One    *)
(* filter selects a client, the other only the name with the empty component. *)
EXTENDS OOCSIGraphVis

MCClients == {<<"lab", "pc">>, <<"lab", "tv">>, <<"lab", "", "tv">>}
MCChannels == {<<"x", "y">>}
MCShort == {<<"pc">>}
MCSubscriberLists == {<<<<"pc">>>>, <<<<"lab", "", "tv">>, <<"lab", "pc">>>>}
MCFilters == {<<"pc">>, <<"", "", "tv">>}
MCChannelFilter == NoFilter
=============================================================================
