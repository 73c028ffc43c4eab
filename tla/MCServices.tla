----------------------------- MODULE MCServices -----------------------------
(* The services beside the agent share no state with each other: a behaviour  *)
(* is one of the first to the last, as its initial state says.                *)
EXTENDS Surfaces, Mailbox, SessionRows, Routing, ApiServer, McpClient, Installs,
        SkillRecords, ProfileReview, Chunker, StreamScrubber, CouncilVote, DreamJournal

VARIABLE service

MCPieces == {<<"<">>, <<"<", "c", ">">>, <<"<", "m", "c", ">">>, <<"<", "/", "c", ">">>,
             <<"<", "/", "m", "c", ">">>, <<"<", "m">>, <<"<", "/">>, <<"x">>}
MCRosters == {<<>>, <<1, 2>>, <<1, 2, 1>>, <<1, 2, 3, 4>>}

(* A bullet with two backslashes has one when its escape is done, which may   *)
(* be no escape.                                                              *)
MCBullets == {"plain", "double"}
MCBulletTexts == MCBullets \cup {"half", "usual"}
MCUnescaped == [t \in MCBulletTexts |-> IF t = "double" THEN {"half"} ELSE {t}]

(* Two of three pairs share their digest.                                     *)
MCDigest == [p \in QAPairs |-> IF p = "qa3" THEN "qa2" ELSE p]

(* What a service may choose at its start is fixed while another one runs,    *)
(* and three models are dealt their labels in one way: they differ in nothing *)
(* but their names.                                                           *)
MCServicesInit ==
  /\ service \in 1..18
  /\ SurfaceInit /\ (service # 1 => platform = "telegram")
  /\ MailInit
  /\ RowsInit /\ (service # 3 => columns = Columns)
  /\ RoutingInit
  /\ ApiInit /\ offered \in {{}, {"stream", "ingest"}} /\ (service # 5 => offered = {})
  /\ McpInit /\ PluginInit /\ PackInit /\ ShelfInit /\ ScoresInit /\ HistoryInit
  /\ ProfileInit /\ ChunkerInit
  /\ ScrubInit /\ (service # 14 => spoken = <<>>)
  /\ CouncilInit /\ (service # 15 => roster = <<1, 2>> /\ labelOf[1] = 1)
  /\ Cardinality(Members) = 3 => labelOf[1] < labelOf[2] /\ labelOf[2] < labelOf[3]
  /\ DreamInit /\ LimitInit /\ CapabilityInit

OtherServices(s) ==
  /\ service = s /\ UNCHANGED service
  /\ s # 1 => UNCHANGED surfaceVars
  /\ s # 2 => UNCHANGED mailVars
  /\ s # 3 => UNCHANGED rowVars
  /\ s # 4 => UNCHANGED routingVars
  /\ s # 5 => UNCHANGED apiVars
  /\ s # 6 => UNCHANGED mcpVars
  /\ s # 7 => UNCHANGED pluginVars
  /\ s # 8 => UNCHANGED packVars
  /\ s # 9 => UNCHANGED shelfVars
  /\ s # 10 => UNCHANGED scores
  /\ s # 11 => UNCHANGED historyVars
  /\ s # 12 => UNCHANGED profileVars
  /\ s # 13 => UNCHANGED chunkVars
  /\ s # 14 => UNCHANGED scrubVars
  /\ s # 15 => UNCHANGED councilVars
  /\ s # 16 => UNCHANGED dreamVars
  /\ s # 17 => UNCHANGED limitVars
  /\ s # 18 => UNCHANGED capabilityVars

MCServicesNext ==
  \/ OtherServices(1) /\ SurfaceNext
  \/ OtherServices(2) /\ MailNext
  \/ OtherServices(3) /\ RowsNext
  \/ OtherServices(4) /\ RoutingNext
  \/ OtherServices(5) /\ ApiNext
  \/ OtherServices(6) /\ McpNext
  \/ OtherServices(7) /\ PluginNext
  \/ OtherServices(8) /\ PackNext
  \/ OtherServices(9) /\ ShelfNext
  \/ OtherServices(10) /\ ScoresNext
  \/ OtherServices(11) /\ HistoryNext
  \/ OtherServices(12) /\ ProfileNext
  \/ OtherServices(13) /\ ChunkerNext
  \/ OtherServices(14) /\ ScrubNext
  \/ OtherServices(15) /\ CouncilNext
  \/ OtherServices(16) /\ DreamNext
  \/ OtherServices(17) /\ LimitNext
  \/ OtherServices(18) /\ CapabilityNext
=============================================================================
