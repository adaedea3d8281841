------------------------------ MODULE PacketIds ------------------------------
(***************************************************************************)
(* The packet ids of networking/packets: for each class, the id that its   *)
(* 'get_id' gives under a protocol version, and for each connection state  *)
(* and direction the classes that its 'get_packets' registers.             *)
(*                                                                         *)
(* Classes of the play state have the names of the source without          *)
(* 'Packet', those of the other states the name of the state in front,     *)
(* and those that the client writes 'Sb' (serverbound) in front of all.    *)
(***************************************************************************)
EXTENDS ProtocolVersions, TLC

\* A chain "a if context.protocol_later_eq(p) else b if ... else default":
\* the first rule <<p, id>> with v not earlier than p decides.
IdOf(v, default, rules) ==
  LET hits == {i \in DOMAIN rules : LaterEq(v, rules[i][1])}
  IN  IF hits = {} THEN default
      ELSE rules[CHOOSE i \in hits : \A j \in hits : i <= j][2]

-----------------------------------------------------------------------------
ConfigurationPluginMessageId(v) == IdOf(v, \H00, <<<<766, \H01>>>>)
ConfigurationDisconnectId(v) == IdOf(v, \H01, <<<<766, \H02>>>>)
ConfigurationFinishConfigurationId(v) == IdOf(v, \H02, <<<<766, \H03>>>>)
ConfigurationKeepAliveId(v) == IdOf(v, \H03, <<<<766, \H04>>>>)
ConfigurationPingId(v) == IdOf(v, \H04, <<<<766, \H05>>>>)
ConfigurationSelectKnownPacksId(v) == \H0E
LoginDisconnectId(v) == IdOf(v, \H00, <<<<391, \H00>>, <<385, \H01>>>>)
LoginEncryptionRequestId(v) == IdOf(v, \H01, <<<<391, \H01>>, <<385, \H02>>>>)
LoginSuccessId(v) == IdOf(v, \H02, <<<<391, \H02>>, <<385, \H03>>>>)
LoginSetCompressionId(v) == IdOf(v, \H03, <<<<391, \H03>>, <<385, \H04>>>>)
LoginPluginRequestId(v) == IdOf(v, \H00, <<<<391, \H04>>>>)
KeepAliveId(v) == IdOf(v, \H00, <<
  <<775, \H2C>>, <<773, \H2B>>, <<770, \H26>>, <<768, \H27>>, <<766, \H26>>,
  <<764, \H24>>, <<762, \H23>>, <<761, \H1F>>, <<760, \H20>>, <<759, \H1E>>,
  <<755, \H21>>, <<741, \H1F>>, <<721, \H20>>, <<550, \H21>>, <<471, \H20>>,
  <<389, \H21>>, <<345, \H20>>, <<332, \H1F>>, <<318, \H20>>, <<107, \H1F>>>>)
ServerDifficultyId(v) == IdOf(v, \H41, <<
  <<770, \H0A>>, <<764, \H0B>>, <<762, \H0C>>, <<759, \H0B>>, <<755, \H0E>>,
  <<721, \H0D>>, <<550, \H0E>>, <<332, \H0D>>, <<318, \H0E>>, <<70, \H0D>>>>)
ChatMessageId(v) == IdOf(v, \H02, <<
  <<755, \H0F>>, <<721, \H0E>>, <<550, \H0F>>, <<343, \H0E>>, <<332, \H0F>>,
  <<317, \H10>>, <<107, \H0F>>>>)
SystemChatId(v) == IdOf(v, \H5F, <<
  <<775, \H79>>, <<773, \H77>>, <<770, \H72>>, <<768, \H73>>, <<766, \H6C>>,
  <<765, \H69>>, <<764, \H67>>, <<762, \H64>>, <<761, \H60>>, <<760, \H62>>>>)
PlayerChatId(v) == IdOf(v, \H30, <<
  <<775, \H41>>, <<773, \H3F>>, <<770, \H3A>>, <<768, \H3B>>, <<767, \H39>>,
  <<766, \H39>>, <<764, \H37>>, <<762, \H35>>, <<761, \H31>>, <<760, \H33>>>>)
ProfilelessChatId(v) == IdOf(v, \H18, <<
  <<773, \H21>>, <<770, \H1D>>, <<766, \H1E>>, <<764, \H1C>>, <<762, \H1B>>>>)
DisconnectId(v) == IdOf(v, \H40, <<
  <<773, \H20>>, <<770, \H1C>>, <<766, \H1D>>, <<764, \H1B>>, <<762, \H1A>>,
  <<761, \H17>>, <<760, \H19>>, <<759, \H17>>, <<755, \H1A>>, <<741, \H19>>,
  <<721, \H1A>>, <<550, \H1B>>, <<471, \H1A>>, <<345, \H1B>>, <<332, \H1A>>,
  <<318, \H1B>>, <<107, \H1A>>>>)
SetCompressionId(v) == IdOf(v, \H46, <<<<755, \H03>>>>)
SpawnPlayerId(v) == IdOf(v, \H0C, <<
  <<762, \H03>>, <<759, \H02>>, <<721, \H04>>, <<67, \H05>>>>)
EntityVelocityId(v) == IdOf(v, \H12, <<
  <<775, \H65>>, <<773, \H63>>, <<770, \H5E>>, <<768, \H5F>>, <<766, \H5A>>,
  <<765, \H58>>, <<764, \H56>>, <<762, \H54>>, <<761, \H50>>, <<760, \H52>>,
  <<755, \H4F>>, <<721, \H46>>, <<707, \H47>>, <<550, \H46>>, <<471, \H45>>,
  <<461, \H41>>, <<451, \H42>>, <<389, \H41>>, <<352, \H40>>, <<345, \H3F>>,
  <<336, \H3E>>, <<332, \H3D>>, <<86, \H3B>>, <<77, \H3C>>, <<67, \H3B>>>>)
EntityPositionDeltaId(v) == IdOf(v, \H15, <<
  <<775, \H35>>, <<773, \H33>>, <<770, \H2E>>, <<768, \H2F>>, <<766, \H2E>>,
  <<764, \H2C>>, <<762, \H2B>>, <<761, \H27>>, <<760, \H28>>, <<759, \H26>>,
  <<755, \H29>>, <<741, \H27>>, <<721, \H28>>, <<550, \H29>>, <<389, \H28>>,
  <<345, \H27>>, <<318, \H26>>, <<94, \H25>>, <<70, \H26>>>>)
TimeUpdateId(v) == IdOf(v, \H03, <<
  <<775, \H71>>, <<773, \H6F>>, <<770, \H6A>>, <<768, \H6B>>, <<766, \H64>>,
  <<765, \H62>>, <<764, \H60>>, <<PRE + 48, \H59>>, <<755, \H58>>,
  <<721, \H4E>>, <<550, \H4F>>, <<471, \H4E>>, <<461, \H4A>>, <<451, \H4B>>,
  <<389, \H4A>>, <<352, \H49>>, <<345, \H48>>, <<336, \H47>>, <<318, \H46>>,
  <<94, \H44>>, <<70, \H43>>>>)
UpdateHealthId(v) == IdOf(v, \H06, <<
  <<775, \H68>>, <<773, \H66>>, <<770, \H61>>, <<768, \H62>>, <<766, \H5D>>,
  <<765, \H5B>>, <<764, \H59>>, <<762, \H57>>, <<761, \H53>>, <<760, \H55>>,
  <<755, \H52>>, <<721, \H49>>, <<707, \H4A>>, <<550, \H49>>, <<471, \H48>>,
  <<461, \H44>>, <<451, \H45>>, <<389, \H44>>, <<352, \H43>>, <<345, \H42>>,
  <<336, \H41>>, <<318, \H40>>, <<86, \H3E>>, <<77, \H3F>>, <<67, \H3E>>>>)
PluginMessageId(v) == IdOf(v, \H3F, <<
  <<770, \H18>>, <<766, \H19>>, <<764, \H18>>, <<762, \H17>>, <<761, \H15>>,
  <<760, \H16>>, <<759, \H15>>, <<755, \H18>>, <<741, \H17>>, <<721, \H18>>,
  <<550, \H19>>, <<471, \H18>>, <<345, \H19>>, <<332, \H18>>, <<318, \H19>>,
  <<70, \H18>>>>)
PlayerListHeaderAndFooterId(v) == IdOf(v, \H47, <<
  <<775, \H7A>>, <<773, \H78>>, <<770, \H73>>, <<768, \H74>>, <<766, \H6D>>,
  <<765, \H6A>>, <<764, \H68>>, <<762, \H65>>, <<761, \H61>>, <<760, \H63>>,
  <<759, \H60>>, <<PRE + 48, \H5F>>, <<755, \H5E>>, <<721, \H53>>,
  <<550, \H54>>, <<471, \H53>>, <<461, \H5F>>, <<451, \H50>>, <<441, \H4F>>,
  <<393, \H4E>>, <<338, \H4A>>, <<335, \H49>>, <<110, \H47>>, <<107, \H48>>>>)
EntityLookId(v) == IdOf(v, \H16, <<
  <<775, \H38>>, <<773, \H36>>, <<770, \H31>>, <<768, \H32>>, <<766, \H30>>,
  <<764, \H2E>>, <<762, \H2D>>, <<761, \H29>>, <<760, \H2A>>, <<759, \H28>>,
  <<755, \H2B>>, <<741, \H29>>, <<721, \H2A>>, <<550, \H2B>>, <<389, \H2A>>,
  <<345, \H29>>, <<318, \H28>>, <<94, \H27>>, <<70, \H28>>>>)
ResourcePackSendId(v) == IdOf(v, \H48, <<
  <<775, \H51>>, <<764, \H42>>, <<762, \H40>>, <<761, \H3C>>, <<760, \H3D>>,
  <<759, \H3A>>, <<PRE + 15, \H3C>>, <<PRE + 8, \H39>>, <<741, \H38>>,
  <<721, \H39>>, <<550, \H3A>>, <<471, \H39>>, <<461, \H37>>, <<451, \H38>>,
  <<389, \H37>>, <<352, \H36>>, <<345, \H35>>, <<336, \H34>>, <<332, \H33>>,
  <<318, \H34>>, <<70, \H32>>>>)
StartConfigurationId(v) == IdOf(v, \H65, <<
  <<775, \H76>>, <<773, \H74>>, <<770, \H6F>>, <<768, \H70>>, <<766, \H69>>,
  <<765, \H67>>>>)
BlockChangeId(v) == IdOf(v, \H23, <<
  <<770, \H08>>, <<764, \H09>>, <<762, \H0A>>, <<759, \H09>>, <<755, \H0C>>,
  <<721, \H0B>>, <<550, \H0C>>, <<332, \H0B>>, <<318, \H0C>>, <<67, \H0B>>,
  <<62, \H24>>>>)
MultiBlockChangeId(v) == IdOf(v, \H22, <<
  <<775, \H54>>, <<773, \H52>>, <<770, \H4D>>, <<768, \H4E>>, <<766, \H49>>,
  <<765, \H47>>, <<764, \H45>>, <<762, \H43>>, <<761, \H3F>>, <<760, \H40>>,
  <<759, \H3D>>, <<755, \H3F>>, <<741, \H3B>>, <<721, \H0F>>, <<550, \H10>>,
  <<343, \H0F>>, <<332, \H10>>, <<318, \H11>>, <<67, \H10>>>>)
CombatEventId(v) == IdOf(v, \H42, <<
  <<741, \H31>>, <<721, \H32>>, <<550, \H33>>, <<471, \H32>>, <<451, \H30>>,
  <<389, \H2F>>, <<345, \H2E>>, <<336, \H2D>>, <<332, \H2C>>, <<318, \H2D>>,
  <<86, \H2C>>, <<80, \H2D>>, <<67, \H2C>>>>)
EnterCombatEventId(v) == IdOf(v, \H34, <<
  <<775, \H43>>, <<773, \H41>>, <<770, \H3C>>, <<768, \H3D>>, <<766, \H3B>>,
  <<764, \H39>>, <<762, \H37>>, <<761, \H33>>, <<760, \H35>>, <<759, \H32>>>>)
EndCombatEventId(v) == IdOf(v, \H33, <<
  <<775, \H42>>, <<773, \H40>>, <<770, \H3B>>, <<768, \H3C>>, <<766, \H3A>>,
  <<764, \H38>>, <<762, \H36>>, <<761, \H32>>, <<760, \H34>>, <<759, \H31>>>>)
DeathCombatEventId(v) == IdOf(v, \H35, <<
  <<775, \H44>>, <<773, \H42>>, <<770, \H3D>>, <<768, \H3E>>, <<766, \H3C>>,
  <<764, \H3A>>, <<762, \H38>>, <<761, \H34>>, <<760, \H36>>, <<759, \H33>>>>)
ExplosionId(v) == IdOf(v, \H27, <<
  <<764, \H1E>>, <<762, \H1D>>, <<761, \H1A>>, <<760, \H1B>>, <<759, \H19>>,
  <<755, \H1C>>, <<741, \H1B>>, <<721, \H1C>>, <<550, \H1D>>, <<471, \H1C>>,
  <<389, \H1E>>, <<345, \H1D>>, <<332, \H1C>>, <<318, \H1D>>, <<80, \H1C>>,
  <<67, \H1B>>>>)
FacePlayerId(v) == IdOf(v, \H30, <<
  <<775, \H47>>, <<773, \H45>>, <<770, \H40>>, <<768, \H41>>, <<766, \H3F>>,
  <<764, \H3D>>, <<762, \H3B>>, <<761, \H37>>, <<760, \H38>>, <<759, \H35>>,
  <<755, \H37>>, <<741, \H33>>, <<721, \H34>>, <<550, \H35>>, <<471, \H34>>,
  <<451, \H32>>, <<389, \H31>>>>)
\* A mutant of JoinGameId: 722 in place of 721.
JoinGameIdFrom722(v) == IdOf(v, \H01, <<
  <<775, \H31>>, <<773, \H30>>, <<770, \H2B>>, <<768, \H2C>>, <<766, \H2B>>,
  <<764, \H29>>, <<762, \H28>>, <<761, \H24>>, <<760, \H25>>, <<759, \H23>>,
  <<755, \H26>>, <<741, \H24>>, <<722, \H25>>, <<550, \H26>>, <<389, \H25>>,
  <<345, \H24>>, <<332, \H23>>, <<318, \H24>>, <<107, \H23>>>>)
JoinGameId(v) == IdOf(v, \H01, <<
  <<775, \H31>>, <<773, \H30>>, <<770, \H2B>>, <<768, \H2C>>, <<766, \H2B>>,
  <<764, \H29>>, <<762, \H28>>, <<761, \H24>>, <<760, \H25>>, <<759, \H23>>,
  <<755, \H26>>, <<741, \H24>>, <<721, \H25>>, <<550, \H26>>, <<389, \H25>>,
  <<345, \H24>>, <<332, \H23>>, <<318, \H24>>, <<107, \H23>>>>)
RespawnId(v) == IdOf(v, \H07, <<
  <<775, \H52>>, <<773, \H50>>, <<770, \H4B>>, <<768, \H4C>>, <<766, \H47>>,
  <<765, \H45>>, <<764, \H43>>, <<762, \H41>>, <<761, \H3D>>, <<760, \H3E>>,
  <<759, \H3B>>, <<755, \H3D>>, <<741, \H39>>, <<721, \H3A>>, <<550, \H3B>>,
  <<471, \H3A>>, <<461, \H38>>, <<451, \H39>>, <<389, \H38>>, <<352, \H37>>,
  <<345, \H36>>, <<336, \H35>>, <<332, \H34>>, <<318, \H35>>, <<70, \H33>>>>)
MapId(v) == IdOf(v, \H34, <<
  <<775, \H33>>, <<764, \H2A>>, <<762, \H29>>, <<761, \H25>>, <<760, \H26>>,
  <<759, \H24>>, <<755, \H27>>, <<741, \H25>>, <<721, \H26>>, <<550, \H27>>,
  <<389, \H26>>, <<345, \H25>>, <<334, \H24>>, <<318, \H25>>, <<107, \H24>>>>)
\* A mutant of PlayerListItemId: most of its rules are missing.
PlayerListItemIdNo775(v) == IdOf(v, \H38, <<<<773, \H44>>, <<770, \H3F>>>>)
PlayerListItemId(v) == IdOf(v, \H38, <<
  <<775, \H46>>, <<773, \H44>>, <<770, \H3F>>, <<768, \H40>>, <<766, \H3E>>,
  <<764, \H3C>>, <<762, \H3A>>, <<761, \H36>>, <<760, \H37>>, <<759, \H34>>,
  <<755, \H36>>, <<741, \H32>>, <<721, \H33>>, <<550, \H34>>, <<471, \H33>>,
  <<451, \H31>>, <<389, \H30>>, <<345, \H2F>>, <<336, \H2E>>, <<332, \H2D>>,
  <<318, \H2E>>, <<107, \H2D>>>>)
PlayerRemoveId(v) == IdOf(v, \H3B, <<
  <<775, \H45>>, <<773, \H43>>, <<770, \H3E>>, <<768, \H3F>>, <<766, \H3D>>>>)
PlayerPositionAndLookId(v) == IdOf(v, \H08, <<
  <<775, \H48>>, <<773, \H46>>, <<770, \H41>>, <<768, \H42>>, <<766, \H40>>,
  <<764, \H3E>>, <<762, \H3C>>, <<761, \H38>>, <<760, \H39>>, <<759, \H36>>,
  <<755, \H38>>, <<741, \H34>>, <<721, \H35>>, <<550, \H36>>, <<471, \H35>>,
  <<451, \H33>>, <<389, \H32>>, <<352, \H31>>, <<345, \H30>>, <<336, \H2F>>,
  <<332, \H2E>>, <<318, \H2F>>, <<70, \H2E>>>>)
SoundEffectId(v) == IdOf(v, \H47, <<
  <<775, \H75>>, <<773, \H73>>, <<770, \H6E>>, <<768, \H6F>>, <<766, \H68>>,
  <<765, \H66>>, <<764, \H64>>, <<762, \H62>>, <<761, \H5E>>, <<760, \H60>>,
  <<757, \H5D>>, <<PRE + 48, \H5D>>, <<755, \H5C>>, <<721, \H51>>,
  <<550, \H52>>, <<471, \H51>>, <<461, \H4D>>, <<451, \H4E>>, <<389, \H4D>>,
  <<352, \H4C>>, <<345, \H4B>>, <<343, \H4A>>, <<336, \H49>>, <<318, \H48>>,
  <<110, \H46>>>>)
NamedSoundEffectId(v) == IdOf(v, \H19, <<
  <<760, \H17>>, <<759, \H16>>, <<755, \H19>>, <<751, \H18>>, <<735, \H19>>,
  <<573, \H1A>>, <<477, \H19>>, <<393, \H1A>>>>)
SpawnObjectId(v) == IdOf(v, \H0E, <<<<762, \H01>>, <<67, \H00>>>>)
StatusResponseId(v) == \H00
StatusPingResponseId(v) == \H01
SbConfigurationClientInformationId(v) == \H00
SbConfigurationPluginMessageId(v) == IdOf(v, \H01, <<<<766, \H02>>>>)
SbConfigurationFinishConfigurationId(v) == IdOf(v, \H02, <<<<766, \H03>>>>)
SbConfigurationKeepAliveId(v) == IdOf(v, \H03, <<<<766, \H04>>>>)
SbConfigurationPongId(v) == IdOf(v, \H04, <<<<766, \H05>>>>)
SbConfigurationSelectKnownPacksId(v) == \H07
SbHandShakeId(v) == \H00
SbLoginStartId(v) == IdOf(v, \H00, <<<<391, \H00>>, <<385, \H01>>>>)
SbLoginAcknowledgedId(v) == \H03
SbLoginEncryptionResponseId(v) == IdOf(v, \H01, <<
  <<391, \H01>>, <<385, \H02>>>>)
SbLoginPluginResponseId(v) == IdOf(v, \H00, <<<<391, \H02>>>>)
SbKeepAliveId(v) == IdOf(v, \H00, <<
  <<775, \H1C>>, <<771, \H1B>>, <<768, \H1A>>, <<766, \H18>>, <<765, \H15>>,
  <<764, \H14>>, <<762, \H12>>, <<761, \H11>>, <<760, \H12>>, <<759, \H11>>,
  <<755, \H0F>>, <<712, \H10>>, <<471, \H0F>>, <<464, \H10>>, <<389, \H0E>>,
  <<386, \H0C>>, <<345, \H0B>>, <<343, \H0A>>, <<336, \H0B>>, <<318, \H0C>>,
  <<107, \H0B>>>>)
SbChatId(v) == IdOf(v, \H01, <<
  <<775, \H09>>, <<771, \H08>>, <<768, \H07>>, <<766, \H06>>, <<760, \H05>>,
  <<759, \H04>>, <<755, \H03>>, <<464, \H03>>, <<389, \H02>>, <<343, \H01>>,
  <<336, \H02>>, <<318, \H03>>, <<107, \H02>>>>)
SbPlayerSessionId(v) == IdOf(v, \H20, <<
  <<775, \H0A>>, <<771, \H09>>, <<768, \H08>>, <<766, \H07>>, <<762, \H06>>>>)
SbChatAcknowledgementId(v) == IdOf(v, \H03, <<
  <<775, \H06>>, <<771, \H05>>, <<768, \H04>>>>)
SbChatCommandId(v) == IdOf(v, \H03, <<
  <<775, \H07>>, <<771, \H06>>, <<768, \H05>>, <<760, \H04>>>>)
SbConfigurationAcknowledgedId(v) == IdOf(v, \H0B, <<
  <<775, \H10>>, <<771, \H0F>>, <<768, \H0E>>, <<766, \H0C>>>>)
SbPositionAndLookId(v) == IdOf(v, \H06, <<
  <<775, \H1F>>, <<771, \H1E>>, <<768, \H1D>>, <<766, \H1B>>, <<765, \H18>>,
  <<764, \H17>>, <<762, \H15>>, <<761, \H14>>, <<760, \H15>>, <<759, \H14>>,
  <<755, \H12>>, <<712, \H13>>, <<471, \H12>>, <<464, \H13>>, <<389, \H11>>,
  <<386, \H0F>>, <<345, \H0E>>, <<343, \H0D>>, <<336, \H0E>>, <<332, \H0F>>,
  <<318, \H0E>>, <<107, \H0D>>>>)
SbTeleportConfirmId(v) == \H00
SbAnimationId(v) == IdOf(v, \H0A, <<
  <<775, \H3F>>, <<771, \H3C>>, <<770, \H3B>>, <<769, \H3A>>, <<768, \H38>>,
  <<766, \H36>>, <<765, \H33>>, <<764, \H32>>, <<760, \H2F>>, <<759, \H2E>>,
  <<755, \H2C>>, <<738, \H2C>>, <<712, \H2B>>, <<468, \H2A>>, <<464, \H29>>,
  <<389, \H27>>, <<386, \H25>>, <<345, \H1D>>, <<343, \H1C>>, <<332, \H1D>>,
  <<318, \H1C>>, <<107, \H1A>>>>)
SbClientStatusId(v) == IdOf(v, \H16, <<
  <<775, \H0C>>, <<771, \H0B>>, <<768, \H0A>>, <<766, \H09>>, <<764, \H08>>,
  <<762, \H07>>, <<761, \H06>>, <<760, \H07>>, <<759, \H06>>, <<755, \H04>>,
  <<464, \H04>>, <<389, \H03>>, <<343, \H02>>, <<336, \H03>>, <<318, \H04>>,
  <<80, \H03>>, <<67, \H02>>, <<49, \H17>>>>)
SbPluginMessageId(v) == IdOf(v, \H17, <<
  <<775, \H16>>, <<771, \H15>>, <<768, \H14>>, <<766, \H12>>, <<765, \H10>>,
  <<764, \H0F>>, <<762, \H0D>>, <<761, \H0C>>, <<760, \H0D>>, <<759, \H0C>>,
  <<755, \H0A>>, <<464, \H0B>>, <<389, \H0A>>, <<345, \H09>>, <<343, \H08>>,
  <<336, \H09>>, <<317, \H0A>>, <<94, \H09>>>>)
SbPlayerBlockPlacementId(v) == IdOf(v, \H08, <<
  <<775, \H42>>, <<771, \H3F>>, <<770, \H3E>>, <<769, \H3C>>, <<768, \H3A>>,
  <<766, \H38>>, <<765, \H35>>, <<764, \H34>>, <<760, \H31>>, <<759, \H30>>,
  <<755, \H2E>>, <<738, \H2E>>, <<712, \H2D>>, <<468, \H2C>>, <<464, \H2B>>,
  <<389, \H29>>, <<386, \H27>>, <<345, \H1F>>, <<343, \H1E>>, <<332, \H1F>>,
  <<318, \H1E>>, <<94, \H1C>>>>)
SbUseItemId(v) == IdOf(v, \H08, <<
  <<775, \H43>>, <<771, \H40>>, <<770, \H3F>>, <<769, \H3D>>, <<768, \H3B>>,
  <<766, \H39>>, <<765, \H36>>, <<764, \H35>>, <<760, \H32>>, <<759, \H31>>,
  <<755, \H2F>>, <<738, \H2F>>, <<712, \H2E>>, <<468, \H2D>>, <<464, \H2C>>,
  <<389, \H2A>>, <<386, \H28>>, <<345, \H20>>, <<343, \H1F>>, <<332, \H20>>,
  <<318, \H1F>>, <<94, \H1D>>, <<70, \H1A>>>>)
SbClientSettingsId(v) == IdOf(v, \H15, <<
  <<775, \H0E>>, <<771, \H0D>>, <<768, \H0C>>, <<766, \H0A>>, <<764, \H09>>,
  <<762, \H08>>, <<761, \H07>>, <<760, \H08>>, <<759, \H07>>, <<464, \H05>>,
  <<389, \H04>>, <<343, \H03>>, <<336, \H04>>, <<318, \H05>>, <<94, \H04>>>>)
SbStatusRequestId(v) == \H00
SbStatusPingId(v) == \H01

-----------------------------------------------------------------------------
\* The ids of the packets that get_packets adds under a condition.
When(condition, ids) == IF condition THEN ids ELSE <<>>

LoginClientbound(v) ==
  [LoginDisconnect |-> LoginDisconnectId(v),
   LoginEncryptionRequest |-> LoginEncryptionRequestId(v),
   LoginSuccess |-> LoginSuccessId(v),
   LoginSetCompression |-> LoginSetCompressionId(v)]
  @@ When(LaterEq(v, 385), [LoginPluginRequest |-> LoginPluginRequestId(v)])

LoginServerbound(v) ==
  [SbLoginStart |-> SbLoginStartId(v),
   SbLoginEncryptionResponse |-> SbLoginEncryptionResponseId(v)]
  @@ When(LaterEq(v, 385),
          [SbLoginPluginResponse |-> SbLoginPluginResponseId(v)])
  @@ When(LaterEq(v, 764), [SbLoginAcknowledged |-> SbLoginAcknowledgedId(v)])

ConfigurationClientbound(v) ==
  [ConfigurationPluginMessage |-> ConfigurationPluginMessageId(v),
   ConfigurationDisconnect |-> ConfigurationDisconnectId(v),
   ConfigurationFinishConfiguration |-> ConfigurationFinishConfigurationId(v),
   ConfigurationKeepAlive |-> ConfigurationKeepAliveId(v),
   ConfigurationPing |-> ConfigurationPingId(v)]
  @@ When(LaterEq(v, 766),
          [ConfigurationSelectKnownPacks |->
             ConfigurationSelectKnownPacksId(v)])

ConfigurationServerbound(v) ==
  [SbConfigurationClientInformation |-> SbConfigurationClientInformationId(v),
   SbConfigurationPluginMessage |-> SbConfigurationPluginMessageId(v),
   SbConfigurationFinishConfiguration |->
     SbConfigurationFinishConfigurationId(v),
   SbConfigurationKeepAlive |-> SbConfigurationKeepAliveId(v),
   SbConfigurationPong |-> SbConfigurationPongId(v)]
  @@ When(LaterEq(v, 766),
          [SbConfigurationSelectKnownPacks |->
             SbConfigurationSelectKnownPacksId(v)])

StatusClientbound(v) ==
  [StatusResponse |-> StatusResponseId(v),
   StatusPingResponse |-> StatusPingResponseId(v)]

StatusServerbound(v) ==
  [SbStatusRequest |-> SbStatusRequestId(v), SbStatusPing |-> SbStatusPingId(v)]

HandshakeServerbound(v) == [SbHandShake |-> SbHandShakeId(v)]

PlayClientbound(v) ==
  [KeepAlive |-> KeepAliveId(v), JoinGame |-> JoinGameId(v),
   ServerDifficulty |-> ServerDifficultyId(v),
   PlayerPositionAndLook |-> PlayerPositionAndLookId(v),
   PlayerListItem |-> PlayerListItemId(v), Disconnect |-> DisconnectId(v),
   EntityVelocity |-> EntityVelocityId(v),
   EntityPositionDelta |-> EntityPositionDeltaId(v),
   TimeUpdate |-> TimeUpdateId(v), UpdateHealth |-> UpdateHealthId(v),
   BlockChange |-> BlockChangeId(v), MultiBlockChange |-> MultiBlockChangeId(v),
   Respawn |-> RespawnId(v), PluginMessage |-> PluginMessageId(v),
   PlayerListHeaderAndFooter |-> PlayerListHeaderAndFooterId(v),
   EntityLook |-> EntityLookId(v)]
  @@ (IF Earlier(v, 759)
      THEN [ChatMessage |-> ChatMessageId(v)]
      ELSE [SystemChat |-> SystemChatId(v), PlayerChat |-> PlayerChatId(v)])
  @@ When(LaterEq(v, 761), [ProfilelessChat |-> ProfilelessChatId(v)])
  @@ When(Earlier(v, 764), [SpawnPlayer |-> SpawnPlayerId(v)])
  @@ When(Earlier(v, 765),
          [Explosion |-> ExplosionId(v), Map |-> MapId(v),
           ResourcePackSend |-> ResourcePackSendId(v)])
  @@ When(Earlier(v, 773), [SpawnObject |-> SpawnObjectId(v)])
  @@ When(LaterEq(v, 764),
          [StartConfiguration |-> StartConfigurationId(v),
           PlayerRemove |-> PlayerRemoveId(v)])
  @@ When(InRange(v, 107, 761), [NamedSoundEffect |-> NamedSoundEffectId(v)])
  @@ When(EarlierEq(v, 47), [SetCompression |-> SetCompressionId(v)])
  @@ (IF Earlier(v, PRE + 15)
      THEN [CombatEvent |-> CombatEventId(v)]
      ELSE [EnterCombatEvent |-> EnterCombatEventId(v),
            EndCombatEvent |-> EndCombatEventId(v),
            DeathCombatEvent |-> DeathCombatEventId(v)])
  @@ When(LaterEq(v, 94), [SoundEffect |-> SoundEffectId(v)])
  @@ When(LaterEq(v, 352), [FacePlayer |-> FacePlayerId(v)])

PlayServerbound(v) ==
  [SbKeepAlive |-> SbKeepAliveId(v), SbChat |-> SbChatId(v),
   SbPositionAndLook |-> SbPositionAndLookId(v),
   SbAnimation |-> SbAnimationId(v), SbClientStatus |-> SbClientStatusId(v),
   SbClientSettings |-> SbClientSettingsId(v),
   SbPluginMessage |-> SbPluginMessageId(v),
   SbPlayerBlockPlacement |-> SbPlayerBlockPlacementId(v)]
  @@ When(LaterEq(v, 69), [SbUseItem |-> SbUseItemId(v)])
  @@ When(LaterEq(v, 107), [SbTeleportConfirm |-> SbTeleportConfirmId(v)])
  @@ When(LaterEq(v, 759), [SbChatCommand |-> SbChatCommandId(v)])
  @@ When(LaterEq(v, 761),
          [SbPlayerSession |-> SbPlayerSessionId(v),
           SbChatAcknowledgement |-> SbChatAcknowledgementId(v)])
  @@ When(LaterEq(v, 764),
          [SbConfigurationAcknowledged |-> SbConfigurationAcknowledgedId(v)])

Clientbound(state, v) ==
  CASE state = "login" -> LoginClientbound(v)
    [] state = "configuration" -> ConfigurationClientbound(v)
    [] state = "play" -> PlayClientbound(v)
    [] state = "status" -> StatusClientbound(v)

Serverbound(state, v) ==
  CASE state = "login" -> LoginServerbound(v)
    [] state = "configuration" -> ConfigurationServerbound(v)
    [] state = "play" -> PlayServerbound(v)
    [] state = "status" -> StatusServerbound(v)
    [] state = "handshake" -> HandshakeServerbound(v)
=============================================================================
