-------------------------------- MODULE Areas --------------------------------
(***************************************************************************)
(* The parts of the system that share no state, beside one another: a      *)
(* behaviour stays in the part it starts in.                               *)
(***************************************************************************)
EXTENDS PortalLinks, Feedback, Catalogue, Media, Tenants, Provisioning, Notices, Rankings,
        PlatformSettings, ClientScreens

VARIABLE area

AreasInit ==
    /\ area \in {"links", "feedback", "catalogue", "slots", "media", "tenants", "provisioning",
                "notices", "rankings", "settings", "screens"}
    /\ LinksInit
    /\ FeedbackInit
    /\ CatalogueInit
    /\ MediaInit
    /\ TenantsInit
    /\ ProvisioningInit
    /\ NoticesInit
    /\ RankingsInit
    /\ SettingsInit
    /\ ScreensInit
    \* What is chosen at the start of a part is chosen in that part only.
    /\ area = "screens" \/ screen = "entry"
    /\ area = "notices" \/ \A u \in Readers : branchOf[u] = "none"

AreasNext ==
    /\ UNCHANGED area
    /\ \/ /\ area = "links" /\ LinksNext
          /\ UNCHANGED <<feedbackVars, catalogueVars, mediaVars, tenantVars,
                          provisioningVars, noticeVars, rankingVars,
                          settingVars, screenVars>>
       \/ /\ area = "feedback" /\ FeedbackNext
          /\ UNCHANGED <<linkVars, catalogueVars, mediaVars, tenantVars,
                          provisioningVars, noticeVars, rankingVars,
                          settingVars, screenVars>>
       \/ /\ area \in {"catalogue", "slots"} /\ CatalogueNext
          \* Sports and slots share nothing but the requests.
          /\ IF area = "catalogue" THEN UNCHANGED slot ELSE UNCHANGED <<entry, crossed>>
          /\ UNCHANGED <<linkVars, feedbackVars, mediaVars, tenantVars,
                          provisioningVars, noticeVars, rankingVars,
                          settingVars, screenVars>>
       \/ /\ area = "media" /\ MediaNext
          /\ UNCHANGED <<linkVars, feedbackVars, catalogueVars, tenantVars,
                          provisioningVars, noticeVars, rankingVars,
                          settingVars, screenVars>>
       \/ /\ area = "tenants" /\ TenantsNext
          /\ UNCHANGED <<linkVars, feedbackVars, catalogueVars, mediaVars,
                          provisioningVars, noticeVars, rankingVars,
                          settingVars, screenVars>>
       \/ /\ area = "provisioning" /\ ProvisioningNext
          /\ UNCHANGED <<linkVars, feedbackVars, catalogueVars, mediaVars,
                          tenantVars, noticeVars, rankingVars, settingVars,
                          screenVars>>
       \/ /\ area = "notices" /\ NoticesNext
          /\ UNCHANGED <<linkVars, feedbackVars, catalogueVars, mediaVars,
                          tenantVars, provisioningVars, rankingVars,
                          settingVars, screenVars>>
       \/ /\ area = "rankings" /\ RankingsNext
          /\ UNCHANGED <<linkVars, feedbackVars, catalogueVars, mediaVars,
                          tenantVars, provisioningVars, noticeVars,
                          settingVars, screenVars>>
       \/ /\ area = "settings" /\ SettingsNext
          /\ UNCHANGED <<linkVars, feedbackVars, catalogueVars, mediaVars,
                          tenantVars, provisioningVars, noticeVars,
                          rankingVars, screenVars>>
       \/ /\ area = "screens" /\ ScreensNext
          /\ UNCHANGED <<linkVars, feedbackVars, catalogueVars, mediaVars,
                          tenantVars, provisioningVars, noticeVars,
                          rankingVars, settingVars>>

AreasSpec == AreasInit /\ [][AreasNext]_<<area, linkVars, feedbackVars, catalogueVars,
                                     mediaVars, tenantVars, provisioningVars,
                                     noticeVars, rankingVars, settingVars,
                                     screenVars>>

(* Every variable of every part keeps its type. *)
AreasTypeOK ==
    /\ area = "links" => LinksTypeOK
    /\ area = "feedback" => FeedbackTypeOK
    /\ area \in {"catalogue", "slots"} => CatalogueTypeOK
    /\ area = "media" => MediaTypeOK
    /\ area = "tenants" => TenantsTypeOK
    /\ area = "provisioning" => ProvisioningTypeOK
    /\ area = "notices" => NoticesTypeOK
    /\ area = "rankings" => RankingsTypeOK
    /\ area = "settings" => SettingsTypeOK
    /\ area = "screens" => ScreensTypeOK
=============================================================================
