---------------------------- MODULE AreasProofs -----------------------------
(***************************************************************************)
(* Each behaviour of Areas is one of each part: the part whose area it is  *)
(* moves, the others stutter.  What is proved of a part alone holds of it  *)
(* in Areas, so that the run of Areas checks what the theorems say.        *)
(***************************************************************************)
EXTENDS Areas, ServicesProofs, ScreensProofs, TLAPS

areasVars == <<area, linkVars, feedbackVars, catalogueVars, mediaVars, tenantVars,
               provisioningVars, noticeVars, rankingVars, settingVars, screenVars>>

LEMMA AreasStart ==
    AreasInit => /\ LinksInit /\ FeedbackInit /\ CatalogueInit /\ MediaInit /\ TenantsInit
                 /\ ProvisioningInit /\ NoticesInit /\ RankingsInit /\ SettingsInit /\ ScreensInit
  BY DEF AreasInit

(* A step of Areas is one of the part whose area it is, and of no other.   *)
LEMMA AreasStep ==
    ASSUME [AreasNext]_areasVars
    PROVE  /\ [LinksNext]_linkVars /\ [FeedbackNext]_feedbackVars
           /\ [CatalogueNext]_catalogueVars /\ [MediaNext]_mediaVars
           /\ [TenantsNext]_tenantVars /\ [ProvisioningNext]_provisioningVars
           /\ [NoticesNext]_noticeVars /\ [RankingsNext]_rankingVars
           /\ [SettingsNext]_settingVars /\ [ScreensNext]_screenVars
  BY DEF AreasNext, areasVars

(* Areas implements the specification of each of its parts. *)
THEOREM AreasAreTheirParts ==
    AreasSpec => /\ LinksSpec /\ FeedbackSpec /\ CatalogueSpec /\ MediaSpec /\ TenantsSpec
                 /\ ProvisioningSpec /\ NoticesSpec /\ RankingsSpec /\ SettingsSpec /\ ScreensSpec
  BY AreasStart, AreasStep, PTL
     DEF AreasSpec, areasVars, LinksSpec, FeedbackSpec, CatalogueSpec, MediaSpec, TenantsSpec,
         ProvisioningSpec, NoticesSpec, RankingsSpec, SettingsSpec, ScreensSpec

(* Each part keeps the types of its variables.                             *)
THEOREM AreasTypeCorrect == AreasSpec => []AreasTypeOK
  <1>1. /\ LinksTypeOK /\ FeedbackTypeOK /\ CatalogueTypeOK /\ MediaTypeOK /\ TenantsTypeOK
        /\ ProvisioningTypeOK /\ NoticesTypeOK /\ RankingsTypeOK /\ SettingsTypeOK /\ ScreensTypeOK
        => AreasTypeOK
    BY DEF AreasTypeOK
  <1> QED
    BY <1>1, AreasAreTheirParts, LinksTypeCorrect, MessagesAreAnswered, AgesStayInOrder,
       GalleryMatchesStore, TenantsApart, NoHalfAccounts, MessagesAreListedOnce, ScoreRowsAreFound,
       SettingsAreKept, ScreensTypeCorrect, PTL

(* What the services promise, in Areas: links fit accounts, a primary link *)
(* survives, messages have their tasks, ages are in order, files match     *)
(* items, addresses are apart, no account is made by halves, a message is  *)
(* listed once, a score is found, a setting outlives restarts.             *)
THEOREM ServicesKeepTheirPromises ==
    AreasSpec =>
        /\ [](/\ LinkFitsAccount /\ AttachmentsMatch /\ ResolvedClosesTask /\ AgesInOrder
              /\ FilesMatchItems /\ PartFits /\ AddressesApart /\ AccountsComplete
              /\ MessagesOnce /\ ScoreRowFound)
        /\ PrimarySurvives /\ SettingsOutliveBoots
  BY AreasAreTheirParts, LinksFitAccounts, PrimaryLinksSurvive, MessagesAreAnswered,
     AgesStayInOrder, GalleryMatchesStore, TenantsApart, NoHalfAccounts, MessagesAreListedOnce,
     ScoreRowsAreFound, SettingsAreKept, PTL
=============================================================================
