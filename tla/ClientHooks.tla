---------------------------- MODULE ClientHooks ----------------------------
(* What the React hooks of the two browser packages write.  A mutation      *)
(* changes data on the server that some query keys hold a copy of           *)
(* ("touches", among the keys that a screen which offers it shows), and its *)
(* onSuccess invalidates keys of the client's query cache.  Keys are taken  *)
(* without their parameters; those of packages/nextjs begin with "next:".   *)

Writes(keys) == [touches |-> keys, invalidates |-> keys]

---------------------------------------------------------------------------
(* apps/dashboard/src/hooks *)

UseOrganizations ==
    [createOrganization |-> Writes({"organizations"}),
     updateMembership   |-> Writes({"memberships"}),
     deleteMembership   |-> Writes({"memberships"}),
     revokeInvitation   |-> Writes({"invitations"}),
     createInvitation   |-> Writes({"invitations"})]

UseDeleteOrganization == [deleteOrganization |-> Writes({"organizations"})]

\* deleteProject invalidates nothing.
UseProject ==
    [updateProject |-> Writes({"project"}),
     deleteProject |-> [touches |-> {"project"}, invalidates |-> {}],
     createApiKey  |-> Writes({"apiKeys"}),
     rotateApiKey  |-> Writes({"apiKeys"}),
     revokeApiKey  |-> Writes({"apiKeys"})]

UseUser == [updateCurrentUser |-> Writes({"user/current"})]

\* The user who is edited may be the one whose name the layout shows.
UseUsers ==
    [updateUser      |-> [touches |-> {"users", "user/current"}, invalidates |-> {"users"}],
     bulkUpdateUsers |-> [touches |-> {"users", "user/current"}, invalidates |-> {"users"}]]

UseUserIdentities == [unlinkIdentity |-> Writes({"identities"})]

UseSessions == [revokeSession |-> Writes({"sessions"}), revokeAllSessions |-> Writes({"sessions"})]

\* An enrolment is not in the user's record until it is verified.
UseTotp ==
    [enrollTotp            |-> [touches |-> {}, invalidates |-> {"user/current"}],
     verifyTotp            |-> Writes({"user/current"}),
     regenerateBackupCodes |-> Writes({}),
     disableTotp           |-> Writes({"user/current"})]

UsePasskeys ==
    [registerPasskey |-> Writes({"passkeys"}),
     renamePasskey   |-> Writes({"passkeys"}),
     deletePasskey   |-> Writes({"passkeys"})]

\* The list goes stale when an address is deleted.
UseEmailsForgetful ==
    [addEmail        |-> Writes({"emails"}),
     deleteEmail     |-> [touches |-> {"emails"}, invalidates |-> {}],
     setPrimaryEmail |-> Writes({"emails", "user/current"})]

UseEmails ==
    [addEmail        |-> Writes({"emails"}),
     deleteEmail     |-> Writes({"emails"}),
     setPrimaryEmail |-> Writes({"emails", "user/current"})]

\* No screen offers useSetPrimaryPhone.
UsePhoneNumbers ==
    [addPhoneNumber |-> Writes({"phoneNumbers"}), deletePhoneNumber |-> Writes({"phoneNumbers"})]

UseWebhooks == [createWebhook |-> Writes({"webhooks"}), deleteWebhook |-> Writes({"webhooks"})]

UseDomains ==
    [addDomain    |-> Writes({"domains"}),
     verifyDomain |-> Writes({"domains"}),
     deleteDomain |-> Writes({"domains"})]

UseRestrictions ==
    [createRestriction |-> Writes({"restrictions"}), deleteRestriction |-> Writes({"restrictions"})]

UseRedirectUrls ==
    [createRedirectUrl |-> Writes({"redirect-urls"}), deleteRedirectUrl |-> Writes({"redirect-urls"})]

\* The picture is stored, and no record refers to it.
UseUpload == [uploadAvatar |-> Writes({})]

\* Two modals write without a hook.
EditOrganization == [updateOrganization |-> Writes({"organizations"})]
LeaveOrganization == [leaveOrganization |-> Writes({"organizations"})]

---------------------------------------------------------------------------
(* packages/nextjs/src/client/hooks.ts *)

NextOrganizations == [nextCreateOrganization |-> Writes({"next:organizations"})]

NextDomains ==
    [nextAddDomain    |-> Writes({"next:domains"}),
     nextDeleteDomain |-> Writes({"next:domains"}),
     nextVerifyDomain |-> Writes({"next:domains"})]

NextAccount ==
    [nextDeleteSession |-> Writes({"next:sessions"}),
     nextUpdateUser    |-> Writes({"next:currentUser"})]

---------------------------------------------------------------------------
\* No mutation is in two of them.
Hooks ==
    {UseOrganizations, UseDeleteOrganization, UseProject, UseUser, UseUsers,
     UseUserIdentities, UseSessions, UseTotp, UsePasskeys, UseEmails,
     UsePhoneNumbers, UseWebhooks, UseDomains, UseRestrictions, UseRedirectUrls,
     UseUpload, EditOrganization, LeaveOrganization,
     NextOrganizations, NextDomains, NextAccount}

\* What the hooks forget although a screen that offers the mutation shows it.
Overlooked == {<<"deleteProject", "project">>, <<"updateUser", "user/current">>,
               <<"bulkUpdateUsers", "user/current">>}
=============================================================================
