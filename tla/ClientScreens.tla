--------------------------- MODULE ClientScreens ---------------------------
(* What the screens of the dashboard and the components of packages/nextjs *)
(* show and offer: each component is the keys of the queries it mounts and *)
(* the mutations that its buttons and forms send.  A modal counts with the *)
(* component that opens it.                                                *)
EXTENDS ClientHooks, FiniteSets

Shows(keys) == [reads |-> keys, offers |-> {}]
Offers(mutations) == [reads |-> {}, offers |-> mutations]
Part(keys, mutations) == [reads |-> keys, offers |-> mutations]
Together(parts) == [reads  |-> UNION {p.reads : p \in parts},
                    offers |-> UNION {p.offers : p \in parts}]

---------------------------------------------------------------------------
(* Organisations *)

CreateOrganizationModal == Offers({"createOrganization"})
DeleteOrganizationModal == Offers({"deleteOrganization"})
EditOrganizationModal == Offers({"updateOrganization"})
LeaveOrganizationModal == Offers({"leaveOrganization"})
EditUserModal == Offers({"updateUser"})
InviteMemberModal == Offers({"createInvitation"})
AddDomainModal == Offers({"addDomain"})
CreateWebhookModal == Offers({"createWebhook"})

OrganizationsPage ==
    Together({Shows({"organizations"}), CreateOrganizationModal, DeleteOrganizationModal,
              EditOrganizationModal, LeaveOrganizationModal})

OrganizationMembers ==
    Together({Part({"memberships", "roles", "users"}, {"updateMembership", "deleteMembership"}),
              EditUserModal})

OrganizationInvitations == Together({Part({"invitations"}, {"revokeInvitation"}), InviteMemberModal})

OrganizationDomains == Together({Part({"domains"}, {"verifyDomain", "deleteDomain"}), AddDomainModal})

WebhookDeliveryLog == Shows({"webhook-deliveries"})
WebhookList == Together({Part({"webhooks"}, {"deleteWebhook"}), CreateWebhookModal})

---------------------------------------------------------------------------
(* The account *)

AvatarUpload == Offers({"uploadAvatar"})
ProfileEditForm == Together({Part({"user/current"}, {"updateCurrentUser"}), AvatarUpload})
AddEmailModal == Offers({"addEmail"})
EmailList == Together({Part({"emails", "user/current"}, {"deleteEmail", "setPrimaryEmail"}), AddEmailModal})
PhoneNumberList == Part({"phoneNumbers"}, {"addPhoneNumber", "deletePhoneNumber"})
ConnectedAccounts == Part({"identities"}, {"unlinkIdentity"})
ChangePasswordModal == Offers({"updateCurrentUser"})
TwoFactorEnrollmentModal == Offers({"enrollTotp", "verifyTotp"})
BackupCodesModal == Offers({"regenerateBackupCodes"})

\* DeleteAccountModal is an action of its own.
AccountTab == Together({ProfileEditForm, EmailList, PhoneNumberList, ConnectedAccounts})

SecurityTab ==
    Together({Part({"passkeys", "user/current"},
                   {"registerPasskey", "renamePasskey", "deletePasskey", "disableTotp"}),
              ChangePasswordModal, TwoFactorEnrollmentModal, BackupCodesModal})

SessionsViewer == Part({"sessions"}, {"revokeSession", "revokeAllSessions"})

---------------------------------------------------------------------------
(* The project *)

ProjectSettingsForm == Part({"project"}, {"updateProject"})
CreateApiKeyModal == Offers({"createApiKey"})
ApiKeysList == Together({Part({"apiKeys"}, {"rotateApiKey", "revokeApiKey"}), CreateApiKeyModal})
SignupRestrictions == Part({"restrictions"}, {"createRestriction", "deleteRestriction"})
RedirectUrlsList == Part({"redirect-urls"}, {"createRedirectUrl", "deleteRedirectUrl"})
DeleteProjectModal == Offers({"deleteProject"})
AuditLogViewer == Shows({"audit_logs"})
UsageDashboard == Shows({"usage"})

SettingsPage == Together({Shows({"project"}), DeleteProjectModal})

GeneralTab == Together({ProjectSettingsForm, ApiKeysList, SignupRestrictions, RedirectUrlsList})

UsersListPage ==
    Together({Part({"organizations", "user-org-map", "users"}, {"bulkUpdateUsers"}), EditUserModal})

---------------------------------------------------------------------------
(* Every screen of the dashboard is drawn inside the layout. *)

GlobalSearch == Shows({"global-search"})
Layout == Together({Shows({"user/current"}), GlobalSearch})
InLayout(part) == Together({Layout, part})

DashboardScreens ==
    [signIn        |-> InLayout(Shows({})),
     organizations |-> InLayout(OrganizationsPage),
     members       |-> InLayout(Together({OrganizationsPage, OrganizationMembers})),
     invitations   |-> InLayout(Together({OrganizationsPage, OrganizationInvitations})),
     domains       |-> InLayout(Together({OrganizationsPage, OrganizationDomains})),
     webhooks      |-> InLayout(Together({OrganizationsPage, WebhookList})),
     deliveries    |-> InLayout(Together({OrganizationsPage, WebhookDeliveryLog})),
     account       |-> InLayout(AccountTab),
     security      |-> InLayout(SecurityTab),
     sessions      |-> InLayout(SessionsViewer),
     settings      |-> InLayout(Together({SettingsPage, GeneralTab})),
     audit         |-> InLayout(Together({SettingsPage, AuditLogViewer})),
     usage         |-> InLayout(Together({SettingsPage, UsageDashboard})),
     users         |-> InLayout(UsersListPage)]

---------------------------------------------------------------------------
(* A host application places the components of packages/nextjs as it likes. *)

NextUserProfile == Part({"next:currentUser", "next:sessions"}, {"nextDeleteSession", "nextUpdateUser"})
NextOrganizationProfile ==
    Part({"next:memberships", "next:invitations", "next:domains"},
         {"nextAddDomain", "nextDeleteDomain", "nextVerifyDomain"})
NextCreateOrganization == Part({"next:user", "next:organizations"}, {"nextCreateOrganization"})
NextOrganizationSwitcher == Shows({"next:organizations"})
NextUserButton == Shows({"next:currentUser"})

NextScreens ==
    [nextProfile      |-> Together({NextUserProfile, NextUserButton}),
     nextOrganization |-> Together({NextOrganizationProfile, NextOrganizationSwitcher}),
     nextCreate       |-> Together({NextCreateOrganization, NextOrganizationSwitcher})]

DashboardKeys == UNION {DashboardScreens[s].reads : s \in DOMAIN DashboardScreens}
NextKeys == UNION {NextScreens[s].reads : s \in DOMAIN NextScreens}
=============================================================================
