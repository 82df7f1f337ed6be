-------------------------------- MODULE Pages --------------------------------
(***************************************************************************)
(* The pages of the web client (src/apps/web/src/app/) and the components  *)
(* they are made of: the queries each of them keeps mounted and the        *)
(* mutations its buttons and forms send, with dialogs and tabs open.       *)
(***************************************************************************)
EXTENDS Hooks

\* A component by itself, and several together.
Part(queries, buttons) == [shows |-> queries, sends |-> buttons]
Together(parts) == [shows |-> UNION {p.shows : p \in parts}, sends |-> UNION {p.sends : p \in parts}]

-----------------------------------------------------------------------------
(* Around every page.                                                      *)

\* The badge of the bell and the last five notices.
NotificationPopover ==
    Part({useNotifications, useUnreadCount},
         {useMarkAsRead, useMarkAllAsRead, useDeleteNotification})
PendingInvitationsModal == Part({useMyOrganizerInvitations}, {useRespondToOrganizerInvitation})
MyTickets == Part({useMyTickets}, {})
SupportFAB(role) ==
    IF role = "admin" THEN Part({}, {}) ELSE Together({Part({}, {useCreateTicket}), MyTickets})

Header == NotificationPopover
DashboardLayout == Together({Header, PendingInvitationsModal})

-----------------------------------------------------------------------------
(* The dashboard and the figures.                                          *)

RegistrationTrendChart == Part({useAdminTrends}, {})
CategoryDistributionChart == Part({useCategoryAnalytics}, {})
DepartmentActivityChart == Part({useDepartmentAnalytics}, {})
TopEventsChart == Part({useTopEvents}, {})
RecommendationStatusCard == Part({useMlHealth}, {})
DashboardShortcuts(role) ==
    Part({useTopOrganizer} \cup IF role = "organizer" THEN {useMyOrganizedEvents} ELSE {}, {})
DashboardPage(role) ==
    Together({Part({useRecentRegistrations, useDashboardStats}, {handleRefresh}),
              RegistrationTrendChart, CategoryDistributionChart, DepartmentActivityChart,
              TopEventsChart, DashboardShortcuts(role)}
             \cup IF role = "admin" THEN {RecommendationStatusCard} ELSE {})
ArchivePage == Part({useArchive}, {})

-----------------------------------------------------------------------------
(* Events.                                                                 *)

EventFormModal == Part({useVenues, useEventTypes}, {})
ArchiveConfirmation == Part({useFeedbackTemplates}, {})
\* The buttons of a row; an administrator also sees the drafts of others.
getEventsColumns(role) ==
    Part({}, {useUpdateEvent, useDeleteEvent, useGoLiveEvent}
             \cup IF role = "admin" THEN {useApproveEvent, useRejectEvent}
                                    ELSE {useSubmitEvent, useArchiveEvent, useAttachTemplate})
EventsList(role) ==
    Together({getEventsColumns(role), EventFormModal, ArchiveConfirmation,
              Part({useVenues, useUserNames,
                    IF role = "organizer" THEN useMyOrganizedEvents ELSE useEvents}, {})})

BasicInfoStep == Part({useVenues, useEventTypes}, {})
CategorizationStep == Part({useCategories, useTags}, {})
AdvancedConfigStep == Part({useEventTypes}, {})
ReviewStep == Part({useCategories, useTags, useVenues, useEventTypes}, {})
EventCreateWizard ==
    Together({Part({useEventTypes}, {useCreateEvent}), BasicInfoStep, CategorizationStep,
              AdvancedConfigStep, ReviewStep})

AttendeeScanner == Part({}, {useCheckIn})
AttendanceStats == Part({useAttendanceStats}, {})
AttendanceTable == Part({useAttendance}, {})
AttendanceHub == Together({AttendanceStats, AttendanceTable, AttendeeScanner})

AddGuestForm == Part({}, {addGuest})
CsvUpload == Part({}, {uploadGuests})
GuestRow == Part({}, {resendPass})
GraduationGuestsTab == Together({Part({useGraduationGuests}, {}), AddGuestForm, CsvUpload, GuestRow})

InviteOrganizerDialog == Part({useUserNames}, {useInviteOrganizer})
EventOrganizers == Together({Part({useEventOrganizers}, {useRemoveOrganizer}), InviteOrganizerDialog})
EventDetailTabs == Together({AttendanceHub, GraduationGuestsTab, EventOrganizers})
GuestInvitationCard == Part({useGuestInvites}, {useInviteGuests})
EventDetail ==
    Together({Part({useEvent, useRegistrationStatus}, {useUpdateEvent}), EventFormModal,
              EventDetailTabs, GuestInvitationCard})

EventAttendeesPage ==
    Together({Part({useEventRegistrations, useAttendance},
                   {useApproveRegistration, useRejectRegistration, useCancelRegistration,
                    useManualCheckIn}),
              AttendeeScanner})

GlobalAttendancePage ==
    Part({useGlobalAttendanceStats, useEventsParticipation, useRecentGlobalAttendance}, {})
InvitationsPage == Part({useMyOrganizerInvitations}, {useRespondToOrganizerInvitation})

-----------------------------------------------------------------------------
(* Administration.                                                         *)

CategoriesPage == Part({useCategories}, {useCreateCategory, useDeleteCategory})
TagsPage == Part({useTags}, {useCreateTag, useDeleteTag})
EventTypesPage == Part({useEventTypes}, {useCreateEventType, useDeleteEventType})
AddVenueModal == Part({}, {useCreateVenue})
VenuesPage == Together({Part({useVenues}, {}), AddVenueModal})
AddDepartmentModal == Part({}, {useCreateDepartment})
DepartmentsPage == Together({Part({useDepartments}, {}), AddDepartmentModal})
UsersPage == Part({useRoles, useUsers}, {})
TicketReplyModal == Part({useTicketDetails}, {useReplyTicket, useUpdateStatus})
SupportPage == Together({Part({useTickets}, {}), TicketReplyModal})
AdminFeedbackPage == Part({useFeedback, useAllFeedbackResponses}, {})
MyEventsFeedbackPage == Part({useMyEventsFeedbackResponses}, {})
FeedbackTemplatesPage ==
    Part({useFeedbackTemplates}, {useCreateTemplate, useUpdateTemplate, useDeleteTemplate})

-----------------------------------------------------------------------------
(* Discovery.                                                              *)

CategoryPicker == Part({useCategories}, {useSetUserPreferences})
OnboardingGate == Together({Part({useUserPreferences}, {}), CategoryPicker})
FilterBar == Part({useCategories}, {})
EventFeedCard == Part({useBookmarkStatus, useMyRegistrations}, {useToggleBookmark, useRegistration})
GuestHomePage ==
    Together({OnboardingGate, FilterBar, EventFeedCard, Part({useEvents, useRecommendations}, {})})
SimilarEventsRail == Together({Part({useSimilarEvents}, {}), EventFeedCard})
PublicEventPage ==
    Together({Part({useEvent, useRegistrationStatus}, {useRegistration, useCancelRegistration}),
              SimilarEventsRail})
MyEventsPage ==
    Together({Part({useMyRegistrations, useRecommendations, useMyOrganizerInvitations}, {}),
              EventFeedCard})
BookmarkedEventsPage == Together({Part({useBookmarks, useRecommendations}, {}), EventFeedCard})
PastEventsPage == Together({Part({useMyRegistrations}, {}), EventFeedCard})

EditProfileModal == Part({}, {useUpdateMyProfile})
UserInterests ==
    Part({useMyInterests, useMyCategoryPreferences, useCategories},
         {useUpdateMyInterests, useUpdateMyCategoryPreferences})
ProfileView == Together({EditProfileModal, UserInterests})

FeedbackFormPage == Part({useFeedbackForm}, {useSubmitFeedback})
SupportTracker == Part({usePublicTicket}, {usePublicReply})

-----------------------------------------------------------------------------
(* The pages the menus of a role lead to (data/main-pages.json,            *)
(* SIDEBAR_ITEMS), and those behind their rows and cards.                  *)

ManagerPages(role) ==
    {DashboardPage(role), EventsList(role), EventCreateWizard, EventDetail,
     EventAttendeesPage, ArchivePage, InvitationsPage, ProfileView}
AdminPages ==
    {UsersPage, GlobalAttendancePage, AdminFeedbackPage, SupportPage, CategoriesPage,
     TagsPage, VenuesPage, EventTypesPage, DepartmentsPage}
OrganizerPages == {MyEventsFeedbackPage, FeedbackTemplatesPage}
GuestPages ==
    {GuestHomePage, PublicEventPage, MyEventsPage, BookmarkedEventsPage, PastEventsPage,
     ProfileView}
PublicPages == {FeedbackFormPage, SupportTracker}

\* What is open on them at once, with the frame around the page.
PagesOf(role) ==
    {Together({SupportFAB(role), p} \cup IF role = "guest" \/ p \in PublicPages
                                         THEN {} ELSE {DashboardLayout}) :
        p \in PublicPages \cup CASE role = "admin" -> ManagerPages(role) \cup AdminPages
                                  [] role = "organizer" -> ManagerPages(role) \cup OrganizerPages
                                  [] role = "guest" -> GuestPages}

\* What the hooks leave out: a query that returns what the call changes, and that
\* its onSuccess does not name.  Its users see the old data until they are stale.
Headcounts == {"attendance-stats", "global-attendance-stats", "events-participation",
               "recent-registrations"}
Seats == Headcounts \cup {"bookmarks", "my-organized-events"}
EventViews == {"bookmarks", "my-registrations", "events-participation"}
Missed ==
    {useCreateEvent} \X ({"archive", "categories", "tags", "event"} \cup EventViews)
    \cup {useUpdateEvent} \X ({"archive", "categories", "tags"} \cup EventViews)
    \cup {useDeleteEvent} \X ({"archive", "categories", "tags", "event", "event-organizers/",
                               "my-organizer-invitations"} \cup EventViews)
    \cup {useSubmitEvent, useApproveEvent, useRejectEvent} \X ({"archive"} \cup EventViews)
    \cup {useGoLiveEvent} \X ({"archive", "my-organized-events"} \cup EventViews)
    \cup {useArchiveEvent} \X EventViews
    \cup {useInviteOrganizer, useRemoveOrganizer}
            \X {"my-organized-events", "event", "my-organizer-invitations"}
    \cup {useRespondToOrganizerInvitation} \X {"my-organized-events", "event"}
    \cup {useRegistration} \X (Seats \cup {"event-registrations"})
    \cup {useCancelRegistration} \X (Seats \cup {"event-registrations", "event"})
    \cup {useApproveRegistration, useRejectRegistration}
            \X (Headcounts \cup {"registration-status", "my-registrations"})
    \cup {useRejectRegistration} \X (Seats \cup {"events", "event"})
    \cup {useCheckIn, useManualCheckIn}
            \X {"global-attendance-stats", "events-participation", "recent-global-attendance"}
    \cup {useUpdateMyProfile} \X {"event-organizers", "admin-users"}
    \cup {useUpdateMyCategoryPreferences} \X {"user-category-preferences"}
    \cup {useSetUserPreferences} \X {"my-category-preferences"}
    \cup {useSubmitFeedback} \X {"admin-feedback", "feedback-form", "admin-feedback-responses",
                                  "organizer-feedback-responses"}
    \cup {useAttachTemplate} \X {"feedback-form"}
    \cup {useCreateTicket} \X {"my-support-tickets", "support-ticket", "public-support-ticket"}
    \cup {useReplyTicket, useUpdateStatus} \X {"public-support-ticket"}
    \cup {usePublicReply} \X TicketKeys

Site == [role \in {"admin", "organizer", "guest"} |-> PagesOf(role)]
==============================================================================
