CONSTANTS
  Agencies = {"X", "Y"}
  Agents = {"o", "p", "s"}
  Hosts = {"h"}
  Owner <- AgencyOwner
  Checked = {"h"}
  MaxLinks = 2
SPECIFICATION MembershipSpec
PROPERTIES LetGoMeansGone
CHECK_DEADLOCK FALSE
