SPECIFICATION AccessSpec
CONSTANTS
  admin = admin
  staff = staff
  spare = spare
  worker = worker
  editor = editor
  Role = {admin, staff, spare}
  Admin = admin
  Slug = {"admin", "staff", "spare"}
  FirstSlug <- MCFirstSlug
  Permission = {"ops", "scope", "custom"}
  BuiltIn = {"ops", "scope"}
  Installs <- MCInstalls
  ManageOps = "ops"
  ManageScope = "scope"
  User = {u1}
  Station = {s1}
  Type = {t1}
  Slot = {worker, editor}
  Nobody = Nobody
  Uninstalled = {spare}
  AtFirst = {"staff"}
  Given = {"staff", "admin"}
  Adjusted = {staff}
  MaxBegun = 3
CHECK_DEADLOCK FALSE
INVARIANTS
  RolesInEffect
  PassedWasAuthorised
