------------------------------ MODULE Personnel ------------------------------
(***************************************************************************)
(* The personnel: the runs of a payroll period, what they pay, attendance, *)
(* and employees with their salaries and buses.  A calculation of the      *)
(* payroll takes days and salaries as they are; they share no row that a   *)
(* property is about.                                                      *)
(***************************************************************************)
EXTENDS PayrollRuns, Attendance, Employment, Payslips

PersonnelSpec == PayrollSpec /\ AttendanceSpec /\ EmploymentSpec /\ PayslipsSpec

-----------------------------------------------------------------------------
\* The types of the four components.
PersonnelTypeOK == PayrollTypeOK /\ AttendanceTypeOK /\ EmploymentTypeOK /\ PayslipsTypeOK
=============================================================================
